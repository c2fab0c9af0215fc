--------------------------- MODULE NetworkProofs ---------------------------
(* What is proved of the HidraNet network: the contacts a node keeps, a      *)
(* lookup's paths, the pool of circuits, the store of descriptors, and what   *)
(* a link and a circuit carry: handshakes and cells.                          *)
EXTENDS DhtLookup, DhtContacts, CircuitPool, DhtServices, Links,
        FiniteSetTheorems, SequenceTheorems, NaturalsInduction, WellFoundedInduction, TLAPS

-----------------------------------------------------------------------------
(* DhtLookup.                                                                *)

\* A nonempty set of numbers has a least one.
LEMMA Nearest ==
  ASSUME NEW S, S \subseteq Nat, S # {}
  PROVE  \E n \in S : \A m \in S : n <= m
PROOF
<1> DEFINE Below == OpToRel(<, Nat)
<1>1. IsWellFoundedOn(Below, Nat)
  BY NatLessThanWellFounded
<1>2. \A m, n \in Nat : m < n => <<m, n>> \in Below
  BY DEF OpToRel
<1> HIDE DEF Below
<1>3. PICK n \in S : \A m \in S : ~(<<m, n>> \in Below)
  BY <1>1, WFMin
<1>4. \A m \in S : ~(m < n)
  BY <1>2, <1>3
<1> QED BY <1>3, <1>4

\* Of a set that is not empty, the closest are some.
LEMMA ClosestIsSome ==
  ASSUME NEW S, S \subseteq Nat, NEW n \in Nat \ {0}, closest(S, n) = {}
  PROVE  S = {}
PROOF
<1> SUFFICES ASSUME S # {} PROVE FALSE
  OBVIOUS
<1>1. PICK x \in S : \A y \in S : x <= y
  BY Nearest
<1>2. \A y \in S : ~(y < x)
  BY <1>1
<1>3. Cardinality({y \in S : y < x}) = 0
  <2>1. {y \in S : y < x} = {}
    BY <1>2
  <2> QED BY <2>1, FS_EmptySet
<1>4. x \in closest(S, n)
  BY <1>3 DEF closest
<1> QED BY <1>4

LEMMA PicksAre ==
  ASSUME LookupTyped, NEW p \in Paths
  PROVE  /\ window_of(p) \subseteq Peers
         /\ picks(p) \subseteq Peers
         /\ picks(p) \cap (tried[p] \cup claimed \cup answered) = {}
         /\ picks(p) = {} => \A x \in window_of(p) : x \in tried[p] \cup claimed \cup answered
PROOF
<1>1. window_of(p) \subseteq Peers
  BY DEF window_of, closest, LookupTyped
<1> DEFINE left == {x \in window_of(p) : x \notin tried[p] \cup claimed \cup answered}
<1>2. picks(p) = closest(left, ALPHA) /\ left \subseteq Nat /\ ALPHA \in Nat \ {0}
  BY <1>1, LookupConstants DEF picks
<1>3. picks(p) \subseteq left
  BY <1>2 DEF closest
<1>4. picks(p) = {} => left = {}
  BY <1>2, ClosestIsSome
<1> QED BY <1>1, <1>3, <1>4

\* Every step of a lookup keeps its invariant.
LEMMA LookupInductive ==
  ASSUME LookupInv, [LkNext]_lkVars
  PROVE  LookupInv'
PROOF
<1>a. /\ world \in [Peers -> SUBSET Peers] /\ DOMAIN seen = Paths /\ \A p \in Paths : DOMAIN seen[p] \subseteq Peers
      /\ tried \in [Paths -> SUBSET Peers] /\ dead \in [Paths -> SUBSET Peers]
      /\ responded \in [Paths -> SUBSET Peers] /\ asking \in [Paths -> SUBSET Peers]
      /\ phase \in [Paths -> {"pick", "wait", "done"}]
  BY DEF LookupInv, LookupTyped
<1>b. \A p \in Paths : asking[p] \subseteq claimed /\ responded[p] \subseteq answered /\ (phase[p] # "wait" => asking[p] = {})
  BY DEF LookupInv, ClaimsHeld
<1>c. /\ found # NotYet => \A p \in Paths : phase[p] = "done"
      /\ ~late => \A p \in Paths : phase[p] = "done" => WindowDone(p)
  BY DEF LookupInv, EndedRightly
<1>d. \A p, q \in Paths : p # q => (responded[p] \cup asking[p]) \cap (responded[q] \cup asking[q]) = {}
  BY DEF LookupInv, PathsDisjoint
<1>e. \A x \in claimed : x \in answered \/ \E p \in Paths : x \in asking[p]
  BY DEF LookupInv, SleepsForSomeone
<1>f. LookupTyped
  BY DEF LookupInv
<1>1. ASSUME NEW p \in Paths, AskNext(p) PROVE LookupInv'
  <2>1. /\ phase[p] = "pick" /\ claimed' = claimed \cup picks(p)
        /\ tried' = [tried EXCEPT ![p] = @ \cup picks(p)]
        /\ asking' = [asking EXCEPT ![p] = picks(p)]
        /\ phase' = [phase EXCEPT ![p] = "wait"]
        /\ UNCHANGED <<world, seen, dead, responded, answered, late, found>>
    BY <1>1 DEF AskNext, fixed
  <2>2. picks(p) \subseteq Peers /\ picks(p) \cap (claimed \cup answered) = {}
    BY <1>f, PicksAre
  <2>3. asking[p] = {} /\ asking'[p] = picks(p) /\ \A q \in Paths : q # p => asking'[q] = asking[q]
    BY <2>1, <1>a, <1>b
  <2>4. phase'[p] = "wait" /\ \A q \in Paths : q # p => phase'[q] = phase[q] /\ tried'[q] = tried[q]
    BY <2>1, <1>a
  <2>5. LookupTyped'
    BY <2>1, <2>2, <1>a DEF LookupTyped
  <2>6. ClaimsHeld'
    BY <2>1, <2>3, <2>4, <1>b DEF ClaimsHeld
  <2>7. EndedRightly'
    <3>1. found = NotYet
      BY <2>1, <1>c
    <3>2. \A q \in Paths : q # p => (WindowDone(q)' <=> WindowDone(q))
      BY <2>1, <2>4 DEF WindowDone, window_of
    <3> QED BY <2>1, <2>4, <3>1, <3>2, <1>c DEF EndedRightly
  <2>8. PathsDisjoint'
    <3>1. \A q \in Paths : q # p => picks(p) \cap (responded[q] \cup asking[q]) = {}
      BY <2>2, <1>b
    <3> QED BY <2>1, <2>3, <3>1, <1>d DEF PathsDisjoint
  <2>9. SleepsForSomeone'
    BY <2>1, <2>3, <1>e DEF SleepsForSomeone
  <2> QED BY <2>5, <2>6, <2>7, <2>8, <2>9 DEF LookupInv
<1>2. ASSUME NEW p \in Paths, EndPath(p) PROVE LookupInv'
  <2>1. /\ phase[p] = "pick" /\ (late \/ (picks(p) = {} /\ ~elsewhere(p)))
        /\ phase' = [phase EXCEPT ![p] = "done"]
        /\ UNCHANGED <<world, seen, tried, dead, responded, asking, claimed, answered, late, found>>
    BY <1>2 DEF EndPath, fixed
  <2>2. ~late => WindowDone(p)
    <3>1. ASSUME ~late PROVE WindowDone(p)
      <4>1. \A x \in window_of(p) : x \in tried[p] \cup claimed \cup answered
        BY <3>1, <2>1, <1>f, PicksAre
      <4>2. \A x \in window_of(p) : x \in tried[p] \/ x \notin claimed \/ x \in answered
        BY <3>1, <2>1 DEF elsewhere
      <4> QED BY <4>1, <4>2 DEF WindowDone
    <3> QED BY <3>1
  <2>3. phase'[p] = "done" /\ \A q \in Paths : q # p => phase'[q] = phase[q]
    BY <2>1, <1>a
  <2>4. \A q \in Paths : WindowDone(q)' <=> WindowDone(q)
    BY <2>1 DEF WindowDone, window_of
  <2>5. EndedRightly'
    BY <2>1, <2>2, <2>3, <2>4, <1>c DEF EndedRightly
  <2>6. LookupTyped' /\ ClaimsHeld'
    <3>1. LookupTyped'
      BY <2>1, <1>a DEF LookupTyped
    <3>2. ClaimsHeld'
      BY <2>1, <2>3, <1>b DEF ClaimsHeld
    <3> QED BY <3>1, <3>2
  <2>7. PathsDisjoint' /\ SleepsForSomeone'
    BY <2>1, <1>d, <1>e DEF PathsDisjoint, SleepsForSomeone
  <2> QED BY <2>5, <2>6, <2>7 DEF LookupInv
<1>3. ASSUME NEW p \in Paths, NEW ok \in SUBSET asking[p], NEW right \in BOOLEAN, AnswersIn(p, ok, right) PROVE LookupInv'
  <2>1. /\ phase[p] = "wait"
        /\ dead' = [dead EXCEPT ![p] = @ \cup (asking[p] \ ok)]
        /\ claimed' = claimed \ (asking[p] \ ok)
        /\ answered' = answered \cup ok
        /\ responded' = [responded EXCEPT ![p] = @ \cup ok]
        /\ seen' = [seen EXCEPT ![p] = also_named(@, ok, right)]
        /\ asking' = [asking EXCEPT ![p] = {}]
        /\ phase' = [phase EXCEPT ![p] = "pick"]
        /\ UNCHANGED <<world, tried, late, found>>
    BY <1>3 DEF AnswersIn, fixed, released
  <2>2. ok \subseteq asking[p] /\ ok \subseteq Peers
    BY <1>a
  <2>3. /\ phase'[p] = "pick" /\ asking'[p] = {} /\ responded'[p] = responded[p] \cup ok
        /\ \A q \in Paths : q # p => /\ phase'[q] = phase[q] /\ asking'[q] = asking[q] /\ responded'[q] = responded[q]
                                     /\ seen'[q] = seen[q] /\ dead'[q] = dead[q]
    BY <2>1, <1>a
  <2>4. DOMAIN seen'[p] \subseteq Peers
    <3>1. named_by(ok) \subseteq Peers
      BY <2>2, <1>a DEF named_by
    <3>2. DOMAIN seen'[p] = DOMAIN seen[p] \cup named_by(ok)
      BY <2>1, <1>a DEF also_named
    <3> QED BY <3>1, <3>2, <1>a
  <2>5. LookupTyped'
    <3>1. DOMAIN seen' = Paths /\ \A q \in Paths : DOMAIN seen'[q] \subseteq Peers
      BY <2>1, <2>3, <2>4, <1>a
    <3>2. /\ dead' \in [Paths -> SUBSET Peers] /\ responded' \in [Paths -> SUBSET Peers]
          /\ asking' \in [Paths -> SUBSET Peers] /\ phase' \in [Paths -> {"pick", "wait", "done"}]
      BY <2>1, <2>2, <1>a
    <3> QED BY <2>1, <3>1, <3>2, <1>a DEF LookupTyped
  <2>6. ClaimsHeld'
    <3>1. \A q \in Paths : q # p => asking[q] \cap asking[p] = {}
      BY <1>d
    <3> QED BY <2>1, <2>3, <3>1, <1>b DEF ClaimsHeld
  <2>7. EndedRightly'
    <3>1. found = NotYet
      BY <2>1, <1>c
    <3>2. \A q \in Paths : q # p => (WindowDone(q) => WindowDone(q)')
      BY <2>1, <2>3 DEF WindowDone, window_of
    <3> QED BY <2>1, <2>3, <3>1, <3>2, <1>c DEF EndedRightly
  <2>8. PathsDisjoint'
    BY <2>2, <2>3, <1>d DEF PathsDisjoint
  <2>9. SleepsForSomeone'
    <3>1. ASSUME NEW x \in claimed', x \notin answered' PROVE \E q \in Paths : x \in asking'[q]
      <4>1. x \in claimed /\ x \notin asking[p] \ ok /\ x \notin answered /\ x \notin ok
        BY <3>1, <2>1
      <4>2. PICK q \in Paths : x \in asking[q]
        BY <4>1, <1>e
      <4>3. q # p
        BY <4>1, <4>2
      <4> QED BY <4>2, <4>3, <2>3
    <3> QED BY <3>1 DEF SleepsForSomeone
  <2> QED BY <2>5, <2>6, <2>7, <2>8, <2>9 DEF LookupInv
<1>4. ASSUME \/ BudgetEnds \/ LookupDone \/ UNCHANGED lkVars PROVE LookupInv'
  <2>1. /\ UNCHANGED <<world, seen, tried, dead, responded, asking, phase, claimed, answered>>
        /\ late' = late \/ (late' = TRUE)
        /\ found' = found \/ \A p \in Paths : phase[p] = "done"
    BY <1>4 DEF BudgetEnds, LookupDone, lkVars, fixed
  <2>2. \A q \in Paths : WindowDone(q)' <=> WindowDone(q)
    BY <2>1 DEF WindowDone, window_of
  <2>3. EndedRightly'
    BY <2>1, <2>2, <1>c DEF EndedRightly
  <2>4. LookupTyped' /\ ClaimsHeld' /\ PathsDisjoint' /\ SleepsForSomeone'
    BY <2>1, <1>a, <1>b, <1>d, <1>e DEF LookupTyped, ClaimsHeld, PathsDisjoint, SleepsForSomeone
  <2> QED BY <2>3, <2>4 DEF LookupInv
<1> QED BY <1>1, <1>2, <1>3, <1>4 DEF LkNext

(* The paths of a lookup share no node that is asked or has answered, a path   *)
(* sleeps only for a node that is being asked, and a lookup that was not cut   *)
(* short left out no node of a window that had not answered (lookup_paths,     *)
(* lookup_path), for any number of nodes, paths and requests at once.          *)
THEOREM LookupIsSound == LkSpec => []LookupSound
PROOF
<1>1. LkInit => LookupInv
  <2> SUFFICES ASSUME LkInit PROVE LookupInv
    OBVIOUS
  <2>1. DOMAIN seeds \subseteq Peers
    BY DEF LkInit
  <2>2. world \in [Peers -> SUBSET Peers]
    BY DEF LkInit
  <2>3. LookupTyped
    BY <2>1, <2>2 DEF LkInit, LookupTyped, group
  <2>4. ClaimsHeld /\ EndedRightly /\ PathsDisjoint /\ SleepsForSomeone
    BY DEF LkInit, ClaimsHeld, EndedRightly, PathsDisjoint, SleepsForSomeone
  <2> QED BY <2>3, <2>4 DEF LookupInv
<1>2. LookupInv => LookupSound
  BY DEF LookupInv, LookupSound, NothingSkipped, EndedRightly, WindowDone
<1> QED BY <1>1, <1>2, LookupInductive, PTL DEF LkSpec

-----------------------------------------------------------------------------
(* CircuitPool.                                                              *)

\* What the ways to change a table of stamps leave in it.
LEMMA WithoutOne ==
  ASSUME NEW f, NEW c, Stamped(f)
  PROVE  /\ Stamped(without_c(f, c)) /\ DOMAIN without_c(f, c) = DOMAIN f \ {c}
         /\ \A d \in DOMAIN f : d # c => without_c(f, c)[d] = f[d]
BY DEF Stamped, without_c

LEMMA WithOne ==
  ASSUME NEW f, NEW c \in Cids, NEW t \in Nat, Stamped(f)
  PROVE  /\ Stamped(with_c(f, c, t)) /\ DOMAIN with_c(f, c, t) = DOMAIN f \cup {c} /\ with_c(f, c, t)[c] = t
         /\ \A d \in DOMAIN f : d # c => with_c(f, c, t)[d] = f[d]
BY DEF Stamped, with_c

LEMMA StampOne ==
  ASSUME NEW f, NEW c \in Cids, NEW t \in Nat, Stamped(f)
  PROVE  /\ Stamped([f EXCEPT ![c] = t]) /\ DOMAIN [f EXCEPT ![c] = t] = DOMAIN f
         /\ c \in DOMAIN f => [f EXCEPT ![c] = t][c] = t
         /\ \A d \in DOMAIN f : d # c => [f EXCEPT ![c] = t][d] = f[d]
BY DEF Stamped

\* Fewer circuits in a table are no more than its limit.
LEMMA FewerFit ==
  ASSUME NEW S, NEW T, S \subseteq T, T \subseteq Cids, NEW n \in Nat, Cardinality(T) <= n
  PROVE  Cardinality(S) <= n
PROOF
<1>1. IsFiniteSet(T)
  BY PoolConstants, FS_Subset
<1>2. Cardinality(S) <= Cardinality(T) /\ IsFiniteSet(S)
  BY <1>1, FS_Subset
<1>3. Cardinality(S) \in Nat /\ Cardinality(T) \in Nat
  BY <1>1, <1>2, FS_CardinalityType
<1> QED BY <1>2, <1>3

LEMMA OneMoreFits ==
  ASSUME NEW T, T \subseteq Cids, NEW c, NEW n \in Nat, Cardinality(T) < n
  PROVE  Cardinality(T \cup {c}) <= n
PROOF
<1>1. IsFiniteSet(T)
  BY PoolConstants, FS_Subset
<1>2. Cardinality(T \cup {c}) = IF c \in T THEN Cardinality(T) ELSE Cardinality(T) + 1
  BY <1>1, FS_AddElement
<1>3. Cardinality(T) \in Nat
  BY <1>1, FS_CardinalityType
<1> QED BY <1>2, <1>3

\* A relay's reaping keeps what a ready circuit has there.
LEMMA ReapedAre ==
  ASSUME PoolTyped, NEW r \in Relays3
  PROVE  /\ Stamped(reaped(r)) /\ DOMAIN reaped(r) \subseteq DOMAIN circuits[r]
         /\ \A d \in DOMAIN reaped(r) : reaped(r)[d] = circuits[r][d]
         /\ \A d \in DOMAIN circuits[r] :
              circuits[r][d] >= created_at[d] /\ time - created_at[d] < POOL_TTL => d \in DOMAIN reaped(r)
PROOF
<1>1. Stamped(circuits[r]) /\ time \in Nat /\ created_at \in [Cids -> Nat]
  BY DEF PoolTyped
<1>2. DOMAIN reaped(r) = {e \in DOMAIN circuits[r] : time - circuits[r][e] < RELAY_TTL}
  BY DEF reaped
<1>3. \A d \in DOMAIN reaped(r) : reaped(r)[d] = circuits[r][d]
  BY <1>2 DEF reaped
<1>4. Stamped(reaped(r))
  BY <1>1, <1>2, <1>3 DEF Stamped
<1>5. ASSUME NEW d \in DOMAIN circuits[r], circuits[r][d] >= created_at[d], time - created_at[d] < POOL_TTL
      PROVE  d \in DOMAIN reaped(r)
  <2>1. circuits[r][d] \in Nat /\ created_at[d] \in Nat
    BY <1>1 DEF Stamped
  <2>2. time - circuits[r][d] < RELAY_TTL
    BY <2>1, <1>1, <1>5, PoolConstants
  <2> QED BY <2>2, <1>2
<1> QED BY <1>2, <1>3, <1>4, <1>5

\* The relays' tables, whatever is done to them: stamps, within their limit.
TablesFit == /\ DOMAIN circuits = Relays3 /\ \A r \in Relays3 : Stamped(circuits[r])
             /\ \A r \in Relays3 : Cardinality(DOMAIN circuits[r]) <= MAX_CIRCUITS

\* A step leaves what the relays and the guard keep of a circuit.
Untouched(d) ==
  /\ d \in DOMAIN guardLink => d \in DOMAIN guardLink' /\ guardLink'[d] = guardLink[d]
  /\ \A r \in Relays3 : d \in DOMAIN circuits[r] => d \in DOMAIN circuits'[r] /\ circuits'[r][d] = circuits[r][d]

\* Worth keeping: as UsableWhileReady says of a pooled circuit.
ReadyAndKept(d) == time - created_at[d] < POOL_TTL /\ KeptSinceMade(d)

LEMMA CreateCircuit ==
  ASSUME PoolTyped, TablesFit, NEW r \in Relays3, NEW c \in Cids, room(r, c)
  PROVE  LET t == create_circuit(r, c) IN
         /\ DOMAIN t = Relays3 /\ \A q \in Relays3 : Stamped(t[q]) /\ Cardinality(DOMAIN t[q]) <= MAX_CIRCUITS
         /\ c \in DOMAIN t[r] /\ \A q \in Relays3 : q # r => t[q] = circuits[q]
         /\ \A d \in Cids : d # c /\ ReadyAndKept(d) =>
              \A q \in Relays3 : d \in DOMAIN t[q] /\ t[q][d] = circuits[q][d]
PROOF
<1> DEFINE t == create_circuit(r, c)
<1>1. t = [circuits EXCEPT ![r] = with_c(reaped(r), c, time)] /\ time \in Nat
  BY DEF create_circuit, PoolTyped
<1>2. DOMAIN t = Relays3 /\ t[r] = with_c(reaped(r), c, time) /\ \A q \in Relays3 : q # r => t[q] = circuits[q]
  BY <1>1 DEF TablesFit
<1>3. Stamped(reaped(r)) /\ DOMAIN reaped(r) \subseteq Cids
  BY ReapedAre DEF Stamped
<1>4. Stamped(t[r]) /\ DOMAIN t[r] = DOMAIN reaped(r) \cup {c} /\ \A d \in DOMAIN reaped(r) : d # c => t[r][d] = reaped(r)[d]
  <2> DEFINE w == with_c(reaped(r), c, time)
  <2>1. Stamped(w) /\ DOMAIN w = DOMAIN reaped(r) \cup {c} /\ \A d \in DOMAIN reaped(r) : d # c => w[d] = reaped(r)[d]
    BY <1>1, <1>3, WithOne
  <2> HIDE DEF w, t
  <2>2. t[r] = w
    BY <1>2 DEF w, t
  <2> QED BY <2>1, <2>2
<1>5. Cardinality(DOMAIN t[r]) <= MAX_CIRCUITS
  BY <1>3, <1>4, OneMoreFits, PoolConstants DEF room
<1>6. ASSUME NEW d \in Cids, d # c, ReadyAndKept(d), NEW q \in Relays3 PROVE d \in DOMAIN t[q] /\ t[q][d] = circuits[q][d]
  <2>1. d \in DOMAIN circuits[q] /\ circuits[q][d] >= created_at[d] /\ time - created_at[d] < POOL_TTL
    BY <1>6 DEF ReadyAndKept, KeptSinceMade
  <2>2. CASE q = r
    BY <2>1, <2>2, <1>4, <1>6, ReapedAre
  <2>3. CASE q # r
    BY <2>1, <2>3, <1>2
  <2> QED BY <2>2, <2>3
<1>7. c \in DOMAIN t[r]
  BY <1>4
<1> HIDE DEF t
<1>8. \A q \in Relays3 : Stamped(t[q]) /\ Cardinality(DOMAIN t[q]) <= MAX_CIRCUITS
  BY <1>2, <1>4, <1>5 DEF TablesFit
<1> QED BY <1>2, <1>6, <1>7, <1>8 DEF t

\* A step's circuits that were pooled and are worth keeping are kept.
LEMMA UsableFrom ==
  ASSUME PoolTyped, UsableWhileReady, time' \in Nat, time' >= time, created_at' \in [Cids -> Nat],
         \A d \in Cids : stage'[d] = "pooled" =>
           \/ /\ stage[d] = "pooled" /\ created_at'[d] = created_at[d]
              /\ d \notin broken' => d \notin broken /\ (ReadyAndKept(d) => Untouched(d))
           \/ created_at'[d] <= time' /\ KeptSinceMade(d)'
  PROVE  UsableWhileReady'
PROOF
<1> SUFFICES ASSUME NEW d \in Cids, stage'[d] = "pooled"
             PROVE  /\ created_at'[d] <= time'
                    /\ d \notin broken' /\ time' - created_at'[d] < POOL_TTL => KeptSinceMade(d)'
  BY DEF UsableWhileReady
<1>1. CASE created_at'[d] <= time' /\ KeptSinceMade(d)'
  BY <1>1
<1>2. CASE /\ stage[d] = "pooled" /\ created_at'[d] = created_at[d]
           /\ d \notin broken' => d \notin broken /\ (ReadyAndKept(d) => Untouched(d))
  <2>1. time \in Nat /\ created_at[d] \in Nat /\ POOL_TTL \in Nat
    BY PoolConstants DEF PoolTyped
  <2>2. created_at[d] <= time
    BY <1>2 DEF UsableWhileReady
  <2>3. created_at'[d] <= time'
    BY <2>1, <2>2, <1>2
  <2>4. ASSUME d \notin broken', time' - created_at'[d] < POOL_TTL PROVE KeptSinceMade(d)'
    <3>1. time - created_at[d] < POOL_TTL
      BY <2>1, <2>4, <1>2
    <3>2. KeptSinceMade(d)
      BY <2>4, <3>1, <1>2 DEF UsableWhileReady
    <3>3. Untouched(d)
      BY <3>1, <3>2, <2>4, <1>2 DEF ReadyAndKept
    <3> QED BY <3>2, <3>3, <1>2 DEF KeptSinceMade, Untouched
  <2> QED BY <2>3, <2>4
<1> QED BY <1>1, <1>2

\* What a step does to what the relays keep, to the guard's links and to the
\* circuits of the pool.
LEMMA TablesStep ==
  ASSUME PoolInv, CpNext
  PROVE  /\ TablesFit' /\ Stamped(guardLink)'
         /\ \A d \in Cids : stage'[d] = "pooled" =>
              \/ /\ stage[d] = "pooled" /\ created_at'[d] = created_at[d]
                 /\ d \notin broken' => d \notin broken /\ (ReadyAndKept(d) => Untouched(d))
              \/ created_at'[d] <= time' /\ KeptSinceMade(d)'
PROOF
<1> DEFINE Good == /\ TablesFit' /\ Stamped(guardLink)'
                   /\ \A d \in Cids : stage'[d] = "pooled" =>
                        \/ /\ stage[d] = "pooled" /\ created_at'[d] = created_at[d]
                           /\ d \notin broken' => d \notin broken /\ (ReadyAndKept(d) => Untouched(d))
                        \/ created_at'[d] <= time' /\ KeptSinceMade(d)'
<1>a. TablesFit /\ PoolTyped /\ Stamped(guardLink) /\ time \in Nat /\ MAX_CIRCUITS \in Nat
  BY PoolConstants DEF PoolInv, PoolTyped, WithinLimits, TablesFit
<1>b. stage \in [Cids -> Stages] /\ created_at \in [Cids -> Nat]
  BY DEF PoolInv, PoolTyped
<1>c. \A r \in Relays3 : DOMAIN circuits[r] \subseteq Cids
  BY <1>a DEF TablesFit, Stamped
<1>1. ASSUME NEW c \in Cids, NEW who, direct_handshake(c, who) PROVE Good
  <2>1. stage[c] = "none" /\ UNCHANGED <<time, created_at, broken>>
    BY <1>1 DEF direct_handshake
  <2>2. 1 \in Relays3
    BY PoolConstants DEF Relays3
  <2>3. CASE room(1, c) /\ circuits' = create_circuit(1, c) /\ stage' = [stage EXCEPT ![c] = "build"]
             /\ guardLink' = with_c(guardLink, c, time)
    <3>1. TablesFit'
      BY <2>2, <2>3, <1>a, CreateCircuit DEF TablesFit
    <3>2. Stamped(guardLink)' /\ \A d \in DOMAIN guardLink : d # c => d \in DOMAIN guardLink' /\ guardLink'[d] = guardLink[d]
      <4>1. /\ Stamped(with_c(guardLink, c, time)) /\ DOMAIN with_c(guardLink, c, time) = DOMAIN guardLink \cup {c}
            /\ \A d \in DOMAIN guardLink : d # c => with_c(guardLink, c, time)[d] = guardLink[d]
        BY <1>a, WithOne
      <4> QED BY <4>1, <2>3
    <3>3. \A d \in Cids : d # c /\ ReadyAndKept(d) => \A q \in Relays3 : d \in DOMAIN circuits'[q] /\ circuits'[q][d] = circuits[q][d]
      BY <2>2, <2>3, <1>a, CreateCircuit
    <3>4. \A d \in Cids : stage'[d] = "pooled" => d # c /\ stage[d] = "pooled"
      BY <2>3, <1>b
    <3> QED BY <2>1, <3>1, <3>2, <3>3, <3>4 DEF Untouched
  <2>4. CASE circuits' = [circuits EXCEPT ![1] = reaped(1)] /\ stage' = [stage EXCEPT ![c] = "gone"] /\ UNCHANGED guardLink
    <3>1. /\ DOMAIN circuits' = Relays3 /\ circuits'[1] = reaped(1)
          /\ \A q \in Relays3 : q # 1 => circuits'[q] = circuits[q]
      BY <2>2, <2>4, <1>a DEF TablesFit
    <3>2. Stamped(reaped(1)) /\ DOMAIN reaped(1) \subseteq DOMAIN circuits[1]
      BY <2>2, <1>a, ReapedAre
    <3>3. Cardinality(DOMAIN reaped(1)) <= MAX_CIRCUITS
      BY <3>2, <2>2, <1>a, <1>c, FewerFit DEF TablesFit
    <3>4. TablesFit'
      BY <3>1, <3>2, <3>3, <1>a DEF TablesFit
    <3>5. ASSUME NEW d \in Cids, ReadyAndKept(d) PROVE Untouched(d)
      <4>1. d \in DOMAIN reaped(1) /\ reaped(1)[d] = circuits[1][d]
        BY <3>5, <2>2, <1>a, ReapedAre DEF ReadyAndKept, KeptSinceMade
      <4> QED BY <4>1, <3>1, <2>4 DEF Untouched
    <3>6. \A d \in Cids : stage'[d] = "pooled" => stage[d] = "pooled"
      BY <2>4, <1>b
    <3> QED BY <2>1, <2>4, <3>4, <3>5, <3>6, <1>a
  <2> QED BY <1>1, <2>3, <2>4 DEF direct_handshake
<1>2. ASSUME NEW c \in Cids, Extend(c) PROVE Good
  <2>1. /\ circuits' = touched(circuits, c, hops[c]) /\ guardLink' = [guardLink EXCEPT ![c] = time]
        /\ stage[c] = "build" /\ stage' = [stage EXCEPT ![c] = "extending"] /\ UNCHANGED <<time, created_at, broken>>
    BY <1>2 DEF Extend
  <2>2. /\ DOMAIN circuits' = Relays3
        /\ \A r \in Relays3 : circuits'[r] = circuits[r] \/ circuits'[r] = [circuits[r] EXCEPT ![c] = time]
    BY <2>1 DEF touched
  <2>3. \A r \in Relays3 : /\ Stamped(circuits'[r]) /\ DOMAIN circuits'[r] = DOMAIN circuits[r]
                           /\ \A d \in DOMAIN circuits[r] : d # c => circuits'[r][d] = circuits[r][d]
    BY <2>2, <1>a, StampOne DEF TablesFit
  <2>4. TablesFit'
    BY <2>2, <2>3, <1>a DEF TablesFit
  <2>5. /\ Stamped(guardLink)' /\ DOMAIN guardLink' = DOMAIN guardLink
        /\ \A d \in DOMAIN guardLink : d # c => guardLink'[d] = guardLink[d]
    BY <2>1, <1>a, StampOne
  <2>6. \A d \in Cids : stage'[d] = "pooled" => d # c /\ stage[d] = "pooled"
    BY <2>1, <1>b
  <2> QED BY <2>1, <2>3, <2>4, <2>5, <2>6 DEF Untouched
<1>3. ASSUME NEW c \in Cids, ExtendFinish(c) PROVE Good
  <2> DEFINE h == hops[c] + 1
             t == create_circuit(h, c)
  <2>1. /\ stage[c] = "extending" /\ known(c, h - 1) /\ room(h, c) /\ UNCHANGED <<time, broken>>
        /\ circuits' = touched(t, c, h)
        /\ guardLink' = without_c(guardLink, c) \/ guardLink' = [guardLink EXCEPT ![c] = time]
        /\ created_at' = created_at \/ created_at' = [created_at EXCEPT ![c] = time]
        /\ c \in DOMAIN guardLink
    BY <1>3 DEF ExtendFinish
  <2>2. stage'[c] = "pooled" => h = HOPS /\ created_at'[c] = time /\ guardLink' = [guardLink EXCEPT ![c] = time]
    <3>1. ASSUME stage'[c] = "pooled" PROVE h = HOPS /\ by[c] = Pool /\ Cardinality(pooled) < MAX_POOL_SIZE
      BY <3>1, <1>3, <1>b DEF ExtendFinish, Stages
    <3>2. pooled \subseteq Cids
      BY DEF pooled
    <3>3. Cardinality(pooled) \in Nat /\ MAX_POOL_SIZE \in Nat
      BY <3>2, PoolConstants, FS_Subset, FS_CardinalityType
    <3>4. ASSUME stage'[c] = "pooled" PROVE ~(Cardinality(pooled) >= MAX_POOL_SIZE)
      BY <3>1, <3>3, <3>4
    <3>5. ASSUME h = HOPS PROVE created_at'[c] = time
      BY <3>5, <1>3, <1>b DEF ExtendFinish
    <3> QED BY <3>1, <3>4, <3>5, <1>3 DEF ExtendFinish
  <2>3. h \in Relays3 /\ hops[c] \in Nat
    <3>1. hops[c] \in Nat /\ hops[c] < HOPS /\ HOPS \in Nat
      BY <2>1, PoolConstants DEF PoolInv, PoolTyped
    <3> QED BY <3>1 DEF Relays3
  <2>4. /\ DOMAIN t = Relays3 /\ (\A q \in Relays3 : Stamped(t[q]) /\ Cardinality(DOMAIN t[q]) <= MAX_CIRCUITS)
        /\ c \in DOMAIN t[h] /\ (\A q \in Relays3 : q # h => t[q] = circuits[q])
        /\ \A d \in Cids : d # c /\ ReadyAndKept(d) =>
             \A q \in Relays3 : d \in DOMAIN t[q] /\ t[q][d] = circuits[q][d]
    BY <2>1, <2>3, <1>a, CreateCircuit
  <2>5. \A q \in 1..h : q \in Relays3 /\ c \in DOMAIN t[q]
    <3>1. \A q \in 1..h : q = h \/ q \in 1..(h - 1)
      BY <2>3
    <3>2. \A q \in 1..h : q \in Relays3
      BY <2>3, PoolConstants DEF Relays3
    <3>3. \A q \in 1..(h - 1) : c \in DOMAIN circuits[q]
      BY <2>1 DEF known
    <3> QED BY <3>1, <3>2, <3>3, <2>4
  <2> HIDE DEF t, h
  <2>6. /\ DOMAIN circuits' = Relays3
        /\ \A r \in Relays3 : circuits'[r] = IF r <= h THEN [t[r] EXCEPT ![c] = time] ELSE t[r]
    BY <2>1 DEF touched
  <2>7. \A r \in Relays3 : /\ Stamped(circuits'[r]) /\ DOMAIN circuits'[r] = DOMAIN t[r]
                           /\ \A d \in DOMAIN t[r] : d # c => circuits'[r][d] = t[r][d]
    <3>1. \A r \in Relays3 : /\ Stamped([t[r] EXCEPT ![c] = time]) /\ DOMAIN [t[r] EXCEPT ![c] = time] = DOMAIN t[r]
                             /\ \A d \in DOMAIN t[r] : d # c => [t[r] EXCEPT ![c] = time][d] = t[r][d]
      BY <2>4, <1>a, StampOne
    <3> QED BY <3>1, <2>4, <2>6
  <2>8. TablesFit'
    BY <2>4, <2>6, <2>7 DEF TablesFit
  <2>9. /\ Stamped(guardLink') /\ DOMAIN guardLink \ {c} \subseteq DOMAIN guardLink'
        /\ \A d \in DOMAIN guardLink : d # c => guardLink'[d] = guardLink[d]
    <3>1. /\ Stamped(without_c(guardLink, c)) /\ DOMAIN without_c(guardLink, c) = DOMAIN guardLink \ {c}
          /\ \A d \in DOMAIN guardLink : d # c => without_c(guardLink, c)[d] = guardLink[d]
      BY <1>a, WithoutOne
    <3>2. /\ Stamped([guardLink EXCEPT ![c] = time]) /\ DOMAIN [guardLink EXCEPT ![c] = time] = DOMAIN guardLink
          /\ \A d \in DOMAIN guardLink : d # c => [guardLink EXCEPT ![c] = time][d] = guardLink[d]
      BY <1>a, StampOne
    <3> QED BY <3>1, <3>2, <2>1
  <2>10. ASSUME NEW d \in Cids, d # c, ReadyAndKept(d) PROVE Untouched(d)
    <3>1. \A q \in Relays3 : d \in DOMAIN circuits'[q] /\ circuits'[q][d] = circuits[q][d]
      BY <2>4, <2>7, <2>10
    <3> QED BY <3>1, <2>9, <2>10 DEF Untouched
  <2>11. \A d \in Cids : d # c => stage'[d] = stage[d] /\ created_at'[d] = created_at[d]
    BY <1>3, <1>b DEF ExtendFinish
  <2>12. ASSUME stage'[c] = "pooled" PROVE created_at'[c] <= time' /\ KeptSinceMade(c)'
    <3>1. created_at'[c] = time /\ guardLink'[c] = time /\ c \in DOMAIN guardLink' /\ h = HOPS
      BY <2>1, <2>2, <2>12
    <3>2. \A r \in Relays3 : r <= h /\ r \in 1..h
      BY <3>1 DEF Relays3
    <3>3. \A r \in Relays3 : c \in DOMAIN circuits'[r] /\ circuits'[r][c] = time
      BY <3>2, <2>5, <2>6
    <3> QED BY <3>1, <3>3, <2>1, <1>a DEF KeptSinceMade
  <2> QED BY <2>1, <2>8, <2>9, <2>10, <2>11, <2>12
<1>4. ASSUME NEW c \in Cids, BuildFails(c) \/ StreamEnds(c) PROVE Good
  <2>1. /\ guardLink' = without_c(guardLink, c) /\ stage' = [stage EXCEPT ![c] = "gone"]
        /\ UNCHANGED <<time, created_at, broken, circuits>>
    BY <1>4 DEF BuildFails, StreamEnds, dropped
  <2>2. TablesFit'
    BY <2>1, <1>a DEF TablesFit
  <2>3. /\ Stamped(without_c(guardLink, c)) /\ DOMAIN without_c(guardLink, c) = DOMAIN guardLink \ {c}
        /\ \A d \in DOMAIN guardLink : d # c => without_c(guardLink, c)[d] = guardLink[d]
    BY <1>a, WithoutOne
  <2>4. \A d \in Cids : stage'[d] = "pooled" => d # c /\ stage[d] = "pooled"
    BY <2>1, <1>b
  <2> QED BY <2>1, <2>2, <2>3, <2>4 DEF Untouched
<1>5. ASSUME PruneStale PROVE Good
  <2>1. /\ stage' = [c \in Cids |-> IF c \in pooled \ ready THEN "gone" ELSE stage[c]]
        /\ guardLink' = [d \in DOMAIN guardLink \ (pooled \ ready) |-> guardLink[d]]
        /\ UNCHANGED <<time, created_at, broken, circuits>>
    BY <1>5 DEF PruneStale
  <2>2. TablesFit' /\ Stamped(guardLink)'
    BY <2>1, <1>a DEF TablesFit, Stamped
  <2>3. \A d \in Cids : stage'[d] = "pooled" => stage[d] = "pooled" /\ d \notin pooled \ ready
    BY <2>1
  <2> QED BY <2>1, <2>2, <2>3 DEF Untouched
<1>6. ASSUME NEW s \in Sessions, NEW c \in Cids, GetCircuit(s, c) PROVE Good
  <2>1. stage' = [stage EXCEPT ![c] = "held"] /\ UNCHANGED <<time, created_at, broken, circuits, guardLink>>
    BY <1>6 DEF GetCircuit
  <2>2. TablesFit' /\ Stamped(guardLink)'
    BY <2>1, <1>a DEF TablesFit
  <2>3. \A d \in Cids : stage'[d] = "pooled" => stage[d] = "pooled"
    BY <2>1, <1>b
  <2> QED BY <2>1, <2>2, <2>3 DEF Untouched
<1>7. ASSUME NEW c \in Cids, NEW reached \in BOOLEAN, Connect5(c, reached) PROVE Good
  <2>1. /\ stage[c] = "held" /\ UNCHANGED <<time, created_at, broken>>
        /\ DOMAIN circuits' = Relays3
        /\ \A r \in Relays3 : circuits'[r] = circuits[r] \/ circuits'[r] = without_c(circuits[r], c)
    BY <1>7 DEF Connect5
  <2>2. \/ stage' = [stage EXCEPT ![c] = "stream"] /\ guardLink' = [guardLink EXCEPT ![c] = time]
        \/ stage' = [stage EXCEPT ![c] = "gone"] /\ guardLink' = without_c(guardLink, c)
    BY <1>7 DEF Connect5, dropped
  <2>3. \A r \in Relays3 : /\ Stamped(without_c(circuits[r], c)) /\ DOMAIN without_c(circuits[r], c) = DOMAIN circuits[r] \ {c}
                           /\ \A d \in DOMAIN circuits[r] : d # c => without_c(circuits[r], c)[d] = circuits[r][d]
    BY <1>a, WithoutOne DEF TablesFit
  <2>4. \A r \in Relays3 : /\ Stamped(circuits'[r]) /\ DOMAIN circuits'[r] \subseteq DOMAIN circuits[r]
                           /\ \A d \in DOMAIN circuits[r] : d # c => d \in DOMAIN circuits'[r] /\ circuits'[r][d] = circuits[r][d]
    BY <2>1, <2>3, <1>a DEF TablesFit
  <2>5. \A r \in Relays3 : Cardinality(DOMAIN circuits'[r]) <= MAX_CIRCUITS
    BY <2>4, <1>a, <1>c, FewerFit DEF TablesFit
  <2>6. TablesFit'
    BY <2>1, <2>4, <2>5 DEF TablesFit
  <2>7. /\ Stamped(guardLink') /\ DOMAIN guardLink \ {c} \subseteq DOMAIN guardLink'
        /\ \A d \in DOMAIN guardLink : d # c => guardLink'[d] = guardLink[d]
    <3>1. /\ Stamped(without_c(guardLink, c)) /\ DOMAIN without_c(guardLink, c) = DOMAIN guardLink \ {c}
          /\ \A d \in DOMAIN guardLink : d # c => without_c(guardLink, c)[d] = guardLink[d]
      BY <1>a, WithoutOne
    <3>2. /\ Stamped([guardLink EXCEPT ![c] = time]) /\ DOMAIN [guardLink EXCEPT ![c] = time] = DOMAIN guardLink
          /\ \A d \in DOMAIN guardLink : d # c => [guardLink EXCEPT ![c] = time][d] = guardLink[d]
      BY <1>a, StampOne
    <3> QED BY <3>1, <3>2, <2>2
  <2>8. \A d \in Cids : stage'[d] = "pooled" => d # c /\ stage[d] = "pooled"
    BY <2>2, <1>b
  <2> QED BY <2>1, <2>4, <2>6, <2>7, <2>8 DEF Untouched
<1>8. ASSUME NEW c \in Cids, LinkIdle(c) PROVE Good
  <2>1. /\ guardLink' = without_c(guardLink, c) /\ c \in DOMAIN guardLink /\ time - guardLink[c] >= idle(c)
        /\ UNCHANGED <<stage, time, created_at, broken, circuits>>
    BY <1>8 DEF LinkIdle
  <2>2. TablesFit'
    BY <2>1, <1>a DEF TablesFit
  <2>3. /\ Stamped(without_c(guardLink, c)) /\ DOMAIN without_c(guardLink, c) = DOMAIN guardLink \ {c}
        /\ \A d \in DOMAIN guardLink : d # c => without_c(guardLink, c)[d] = guardLink[d]
    BY <1>a, WithoutOne
  <2>4. ASSUME stage[c] = "pooled", ReadyAndKept(c) PROVE FALSE
    <3>1. time - guardLink[c] >= BUILT_CIRCUIT_IDLE
      BY <2>1, <2>4 DEF idle
    <3>2. guardLink[c] >= created_at[c] /\ time - created_at[c] < POOL_TTL
      BY <2>4 DEF ReadyAndKept, KeptSinceMade
    <3>3. guardLink[c] \in Nat /\ created_at[c] \in Nat
      BY <2>1, <1>a, <1>b DEF Stamped
    <3> QED BY <3>1, <3>2, <3>3, <1>a, PoolConstants
  <2> QED BY <2>1, <2>2, <2>3, <2>4 DEF Untouched
<1>9. ASSUME NEW c \in Cids, NEW r \in Relays3, CircuitBreaks(c, r) PROVE Good
  <2>1. /\ broken' = broken \cup {c} /\ circuits' = [circuits EXCEPT ![r] = without_c(@, c)]
        /\ guardLink' = without_c(guardLink, c) \/ guardLink' = guardLink
        /\ UNCHANGED <<stage, time, created_at>>
    BY <1>9 DEF CircuitBreaks
  <2>2. /\ Stamped(without_c(circuits[r], c)) /\ DOMAIN without_c(circuits[r], c) = DOMAIN circuits[r] \ {c}
        /\ \A d \in DOMAIN circuits[r] : d # c => without_c(circuits[r], c)[d] = circuits[r][d]
    BY <1>a, WithoutOne DEF TablesFit
  <2>3. DOMAIN circuits' = Relays3 /\ circuits'[r] = without_c(circuits[r], c) /\ \A q \in Relays3 : q # r => circuits'[q] = circuits[q]
    BY <2>1, <1>a DEF TablesFit
  <2>4. Cardinality(DOMAIN circuits'[r]) <= MAX_CIRCUITS
    BY <2>2, <2>3, <1>a, <1>c, FewerFit DEF TablesFit
  <2>5. TablesFit'
    BY <2>2, <2>3, <2>4, <1>a DEF TablesFit
  <2>6. /\ Stamped(without_c(guardLink, c)) /\ DOMAIN without_c(guardLink, c) = DOMAIN guardLink \ {c}
        /\ \A d \in DOMAIN guardLink : d # c => without_c(guardLink, c)[d] = guardLink[d]
    BY <1>a, WithoutOne
  <2>7. Stamped(guardLink')
    BY <2>1, <2>6, <1>a
  <2>8. ASSUME NEW d \in Cids, d # c PROVE Untouched(d)
    <3>1. d \in DOMAIN guardLink => d \in DOMAIN guardLink' /\ guardLink'[d] = guardLink[d]
      BY <2>1, <2>6, <2>8
    <3>2. \A q \in Relays3 : d \in DOMAIN circuits[q] => d \in DOMAIN circuits'[q] /\ circuits'[q][d] = circuits[q][d]
      BY <2>2, <2>3, <2>8
    <3> QED BY <3>1, <3>2 DEF Untouched
  <2> QED BY <2>1, <2>5, <2>7, <2>8
<1>10. ASSUME ClockTicks PROVE Good
  <2>1. UNCHANGED <<stage, created_at, broken, circuits, guardLink>>
    BY <1>10 DEF ClockTicks
  <2> QED BY <2>1, <1>a DEF TablesFit, Untouched
<1>11. ASSUME NEW c \in Cids, BuildForPool(c) \/ \E s \in Sessions : BuildOnDemand(c, s) PROVE Good
  BY <1>1, <1>11 DEF BuildForPool, BuildOnDemand
<1> HIDE DEF Good
<1>12. Good
  BY <1>2, <1>3, <1>4, <1>5, <1>6, <1>7, <1>8, <1>9, <1>10, <1>11 DEF CpNext
<1> QED BY <1>12 DEF Good

\* The rest of the types.
BasicsTyped ==
  /\ time \in Nat /\ stage \in [Cids -> Stages] /\ hops \in [Cids -> Nat] /\ created_at \in [Cids -> Nat]
  /\ by \in [Cids -> Sessions \cup {Pool}] /\ session \in [Sessions -> {"idle", "trying", "open", "failed"}]
  /\ \A c \in Cids : stage[c] = "extending" => hops[c] < HOPS

LEMMA AfterFailure ==
  ASSUME BasicsTyped, NEW c \in Cids
  PROVE  /\ after_failure(c) \in [Sessions -> {"idle", "trying", "open", "failed"}]
         /\ \A s \in Sessions : s # by[c] => after_failure(c)[s] = session[s]
         /\ by[c] # Pool => after_failure(c)[by[c]] \in {"idle", "failed"}
PROOF
<1>1. by[c] \in Sessions \cup {Pool} /\ session \in [Sessions -> {"idle", "trying", "open", "failed"}]
  BY DEF BasicsTyped
<1>2. CASE by[c] = Pool
  BY <1>1, <1>2, PoolConstants DEF after_failure
<1>3. CASE by[c] # Pool
  <2> DEFINE then == IF tries[by[c]] < MAX_RETRIES THEN "idle" ELSE "failed"
  <2>1. after_failure(c) = [session EXCEPT ![by[c]] = then]
    BY <1>3 DEF after_failure
  <2>2. then \in {"idle", "failed"} /\ by[c] \in Sessions
    BY <1>1, <1>3
  <2> HIDE DEF then
  <2> QED BY <2>1, <2>2, <1>1
<1> QED BY <1>2, <1>3

LEMMA BasicsStep ==
  ASSUME BasicsTyped, CpNext
  PROVE  BasicsTyped' /\ time' >= time
PROOF
<1>a. /\ time \in Nat /\ stage \in [Cids -> Stages] /\ hops \in [Cids -> Nat] /\ created_at \in [Cids -> Nat]
      /\ by \in [Cids -> Sessions \cup {Pool}] /\ session \in [Sessions -> {"idle", "trying", "open", "failed"}]
  BY DEF BasicsTyped
<1>b. \A c \in Cids : stage[c] = "extending" => hops[c] < HOPS
  BY DEF BasicsTyped
<1>c. time >= time
  BY <1>a
<1>1. ASSUME NEW c \in Cids, NEW who \in Sessions \cup {Pool}, direct_handshake(c, who),
             session' \in [Sessions -> {"idle", "trying", "open", "failed"}]
      PROVE  BasicsTyped' /\ time' >= time
  <2>1. PICK st \in {"build", "gone"} : stage' = [stage EXCEPT ![c] = st]
    BY <1>1 DEF direct_handshake
  <2>2. hops' \in [Cids -> Nat] /\ \A d \in Cids : d # c => hops'[d] = hops[d]
    BY <1>1, <1>a DEF direct_handshake
  <2>3. UNCHANGED <<time, created_at>> /\ by' \in [Cids -> Sessions \cup {Pool}]
    BY <1>1, <1>a DEF direct_handshake
  <2>4. stage' \in [Cids -> Stages] /\ \A d \in Cids : stage'[d] = "extending" => d # c /\ stage[d] = "extending"
    BY <2>1, <1>a DEF Stages
  <2> QED BY <1>1, <2>2, <2>3, <2>4, <1>a, <1>b, <1>c DEF BasicsTyped
<1>2. ASSUME NEW c \in Cids, BuildForPool(c) PROVE BasicsTyped' /\ time' >= time
  BY <1>1, <1>2, <1>a DEF BuildForPool
<1>3. ASSUME NEW c \in Cids, NEW s \in Sessions, BuildOnDemand(c, s) PROVE BasicsTyped' /\ time' >= time
  <2>1. session' \in [Sessions -> {"idle", "trying", "open", "failed"}] /\ direct_handshake(c, s)
    BY <1>3, <1>a DEF BuildOnDemand
  <2> QED BY <2>1, <1>1
<1>4. ASSUME NEW c \in Cids, Extend(c) PROVE BasicsTyped' /\ time' >= time
  <2>1. stage' = [stage EXCEPT ![c] = "extending"] /\ hops[c] < HOPS /\ UNCHANGED <<time, hops, created_at, by, session>>
    BY <1>4 DEF Extend
  <2>2. stage' \in [Cids -> Stages] /\ \A d \in Cids : stage'[d] = "extending" => d = c \/ stage[d] = "extending"
    BY <2>1, <1>a DEF Stages
  <2> QED BY <2>1, <2>2, <1>a, <1>b, <1>c DEF BasicsTyped
<1>5. ASSUME NEW c \in Cids, ExtendFinish(c) PROVE BasicsTyped' /\ time' >= time
  <2>1. PICK st \in {"build", "held", "pooled", "gone"} : stage' = [stage EXCEPT ![c] = st]
    BY <1>5 DEF ExtendFinish
  <2>2. /\ hops' = [hops EXCEPT ![c] = hops[c] + 1] /\ UNCHANGED <<time, by, session>>
        /\ created_at' = created_at \/ created_at' = [created_at EXCEPT ![c] = time]
    BY <1>5 DEF ExtendFinish
  <2>3. hops' \in [Cids -> Nat] /\ created_at' \in [Cids -> Nat] /\ \A d \in Cids : d # c => hops'[d] = hops[d]
    BY <2>2, <1>a
  <2>4. stage' \in [Cids -> Stages] /\ \A d \in Cids : stage'[d] = "extending" => d # c /\ stage[d] = "extending"
    BY <2>1, <1>a DEF Stages
  <2> QED BY <2>2, <2>3, <2>4, <1>a, <1>b, <1>c DEF BasicsTyped
<1>6. ASSUME NEW c \in Cids, BuildFails(c) \/ StreamEnds(c) \/ \E ok \in BOOLEAN : Connect5(c, ok)
      PROVE  BasicsTyped' /\ time' >= time
  <2>1. PICK st \in {"gone", "stream"} : stage' = [stage EXCEPT ![c] = st]
    BY <1>6 DEF BuildFails, StreamEnds, Connect5, dropped
  <2>2. UNCHANGED <<time, hops, created_at, by>>
    BY <1>6 DEF BuildFails, StreamEnds, Connect5
  <2>3. session' = after_failure(c) \/ session' = [session EXCEPT ![by[c]] = "failed"] \/ session' = [session EXCEPT ![by[c]] = "open"]
    BY <1>6 DEF BuildFails, StreamEnds, Connect5
  <2>4. session' \in [Sessions -> {"idle", "trying", "open", "failed"}]
    BY <2>3, <1>a, AfterFailure
  <2>5. stage' \in [Cids -> Stages] /\ \A d \in Cids : stage'[d] = "extending" => stage[d] = "extending"
    BY <2>1, <1>a DEF Stages
  <2> QED BY <2>2, <2>4, <2>5, <1>a, <1>b, <1>c DEF BasicsTyped
<1>7. ASSUME NEW s \in Sessions, NEW c \in Cids, GetCircuit(s, c) PROVE BasicsTyped' /\ time' >= time
  <2>1. /\ session' = [session EXCEPT ![s] = "trying"] /\ by' = [by EXCEPT ![c] = s] /\ stage' = [stage EXCEPT ![c] = "held"]
        /\ UNCHANGED <<time, hops, created_at>>
    BY <1>7 DEF GetCircuit
  <2>2. stage' \in [Cids -> Stages] /\ \A d \in Cids : stage'[d] = "extending" => stage[d] = "extending"
    BY <2>1, <1>a DEF Stages
  <2>3. session' \in [Sessions -> {"idle", "trying", "open", "failed"}] /\ by' \in [Cids -> Sessions \cup {Pool}]
    BY <2>1, <1>a
  <2> QED BY <2>1, <2>2, <2>3, <1>a, <1>b, <1>c DEF BasicsTyped
<1>8. ASSUME PruneStale PROVE BasicsTyped' /\ time' >= time
  <2>1. /\ stage' = [c \in Cids |-> IF c \in pooled \ ready THEN "gone" ELSE stage[c]]
        /\ UNCHANGED <<time, hops, created_at, by, session>>
    BY <1>8 DEF PruneStale
  <2>2. stage' \in [Cids -> Stages] /\ \A d \in Cids : stage'[d] = "extending" => stage[d] = "extending"
    BY <2>1, <1>a DEF Stages
  <2> QED BY <2>1, <2>2, <1>a, <1>b, <1>c DEF BasicsTyped
<1>9. ASSUME \/ ClockTicks \/ (\E c \in Cids : LinkIdle(c)) \/ (\E c \in Cids, r \in Relays3 : CircuitBreaks(c, r))
      PROVE  BasicsTyped' /\ time' >= time
  <2>1. UNCHANGED <<stage, hops, created_at, by, session>> /\ (time' = time \/ time' = time + 1)
    BY <1>9 DEF ClockTicks, LinkIdle, CircuitBreaks
  <2>2. time' \in Nat /\ time' >= time
    BY <2>1, <1>a
  <2> QED BY <2>1, <2>2, <1>a, <1>b DEF BasicsTyped
<1> QED BY <1>2, <1>3, <1>4, <1>5, <1>6, <1>7, <1>8, <1>9 DEF CpNext

\* One circuit changes, for the one session that it is for afterwards.
LEMMA OneFrom ==
  ASSUME OneCircuitEach, by \in [Cids -> Sessions \cup {Pool}], NEW c \in Cids, NEW s \in Sessions \cup {Pool},
         \A d \in Cids : d # c => stage'[d] = stage[d] /\ by'[d] = by[d],
         by'[c] = s, stage'[c] \in {"held", "stream"} => s # Pool,
         \A x \in Sessions : x # s => session'[x] = session[x],
         s # Pool /\ Live(c)' => session'[s] = IF stage'[c] = "stream" THEN "open" ELSE "trying",
         s # Pool => session[s] = "idle" \/ (Live(c) /\ by[c] = s),
         s # Pool /\ session'[s] = "open" => stage'[c] = "stream",
         stage[c] = "stream" => by[c] = s
  PROVE  OneCircuitEach'
PROOF
<1>a. \A d \in Cids : Live(d) /\ by[d] # Pool => session[by[d]] = IF stage[d] = "stream" THEN "open" ELSE "trying"
  BY DEF OneCircuitEach
<1>b. \A d, e \in Cids : Live(d) /\ Live(e) /\ by[d] = by[e] /\ by[d] # Pool => d = e
  BY DEF OneCircuitEach
<1>c. \A d \in Cids : stage[d] \in {"held", "stream"} => by[d] # Pool
  BY DEF OneCircuitEach
<1>d. \A x \in Sessions : session[x] = "open" => \E d \in Cids : stage[d] = "stream" /\ by[d] = x
  BY DEF OneCircuitEach
<1>1. \A d \in Cids : d # c => (Live(d)' <=> Live(d))
  BY DEF Live
<1>2. \A d \in Cids : d # c /\ Live(d) /\ s # Pool => by[d] # s
  <2>1. ASSUME NEW d \in Cids, d # c, Live(d), s # Pool, by[d] = s PROVE FALSE
    <3>1. session[s] \in {"open", "trying"}
      BY <2>1, <1>a
    <3> QED BY <2>1, <3>1, <1>b
  <2> QED BY <2>1
<1>3. \A d \in Cids : Live(d)' /\ by'[d] # Pool => session'[by'[d]] = IF stage'[d] = "stream" THEN "open" ELSE "trying"
  <2>1. ASSUME NEW d \in Cids, d # c, Live(d)', by'[d] # Pool
        PROVE  session'[by'[d]] = IF stage'[d] = "stream" THEN "open" ELSE "trying"
    <3>1. Live(d) /\ by[d] # Pool /\ by[d] # s /\ by[d] \in Sessions
      BY <2>1, <1>1, <1>2
    <3> QED BY <2>1, <3>1, <1>a
  <2> QED BY <2>1
<1>4. \A d, e \in Cids : Live(d)' /\ Live(e)' /\ by'[d] = by'[e] /\ by'[d] # Pool => d = e
  BY <1>1, <1>2, <1>b
<1>5. \A d \in Cids : stage'[d] \in {"held", "stream"} => by'[d] # Pool
  BY <1>c
<1>6. \A x \in Sessions : session'[x] = "open" => \E d \in Cids : stage'[d] = "stream" /\ by'[d] = x
  <2>1. ASSUME NEW x \in Sessions, session'[x] = "open", x = s PROVE \E d \in Cids : stage'[d] = "stream" /\ by'[d] = x
    BY <2>1, PoolConstants
  <2>2. ASSUME NEW x \in Sessions, session'[x] = "open", x # s PROVE \E d \in Cids : stage'[d] = "stream" /\ by'[d] = x
    <3>1. PICK d \in Cids : stage[d] = "stream" /\ by[d] = x
      BY <2>2, <1>d
    <3>2. d # c
      BY <3>1, <2>2
    <3> QED BY <3>1, <3>2
  <2> QED BY <2>1, <2>2
<1> QED BY <1>3, <1>4, <1>5, <1>6 DEF OneCircuitEach

LEMMA OneStep ==
  ASSUME BasicsTyped, OneCircuitEach, CpNext
  PROVE  OneCircuitEach'
PROOF
<1>a. /\ stage \in [Cids -> Stages] /\ by \in [Cids -> Sessions \cup {Pool}]
      /\ session \in [Sessions -> {"idle", "trying", "open", "failed"}]
  BY DEF BasicsTyped
<1>b. Pool \notin Sessions
  BY PoolConstants
<1>c. \A d \in Cids : Live(d) /\ by[d] # Pool => session[by[d]] = IF stage[d] = "stream" THEN "open" ELSE "trying"
  BY DEF OneCircuitEach
<1>d. \A d \in Cids : stage[d] \in {"held", "stream"} => by[d] # Pool
  BY DEF OneCircuitEach
<1>1. ASSUME NEW c \in Cids, BuildForPool(c) PROVE OneCircuitEach'
  <2>1. PICK st \in {"build", "gone"} : stage' = [stage EXCEPT ![c] = st]
    BY <1>1 DEF BuildForPool, direct_handshake
  <2>2. by' = [by EXCEPT ![c] = Pool] /\ stage[c] = "none" /\ session' = session
    BY <1>1 DEF BuildForPool, direct_handshake
  <2>3. /\ \A d \in Cids : d # c => stage'[d] = stage[d] /\ by'[d] = by[d]
        /\ by'[c] = Pool /\ stage'[c] = st
    BY <2>1, <2>2, <1>a
  <2> QED BY <2>2, <2>3, <1>a, OneFrom
<1>2. ASSUME NEW c \in Cids, NEW s \in Sessions, BuildOnDemand(c, s) PROVE OneCircuitEach'
  <2>1. /\ by' = [by EXCEPT ![c] = s] /\ stage[c] = "none" /\ session[s] = "idle"
        /\ stage' = [stage EXCEPT ![c] = IF room(1, c) THEN "build" ELSE "gone"]
    BY <1>2 DEF BuildOnDemand, direct_handshake
  <2>2. /\ \A d \in Cids : d # c => stage'[d] = stage[d] /\ by'[d] = by[d]
        /\ by'[c] = s /\ stage'[c] = IF room(1, c) THEN "build" ELSE "gone"
    BY <2>1, <1>a
  <2>3. /\ \A x \in Sessions : x # s => session'[x] = session[x]
        /\ room(1, c) => session'[s] = "trying"
        /\ session'[s] # "open"
    BY <1>2, <2>1, <1>a DEF BuildOnDemand
  <2>4. Live(c)' => session'[s] = IF stage'[c] = "stream" THEN "open" ELSE "trying"
    BY <2>2, <2>3 DEF Live
  <2>5. stage'[c] \notin {"held", "stream"}
    BY <2>2
  <2> QED BY <2>1, <2>2, <2>3, <2>4, <2>5, <1>a, <1>b, OneFrom
<1>3. ASSUME NEW c \in Cids, Extend(c) \/ ExtendFinish(c) PROVE OneCircuitEach'
  <2>1. /\ stage[c] \in {"build", "extending"} /\ UNCHANGED <<by, session>>
        /\ \A d \in Cids : d # c => stage'[d] = stage[d]
        /\ stage'[c] \in {"build", "extending", "held", "pooled", "gone"}
    BY <1>3, <1>a DEF Extend, ExtendFinish
  <2>2. stage'[c] = "held" => by[c] # Pool
    BY <1>3, <1>a DEF Extend, ExtendFinish, Stages
  <2>3. Live(c) /\ by[c] \in Sessions \cup {Pool}
    BY <2>1, <1>a DEF Live
  <2>4. by[c] # Pool => session[by[c]] = "trying"
    BY <2>1, <2>3, <1>c
  <2> QED BY <2>1, <2>2, <2>3, <2>4, <1>a, OneFrom
<1>4. ASSUME NEW c \in Cids, stage[c] \in {"build", "extending", "held"}, UNCHANGED by,
             stage' = [stage EXCEPT ![c] = "gone"], session' = after_failure(c)
      PROVE  OneCircuitEach'
  <2>1. Live(c) /\ by[c] \in Sessions \cup {Pool} /\ ~Live(c)'
    BY <1>4, <1>a DEF Live
  <2>2. /\ \A d \in Cids : d # c => stage'[d] = stage[d]
        /\ stage'[c] = "gone"
    BY <1>4, <1>a
  <2>3. /\ \A s \in Sessions : s # by[c] => session'[s] = session[s]
        /\ by[c] # Pool => session'[by[c]] \in {"idle", "failed"}
    BY <1>4, AfterFailure
  <2> QED BY <1>4, <2>1, <2>2, <2>3, <1>a, OneFrom
<1>5. ASSUME NEW c \in Cids, stage[c] \in {"held", "stream"}, UNCHANGED by,
             \/ stage' = [stage EXCEPT ![c] = "stream"] /\ session' = [session EXCEPT ![by[c]] = "open"]
             \/ stage' = [stage EXCEPT ![c] = "gone"] /\ session' = [session EXCEPT ![by[c]] = "failed"]
      PROVE  OneCircuitEach'
  <2>1. Live(c) /\ by[c] \in Sessions /\ by[c] # Pool
    BY <1>5, <1>a, <1>d DEF Live
  <2>2. /\ \A d \in Cids : d # c => stage'[d] = stage[d]
        /\ \A s \in Sessions : s # by[c] => session'[s] = session[s]
        /\ \/ stage'[c] = "stream" /\ session'[by[c]] = "open"
           \/ stage'[c] = "gone" /\ session'[by[c]] = "failed"
    BY <1>5, <2>1, <1>a
  <2>3. Live(c)' => stage'[c] = "stream"
    BY <2>2 DEF Live
  <2> QED BY <1>5, <2>1, <2>2, <2>3, <1>a, OneFrom
<1>6. ASSUME NEW c \in Cids, BuildFails(c) PROVE OneCircuitEach'
  BY <1>6, <1>4 DEF BuildFails, dropped
<1>7. ASSUME NEW c \in Cids, StreamEnds(c) PROVE OneCircuitEach'
  BY <1>7, <1>5 DEF StreamEnds, dropped
<1>8. ASSUME NEW c \in Cids, NEW ok \in BOOLEAN, Connect5(c, ok) PROVE OneCircuitEach'
  <2>1. /\ stage[c] = "held" /\ UNCHANGED by
        /\ \/ stage' = [stage EXCEPT ![c] = "stream"] /\ session' = [session EXCEPT ![by[c]] = "open"]
           \/ stage' = [stage EXCEPT ![c] = "gone"] /\ session' = after_failure(c)
    BY <1>8 DEF Connect5, dropped
  <2> QED BY <2>1, <1>4, <1>5
<1>9. ASSUME NEW s \in Sessions, NEW c \in Cids, GetCircuit(s, c) PROVE OneCircuitEach'
  <2>1. /\ session[s] = "idle" /\ session' = [session EXCEPT ![s] = "trying"] /\ by' = [by EXCEPT ![c] = s]
        /\ stage' = [stage EXCEPT ![c] = "held"] /\ stage[c] = "pooled"
    BY <1>9 DEF GetCircuit, ready, pooled
  <2>2. /\ \A d \in Cids : d # c => stage'[d] = stage[d] /\ by'[d] = by[d]
        /\ \A x \in Sessions : x # s => session'[x] = session[x]
        /\ by'[c] = s /\ stage'[c] = "held" /\ session'[s] = "trying"
    BY <2>1, <1>a
  <2> QED BY <2>1, <2>2, <1>a, <1>b, OneFrom
<1>10. ASSUME PruneStale \/ ClockTicks \/ (\E c \in Cids : LinkIdle(c)) \/ (\E c \in Cids, r \in Relays3 : CircuitBreaks(c, r))
       PROVE  OneCircuitEach'
  <2>1. UNCHANGED <<by, session>>
    BY <1>10 DEF PruneStale, ClockTicks, LinkIdle, CircuitBreaks
  <2>2. \A d \in Cids : stage'[d] = stage[d] \/ (stage[d] = "pooled" /\ stage'[d] = "gone")
    BY <1>10 DEF PruneStale, ClockTicks, LinkIdle, CircuitBreaks, pooled
  <2>3. \A d \in Cids : (Live(d)' <=> Live(d)) /\ (Live(d) => stage'[d] = stage[d])
    BY <2>2 DEF Live
  <2>4. \A d \in Cids : stage'[d] \in {"held", "stream"} <=> stage[d] \in {"held", "stream"}
    BY <2>2
  <2>5. \A d \in Cids : stage'[d] = "stream" <=> stage[d] = "stream"
    BY <2>2
  <2> QED BY <2>1, <2>3, <2>4, <2>5 DEF OneCircuitEach
<1> QED BY <1>1, <1>2, <1>3, <1>6, <1>7, <1>8, <1>9, <1>10 DEF CpNext

\* The pool stays within its limit.
LEMMA PoolLimitStep ==
  ASSUME BasicsTyped, Cardinality(pooled) <= MAX_POOL_SIZE, CpNext
  PROVE  Cardinality(pooled') <= MAX_POOL_SIZE
PROOF
<1>a. stage \in [Cids -> Stages] /\ pooled \subseteq Cids /\ MAX_POOL_SIZE \in Nat
  BY PoolConstants DEF BasicsTyped, pooled
<1>1. ASSUME \A c \in Cids : stage'[c] = "pooled" => stage[c] = "pooled" PROVE Cardinality(pooled') <= MAX_POOL_SIZE
  <2>1. pooled' \subseteq pooled
    BY <1>1 DEF pooled
  <2> QED BY <2>1, <1>a, FewerFit
<1>2. ASSUME NEW c \in Cids, ExtendFinish(c) PROVE Cardinality(pooled') <= MAX_POOL_SIZE
  <2>1. CASE stage'[c] = "pooled"
    <3>1. Cardinality(pooled) < MAX_POOL_SIZE
      BY <2>1, <1>2, <1>a DEF ExtendFinish, Stages
    <3>2. \A d \in Cids : d # c => stage'[d] = stage[d]
      BY <1>2, <1>a DEF ExtendFinish
    <3>3. pooled' \subseteq pooled \cup {c} /\ pooled \cup {c} \subseteq Cids
      BY <3>2, <1>a DEF pooled
    <3>4. Cardinality(pooled \cup {c}) <= MAX_POOL_SIZE
      BY <3>1, <1>a, OneMoreFits
    <3> QED BY <3>3, <3>4, <1>a, FewerFit
  <2>2. CASE stage'[c] # "pooled"
    <3>1. \A d \in Cids : d # c => stage'[d] = stage[d]
      BY <1>2, <1>a DEF ExtendFinish
    <3> QED BY <2>2, <3>1, <1>1
  <2> QED BY <2>1, <2>2
<1>3. ASSUME \/ \E c \in Cids, s \in Sessions : BuildOnDemand(c, s)
             \/ \E c \in Cids : BuildForPool(c) \/ Extend(c) \/ BuildFails(c) \/ StreamEnds(c) \/ LinkIdle(c)
             \/ \E c \in Cids, ok \in BOOLEAN : Connect5(c, ok)
             \/ \E s \in Sessions, c \in Cids : GetCircuit(s, c)
             \/ \E c \in Cids, r \in Relays3 : CircuitBreaks(c, r)
             \/ PruneStale \/ ClockTicks
      PROVE  \A c \in Cids : stage'[c] = "pooled" => stage[c] = "pooled"
  <2>1. \/ stage' = stage
        \/ stage' = [c \in Cids |-> IF c \in pooled \ ready THEN "gone" ELSE stage[c]]
        \/ \E c \in Cids, st \in {"build", "gone", "extending", "held", "stream"} : stage' = [stage EXCEPT ![c] = st]
    BY <1>3 DEF BuildOnDemand, BuildForPool, direct_handshake, Extend, BuildFails, StreamEnds, LinkIdle, Connect5, dropped,
       GetCircuit, CircuitBreaks, PruneStale, ClockTicks
  <2> QED BY <2>1, <1>a
<1> QED BY <1>1, <1>2, <1>3 DEF CpNext

\* The pool's invariant is inductive.
LEMMA PoolInductive ==
  ASSUME PoolInv, [CpNext]_cpVars
  PROVE  PoolInv'
PROOF
<1>1. CASE CpNext
  <2>1. BasicsTyped /\ OneCircuitEach /\ UsableWhileReady /\ PoolTyped /\ Cardinality(pooled) <= MAX_POOL_SIZE
    BY DEF PoolInv, PoolTyped, BasicsTyped, WithinLimits
  <2>2. BasicsTyped' /\ time' >= time
    BY <1>1, <2>1, BasicsStep
  <2>3. /\ TablesFit' /\ Stamped(guardLink)'
        /\ \A d \in Cids : stage'[d] = "pooled" =>
             \/ /\ stage[d] = "pooled" /\ created_at'[d] = created_at[d]
                /\ d \notin broken' => d \notin broken /\ (ReadyAndKept(d) => Untouched(d))
             \/ created_at'[d] <= time' /\ KeptSinceMade(d)'
    BY <1>1, TablesStep
  <2>4. time' \in Nat /\ created_at' \in [Cids -> Nat]
    BY <2>2 DEF BasicsTyped
  <2>5. UsableWhileReady'
    BY <2>1, <2>2, <2>3, <2>4, UsableFrom
  <2>6. OneCircuitEach'
    BY <1>1, <2>1, OneStep
  <2>7. Cardinality(pooled') <= MAX_POOL_SIZE
    BY <1>1, <2>1, PoolLimitStep
  <2>8. PoolTyped'
    BY <2>2, <2>3 DEF PoolTyped, BasicsTyped, TablesFit
  <2>9. WithinLimits'
    BY <2>3, <2>7 DEF WithinLimits, TablesFit
  <2> QED BY <2>5, <2>6, <2>8, <2>9 DEF PoolInv
<1>2. CASE UNCHANGED cpVars
  <2>1. UNCHANGED <<time, stage, hops, created_at, circuits, guardLink, by, session, broken>>
    BY <1>2 DEF cpVars
  <2>2. PoolTyped'
    BY <2>1 DEF PoolInv, PoolTyped, Stamped
  <2>3. UsableWhileReady'
    BY <2>1 DEF PoolInv, UsableWhileReady, KeptSinceMade
  <2>4. OneCircuitEach'
    BY <2>1 DEF PoolInv, OneCircuitEach, Live
  <2>5. WithinLimits'
    BY <2>1 DEF PoolInv, WithinLimits, pooled
  <2> QED BY <2>2, <2>3, <2>4, <2>5 DEF PoolInv
<1> QED BY <1>1, <1>2

(* A circuit the pool would hand out is still there at every relay and at the  *)
(* guard unless a fault took it, a session has one open circuit and a circuit  *)
(* one session, and tables and pool stay within their limits (circuit_pool,    *)
(* create_circuit, serve_link), for any number of circuits, sessions and hops, *)
(* as long as the pool gives a circuit up before the relays do.                *)
THEOREM PoolIsSound == CpSpec => []PoolSound
PROOF
<1>1. CpInit => PoolInv
  <2> SUFFICES ASSUME CpInit PROVE PoolInv
    OBVIOUS
  <2>1. DOMAIN <<>> = {}
    OBVIOUS
  <2>2. DOMAIN circuits = Relays3 /\ (\A r \in Relays3 : DOMAIN circuits[r] = {}) /\ DOMAIN guardLink = {}
    BY <2>1 DEF CpInit
  <2>3. (\A r \in Relays3 : Stamped(circuits[r])) /\ Stamped(guardLink)
    BY <2>2 DEF Stamped
  <2>4. \A c \in Cids : stage[c] = "none" /\ ~Live(c)
    BY DEF CpInit, Live
  <2>5. PoolTyped
    BY <2>2, <2>3, <2>4 DEF CpInit, PoolTyped, Stages
  <2>6. UsableWhileReady /\ OneCircuitEach
    BY <2>4 DEF CpInit, UsableWhileReady, OneCircuitEach
  <2>7. WithinLimits
    <3>1. pooled = {}
      BY <2>4 DEF pooled
    <3>2. Cardinality({}) = 0
      BY FS_EmptySet
    <3>3. 0 <= MAX_CIRCUITS /\ 0 <= MAX_POOL_SIZE
      BY PoolConstants
    <3>4. \A r \in Relays3 : Cardinality(DOMAIN circuits[r]) = 0
      BY <2>2, <3>2
    <3> QED BY <3>1, <3>2, <3>3, <3>4 DEF WithinLimits
  <2> QED BY <2>5, <2>6, <2>7 DEF PoolInv
<1>2. PoolInv => PoolSound
  <2> SUFFICES ASSUME PoolInv PROVE PoolSound
    OBVIOUS
  <2>1. PooledIsUsable
    <3>1. HOPS \in Nat /\ 1..HOPS = Relays3
      BY PoolConstants DEF Relays3
    <3> QED BY <3>1 DEF PoolInv, UsableWhileReady, PooledIsUsable, ready, pooled, KeptSinceMade, known
  <2>2. OneStreamEach
    <3>1. \A c, d \in Cids : Live(c) /\ Live(d) /\ by[c] = by[d] /\ by[c] # Pool => c = d
      BY DEF PoolInv, OneCircuitEach
    <3>2. \A c \in Cids : stage[c] = "stream" => by[c] # Pool /\ Live(c)
      BY DEF PoolInv, OneCircuitEach, Live
    <3> QED BY <3>1, <3>2 DEF PoolInv, OneCircuitEach, OneStreamEach
  <2> QED BY <2>1, <2>2 DEF PoolInv, PoolSound
<1> QED BY <1>1, <1>2, PoolInductive, PTL DEF CpSpec

-----------------------------------------------------------------------------
(* DhtContacts.                                                              *)

\* No seat changes its address, and none is new.
Fewer == /\ DOMAIN seats' \subseteq DOMAIN seats
         /\ \A n \in DOMAIN seats' : seats'[n] \in [addr : Addrs, old : BOOLEAN] /\ seats'[n].addr = seats[n].addr
\* One node is seated at an address, where its network had room.
Seats(id, a) ==
  /\ id \notin DOMAIN seats /\ DOMAIN seats' = DOMAIN seats \cup {id} /\ ~TooManyFromPrefix(id, a)
  /\ seats'[id] = [addr |-> a, old |-> FALSE] /\ \A n \in DOMAIN seats : seats'[n] = seats[n]

\* What update does to the table.
LEMMA UpdateIs ==
  ASSUME ContactsTyped, NEW id, NEW a \in Addrs, seats' = update(id, a)
  PROVE  Fewer \/ Seats(id, a)
PROOF
<1>a. \A n \in DOMAIN seats : seats[n] \in [addr : Addrs, old : BOOLEAN]
  BY DEF ContactsTyped
<1>1. CASE seats' = seats
  BY <1>1, <1>a DEF Fewer
<1>2. CASE id \in DOMAIN seats /\ seats' = [seats EXCEPT ![id].old = FALSE]
  <2>1. [seats[id] EXCEPT !.old = FALSE] \in [addr : Addrs, old : BOOLEAN] /\ [seats[id] EXCEPT !.old = FALSE].addr = seats[id].addr
    BY <1>2, <1>a
  <2>2. DOMAIN seats' = DOMAIN seats /\ seats'[id] = [seats[id] EXCEPT !.old = FALSE] /\ \A n \in DOMAIN seats : n # id => seats'[n] = seats[n]
    BY <1>2
  <2>3. \A n \in DOMAIN seats : seats'[n] \in [addr : Addrs, old : BOOLEAN] /\ seats'[n].addr = seats[n].addr
    BY <2>1, <2>2, <1>a
  <2> QED BY <2>2, <2>3 DEF Fewer
<1>3. CASE id \notin DOMAIN seats /\ seats' = seated(id, a) /\ ~TooManyFromPrefix(id, a)
  <2>1. DOMAIN seats' = DOMAIN seats \cup {id} /\ seats'[id] = [addr |-> a, old |-> FALSE] /\ \A n \in DOMAIN seats : seats'[n] = seats[n]
    BY <1>3 DEF seated
  <2> QED BY <1>3, <2>1 DEF Seats
<1> QED BY <1>1, <1>2, <1>3 DEF update, update_or_insert

\* Subsets of a finite set within a limit are within it too.
LEMMA FewerOf ==
  ASSUME NEW S, NEW T, IsFiniteSet(T), S \subseteq T, NEW n \in Nat, Cardinality(T) <= n
  PROVE  Cardinality(S) <= n
PROOF
<1>1. IsFiniteSet(S) /\ Cardinality(S) <= Cardinality(T)
  BY FS_Subset
<1>2. Cardinality(S) \in Nat /\ Cardinality(T) \in Nat
  BY <1>1, FS_CardinalityType
<1> QED BY <1>1, <1>2

LEMMA OneMoreOf ==
  ASSUME NEW S, NEW T, IsFiniteSet(T), NEW x, S \subseteq T \cup {x}, NEW n \in Nat, ~(Cardinality(T) >= n)
  PROVE  Cardinality(S) <= n
PROOF
<1>1. Cardinality(T) \in Nat
  BY FS_CardinalityType
<1>2. IsFiniteSet(T \cup {x}) /\ Cardinality(T \cup {x}) = IF x \in T THEN Cardinality(T) ELSE Cardinality(T) + 1
  BY FS_AddElement
<1>3. Cardinality(T \cup {x}) <= n
  BY <1>1, <1>2
<1> QED BY <1>2, <1>3, FewerOf

\* The table after a step: earned seats, shares kept.
LEMMA TableStep ==
  ASSUME ContactsTyped, SeatEarned, NetworkShare, met \subseteq met',
         Fewer \/ \E id, a : a \in Addrs /\ Seats(id, a) /\ <<id, a>> \in met'
  PROVE  /\ SeatEarned' /\ NetworkShare' /\ IsFiniteSet(DOMAIN seats')
         /\ \A n \in DOMAIN seats' : seats'[n] \in [addr : Addrs, old : BOOLEAN]
PROOF
<1>a. IsFiniteSet(DOMAIN seats) /\ \A n \in DOMAIN seats : seats[n] \in [addr : Addrs, old : BOOLEAN]
  BY DEF ContactsTyped
<1>b. MAX_PER_PREFIX_IN_BUCKET \in Nat /\ MAX_PER_PREFIX_IN_TABLE \in Nat
  BY ContactsConstants
<1>c. \A a \in Addrs : IsFiniteSet(seated_from(a))
  BY <1>a, FS_Subset DEF seated_from
<1>1. ASSUME Fewer
      PROVE  /\ SeatEarned' /\ NetworkShare' /\ IsFiniteSet(DOMAIN seats')
             /\ \A n \in DOMAIN seats' : seats'[n] \in [addr : Addrs, old : BOOLEAN]
  <2>1. SeatEarned'
    BY <1>1 DEF SeatEarned, Fewer
  <2>2. IsFiniteSet(DOMAIN seats')
    BY <1>1, <1>a, FS_Subset DEF Fewer
  <2>3. \A a : seated_from(a)' \subseteq seated_from(a)
    BY <1>1 DEF seated_from, Fewer
  <2>4. ASSUME NEW a \in Addrs, Prefix[a] # NoPrefix
        PROVE  /\ Cardinality(seated_from(a)') <= MAX_PER_PREFIX_IN_TABLE
               /\ \A n \in seated_from(a)' : Cardinality({m \in seated_from(a)' : Bucket[m] = Bucket[n]}) <= MAX_PER_PREFIX_IN_BUCKET
    <3>1. /\ Cardinality(seated_from(a)) <= MAX_PER_PREFIX_IN_TABLE
          /\ \A n \in seated_from(a) : Cardinality({m \in seated_from(a) : Bucket[m] = Bucket[n]}) <= MAX_PER_PREFIX_IN_BUCKET
      BY <2>4 DEF NetworkShare
    <3>2. Cardinality(seated_from(a)') <= MAX_PER_PREFIX_IN_TABLE
      BY <3>1, <2>3, <1>b, <1>c, FewerOf
    <3>3. ASSUME NEW n \in seated_from(a)'
          PROVE  Cardinality({m \in seated_from(a)' : Bucket[m] = Bucket[n]}) <= MAX_PER_PREFIX_IN_BUCKET
      <4> DEFINE S == {m \in seated_from(a)' : Bucket[m] = Bucket[n]}
                 T == {m \in seated_from(a) : Bucket[m] = Bucket[n]}
      <4>1. S \subseteq T /\ T \subseteq seated_from(a) /\ n \in seated_from(a)
        BY <2>3
      <4>2. IsFiniteSet(T)
        BY <4>1, <1>c, FS_Subset
      <4>3. Cardinality(T) <= MAX_PER_PREFIX_IN_BUCKET
        BY <4>1, <3>1
      <4> HIDE DEF S, T
      <4>4. Cardinality(S) <= MAX_PER_PREFIX_IN_BUCKET
        BY <4>1, <4>2, <4>3, <1>b, FewerOf
      <4> QED BY <4>4 DEF S
    <3> QED BY <3>2, <3>3
  <2>5. NetworkShare'
    BY <2>4 DEF NetworkShare
  <2> QED BY <1>1, <2>1, <2>2, <2>5 DEF Fewer
<1>2. ASSUME NEW id, NEW b \in Addrs, Seats(id, b), <<id, b>> \in met'
      PROVE  /\ SeatEarned' /\ NetworkShare' /\ IsFiniteSet(DOMAIN seats')
             /\ \A n \in DOMAIN seats' : seats'[n] \in [addr : Addrs, old : BOOLEAN]
  <2>1. /\ id \notin DOMAIN seats /\ DOMAIN seats' = DOMAIN seats \cup {id} /\ ~TooManyFromPrefix(id, b)
        /\ seats'[id] = [addr |-> b, old |-> FALSE] /\ \A n \in DOMAIN seats : seats'[n] = seats[n]
    BY <1>2 DEF Seats
  <2>2. seats'[id].addr = b /\ seats'[id] \in [addr : Addrs, old : BOOLEAN]
    BY <2>1
  <2>3. SeatEarned'
    BY <2>1, <2>2, <1>2 DEF SeatEarned
  <2>4. IsFiniteSet(DOMAIN seats')
    BY <2>1, <1>a, FS_AddElement
  <2>5. \A n \in DOMAIN seats' : seats'[n] \in [addr : Addrs, old : BOOLEAN]
    BY <2>1, <2>2, <1>a
  <2>6. \A a : seated_from(a)' \subseteq seated_from(a) \cup {id} /\ (Prefix[a] # Prefix[b] => seated_from(a)' \subseteq seated_from(a))
    BY <2>1, <2>2 DEF seated_from
  <2>7. \A a : Prefix[a] = Prefix[b] => seated_from(a) = count_prefix(id, b)
    BY <2>1 DEF seated_from, count_prefix
  <2>8. ASSUME NEW a \in Addrs, Prefix[a] # NoPrefix
        PROVE  /\ Cardinality(seated_from(a)') <= MAX_PER_PREFIX_IN_TABLE
               /\ \A n \in seated_from(a)' : Cardinality({m \in seated_from(a)' : Bucket[m] = Bucket[n]}) <= MAX_PER_PREFIX_IN_BUCKET
    <3>1. /\ Cardinality(seated_from(a)) <= MAX_PER_PREFIX_IN_TABLE
          /\ \A n \in seated_from(a) : Cardinality({m \in seated_from(a) : Bucket[m] = Bucket[n]}) <= MAX_PER_PREFIX_IN_BUCKET
      BY <2>8 DEF NetworkShare
    <3>2. Prefix[a] = Prefix[b] =>
            /\ ~(Cardinality(seated_from(a)) >= MAX_PER_PREFIX_IN_TABLE)
            /\ ~(Cardinality({m \in seated_from(a) : Bucket[m] = Bucket[id]}) >= MAX_PER_PREFIX_IN_BUCKET)
      BY <2>1, <2>7, <2>8 DEF TooManyFromPrefix
    <3>3. Cardinality(seated_from(a)') <= MAX_PER_PREFIX_IN_TABLE
      <4>1. CASE Prefix[a] = Prefix[b]
        BY <4>1, <3>2, <2>6, <1>b, <1>c, OneMoreOf
      <4>2. CASE Prefix[a] # Prefix[b]
        BY <4>2, <3>1, <2>6, <1>b, <1>c, FewerOf
      <4> QED BY <4>1, <4>2
    <3>4. ASSUME NEW n \in seated_from(a)'
          PROVE  Cardinality({m \in seated_from(a)' : Bucket[m] = Bucket[n]}) <= MAX_PER_PREFIX_IN_BUCKET
      <4> DEFINE S == {m \in seated_from(a)' : Bucket[m] = Bucket[n]}
                 T == {m \in seated_from(a) : Bucket[m] = Bucket[n]}
      <4>1. S \subseteq T \cup {id} /\ T \subseteq seated_from(a)
        BY <2>6
      <4>2. IsFiniteSet(T)
        BY <4>1, <1>c, FS_Subset
      <4>3. CASE Prefix[a] = Prefix[b] /\ Bucket[n] = Bucket[id]
        <5>1. ~(Cardinality(T) >= MAX_PER_PREFIX_IN_BUCKET)
          BY <4>3, <3>2
        <5> HIDE DEF S, T
        <5>2. Cardinality(S) <= MAX_PER_PREFIX_IN_BUCKET
          BY <5>1, <4>1, <4>2, <1>b, OneMoreOf
        <5> QED BY <5>2 DEF S
      <4>4. CASE ~(Prefix[a] = Prefix[b] /\ Bucket[n] = Bucket[id])
        <5>1. S \subseteq T /\ n \in seated_from(a)
          BY <4>4, <2>6
        <5>2. Cardinality(T) <= MAX_PER_PREFIX_IN_BUCKET
          BY <5>1, <3>1
        <5> HIDE DEF S, T
        <5>3. Cardinality(S) <= MAX_PER_PREFIX_IN_BUCKET
          BY <5>1, <5>2, <4>2, <1>b, FewerOf
        <5> QED BY <5>3 DEF S
      <4> QED BY <4>3, <4>4
    <3> QED BY <3>3, <3>4
  <2>9. NetworkShare'
    BY <2>8 DEF NetworkShare
  <2> QED BY <2>3, <2>4, <2>5, <2>9
<1> QED BY <1>1, <1>2

\* A step that neither begins nor ends a check.
LEMMA ChecksSame ==
  ASSUME ChecksBalanced, OneCheckPerHost, being_checked' = being_checked, UNCHANGED <<in_flight, per_budget, per_host, permits>>
  PROVE  ChecksBalanced' /\ OneCheckPerHost'
BY DEF ChecksBalanced, OneCheckPerHost

\* The requests that are checks, by the budget they count against.
of_budget(S, b) == {r \in S : check_budget(r.to) = b}

LEMMA CheckTaken ==
  ASSUME ContactsTyped, ChecksBalanced, OneCheckPerHost, NEW id \in DhtIds, NEW a \in Addrs, may_check(id, a), take_check(id, a),
         permits' = permits - 1, asks' = asks \cup {[kind |-> "check", id |-> id, to |-> a]}
  PROVE  ChecksBalanced' /\ OneCheckPerHost'
PROOF
<1> DEFINE r == [kind |-> "check", id |-> id, to |-> a]
<1>a. r.kind = "check" /\ r.id = id /\ r.to = a
  OBVIOUS
<1> HIDE DEF r
<1>b. /\ in_flight = {<<q.id, q.to>> : q \in being_checked}
      /\ per_host = {check_host(q.to) : q \in being_checked}
      /\ permits = MAX_PINGBACKS - Cardinality(being_checked)
  BY DEF ChecksBalanced
<1>c. \A b \in Budgets : per_budget[b] = Cardinality(of_budget(being_checked, b))
  BY DEF ChecksBalanced, of_budget
<1>1. being_checked' = being_checked \cup {r}
  <2>1. asks' = asks \cup {r}
    BY DEF r
  <2> QED BY <2>1, <1>a DEF being_checked
<1>2. check_host(a) \notin per_host /\ \A q \in being_checked : check_host(q.to) # check_host(a)
  BY <1>b DEF may_check
<1>3. r \notin being_checked
  BY <1>2, <1>a
<1>4. IsFiniteSet(being_checked)
  BY FS_Subset DEF ContactsTyped, being_checked
<1>5. OneCheckPerHost'
  BY <1>1, <1>2, <1>a DEF OneCheckPerHost
<1>6. /\ in_flight' = {<<q.id, q.to>> : q \in being_checked'}
      /\ per_host' = {check_host(q.to) : q \in being_checked'}
  <2>1. in_flight' = in_flight \cup {<<id, a>>} /\ per_host' = per_host \cup {check_host(a)}
    BY DEF take_check
  <2> QED BY <2>1, <1>1, <1>a, <1>b
<1>7. permits' = MAX_PINGBACKS - Cardinality(being_checked')
  <2>1. Cardinality(being_checked \cup {r}) = Cardinality(being_checked) + 1 /\ Cardinality(being_checked) \in Nat
    BY <1>3, <1>4, FS_AddElement, FS_CardinalityType
  <2> QED BY <2>1, <1>1, <1>b, ContactsConstants
<1>8. ASSUME NEW b \in Budgets PROVE per_budget'[b] = Cardinality(of_budget(being_checked', b))
  <2>1. IsFiniteSet(of_budget(being_checked, b)) /\ r \notin of_budget(being_checked, b)
    BY <1>3, <1>4, FS_Subset DEF of_budget
  <2>2. CASE check_budget(a) = b
    <3>1. of_budget(being_checked', b) = of_budget(being_checked, b) \cup {r}
      BY <2>2, <1>1, <1>a DEF of_budget
    <3>2. Cardinality(of_budget(being_checked, b) \cup {r}) = Cardinality(of_budget(being_checked, b)) + 1
      BY <2>1, FS_AddElement
    <3>3. per_budget'[b] = per_budget[b] + 1
      BY <2>2 DEF take_check, ContactsTyped
    <3> QED BY <3>1, <3>2, <3>3, <1>c
  <2>3. CASE check_budget(a) # b
    <3>1. of_budget(being_checked', b) = of_budget(being_checked, b)
      BY <2>3, <1>1, <1>a DEF of_budget
    <3>2. per_budget'[b] = per_budget[b]
      BY <2>3 DEF take_check, ContactsTyped
    <3> QED BY <3>1, <3>2, <1>c
  <2> QED BY <2>2, <2>3
<1> QED BY <1>5, <1>6, <1>7, <1>8 DEF ChecksBalanced, of_budget

LEMMA CheckReleased ==
  ASSUME ContactsTyped, ChecksBalanced, OneCheckPerHost, NEW r \in asks, r.kind = "check", NEW silent, release(r.id, r.to, silent),
         permits' = permits + 1, asks' = asks \ {r}
  PROVE  ChecksBalanced' /\ OneCheckPerHost'
PROOF
<1>b. /\ in_flight = {<<q.id, q.to>> : q \in being_checked}
      /\ per_host = {check_host(q.to) : q \in being_checked}
      /\ permits = MAX_PINGBACKS - Cardinality(being_checked)
  BY DEF ChecksBalanced
<1>c. \A b \in Budgets : per_budget[b] = Cardinality(of_budget(being_checked, b))
  BY DEF ChecksBalanced, of_budget
<1>d. r \in being_checked /\ being_checked' = being_checked \ {r}
  BY DEF being_checked
<1>e. \A q \in being_checked : q # r => check_host(q.to) # check_host(r.to) /\ q.to # r.to
  BY <1>d DEF OneCheckPerHost
<1>4. IsFiniteSet(being_checked)
  BY FS_Subset DEF ContactsTyped, being_checked
<1>5. OneCheckPerHost'
  BY <1>d DEF OneCheckPerHost
<1>6. in_flight' = {<<q.id, q.to>> : q \in being_checked'}
  <2>1. in_flight' = in_flight \ {<<r.id, r.to>>}
    BY DEF release
  <2>2. \A q \in being_checked : q # r => <<q.id, q.to>> # <<r.id, r.to>>
    BY <1>e
  <2> QED BY <2>1, <2>2, <1>b, <1>d
<1>7. per_host' = {check_host(q.to) : q \in being_checked'}
  <2>1. per_host' = per_host \ {check_host(r.to)}
    BY DEF release
  <2> QED BY <2>1, <1>b, <1>d, <1>e
<1>8. permits' = MAX_PINGBACKS - Cardinality(being_checked')
  <2>1. Cardinality(being_checked \ {r}) = Cardinality(being_checked) - 1 /\ Cardinality(being_checked) \in Nat
    BY <1>d, <1>4, FS_RemoveElement, FS_CardinalityType
  <2> QED BY <2>1, <1>b, <1>d, ContactsConstants
<1>9. ASSUME NEW b \in Budgets PROVE per_budget'[b] = Cardinality(of_budget(being_checked', b))
  <2>1. IsFiniteSet(of_budget(being_checked, b))
    BY <1>4, FS_Subset DEF of_budget
  <2>2. CASE check_budget(r.to) = b
    <3>1. of_budget(being_checked', b) = of_budget(being_checked, b) \ {r} /\ r \in of_budget(being_checked, b)
      BY <2>2, <1>d DEF of_budget
    <3>2. Cardinality(of_budget(being_checked, b) \ {r}) = Cardinality(of_budget(being_checked, b)) - 1
      BY <2>1, <3>1, FS_RemoveElement
    <3>3. per_budget'[b] = per_budget[b] - 1
      BY <2>2 DEF release, ContactsTyped
    <3> QED BY <3>1, <3>2, <3>3, <1>c
  <2>3. CASE check_budget(r.to) # b
    <3>1. of_budget(being_checked', b) = of_budget(being_checked, b)
      BY <2>3, <1>d DEF of_budget
    <3>2. per_budget'[b] = per_budget[b]
      BY <2>3 DEF release, ContactsTyped
    <3> QED BY <3>1, <3>2, <1>c
  <2> QED BY <2>2, <2>3
<1> QED BY <1>5, <1>6, <1>7, <1>8, <1>9 DEF ChecksBalanced, of_budget

\* The contacts' invariant is inductive.
LEMMA ContactsInductive ==
  ASSUME ContactsInv, [CtNext]_ctVars
  PROVE  ContactsInv'
PROOF
<1>a. ContactsTyped /\ OneCheckPerHost /\ SeatEarned /\ NetworkShare /\ ChecksBalanced
  BY DEF ContactsInv, ContactsSound
<1>b. /\ IsFiniteSet(asks) /\ asks \subseteq Ask /\ at \in [Addrs -> (DhtIds \ {Us}) \cup {Nobody}] /\ DOMAIN per_budget = Budgets
      /\ \A n \in DOMAIN seats : seats[n] \in [addr : Addrs, old : BOOLEAN]
  BY <1>a DEF ContactsTyped
<1>c. ASSUME met \subseteq met', Fewer \/ (\E id, a : a \in Addrs /\ Seats(id, a) /\ <<id, a>> \in met'),
             IsFiniteSet(asks'), asks' \subseteq Ask, at' \in [Addrs -> (DhtIds \ {Us}) \cup {Nobody}], DOMAIN per_budget' = Budgets,
             ChecksBalanced' /\ OneCheckPerHost'
      PROVE  ContactsInv'
  <2>1. /\ SeatEarned' /\ NetworkShare' /\ IsFiniteSet(DOMAIN seats')
        /\ \A n \in DOMAIN seats' : seats'[n] \in [addr : Addrs, old : BOOLEAN]
    BY <1>a, <1>c, TableStep
  <2> QED BY <1>c, <2>1 DEF ContactsInv, ContactsSound, ContactsTyped
<1>d. seats' = seats => Fewer
  BY <1>b DEF Fewer
<1>e. \A r \in asks : r.to \in Addrs /\ IsFiniteSet(asks \ {r}) /\ asks \ {r} \subseteq Ask
  BY <1>b, FS_RemoveElement DEF Ask
<1>f. \A r \in asks : r.kind # "check" /\ asks' = asks \ {r} => being_checked' = being_checked
  BY DEF being_checked
<1>g. \A k \in {"check", "meet", "walk", "stale"}, id \in DhtIds, a \in Addrs :
        /\ [kind |-> k, id |-> id, to |-> a] \in Ask
        /\ IsFiniteSet(asks \cup {[kind |-> k, id |-> id, to |-> a]})
        /\ k # "check" /\ asks' = asks \cup {[kind |-> k, id |-> id, to |-> a]} => being_checked' = being_checked
  <2>1. ASSUME NEW k \in {"check", "meet", "walk", "stale"}, NEW id \in DhtIds, NEW a \in Addrs, NEW r,
               r = [kind |-> k, id |-> id, to |-> a]
        PROVE  /\ r \in Ask /\ IsFiniteSet(asks \cup {r})
               /\ k # "check" /\ asks' = asks \cup {r} => being_checked' = being_checked
    <3>1. r \in Ask /\ r.kind = k
      BY <2>1 DEF Ask
    <3>2. IsFiniteSet(asks \cup {r})
      BY <1>b, FS_AddElement
    <3>3. k # "check" /\ asks' = asks \cup {r} => being_checked' = being_checked
      BY <3>1 DEF being_checked
    <3> QED BY <3>1, <3>2, <3>3
  <2> QED BY <2>1
<1>1. ASSUME NEW id \in DhtIds, NEW a \in Addrs, Packet(id, a) PROVE ContactsInv'
  <2>1. may_check(id, a) /\ UNCHANGED <<seats, at, met>>
    BY <1>1 DEF Packet
  <2>2. CASE /\ take_check(id, a) /\ permits' = permits - 1
             /\ asks' = asks \cup {[kind |-> "check", id |-> id, to |-> a]}
    <3>1. ChecksBalanced' /\ OneCheckPerHost'
      BY <1>a, <2>1, <2>2, CheckTaken
    <3>2. DOMAIN per_budget' = Budgets
      BY <2>2, <1>b DEF take_check
    <3>3. IsFiniteSet(asks') /\ asks' \subseteq Ask
      BY <2>2, <1>b, <1>g
    <3> QED BY <2>1, <3>1, <3>2, <3>3, <1>b, <1>c, <1>d
  <2>3. CASE UNCHANGED <<in_flight, per_host, per_budget, permits, asks>>
    <3>1. ChecksBalanced' /\ OneCheckPerHost'
      BY <1>a, <2>3, ChecksSame DEF being_checked
    <3> QED BY <2>1, <2>3, <3>1, <1>b, <1>c, <1>d
  <2> QED BY <1>1, <2>2, <2>3 DEF Packet
<1>2. ASSUME NEW r \in asks, CheckAnswered(r) \/ CheckElsewhere(r) \/ CheckSilent(r) PROVE ContactsInv'
  <2>1. PICK silent \in BOOLEAN : release(r.id, r.to, silent)
    BY <1>2 DEF CheckAnswered, CheckElsewhere, CheckSilent
  <2>2. r.kind = "check" /\ permits' = permits + 1 /\ asks' = asks \ {r} /\ UNCHANGED at
    BY <1>2 DEF CheckAnswered, CheckElsewhere, CheckSilent
  <2>3. ChecksBalanced' /\ OneCheckPerHost'
    BY <2>1, <2>2, <1>a, CheckReleased
  <2>4. DOMAIN per_budget' = Budgets
    BY <2>1, <1>b DEF release
  <2>5. \/ seats' = seats /\ met \subseteq met'
        \/ seats' = update(r.id, r.to) /\ at[r.to] = r.id /\ met' = met \cup {<<at[r.to], r.to>>}
    BY <1>2 DEF CheckAnswered, CheckElsewhere, CheckSilent
  <2>6. met \subseteq met' /\ (Fewer \/ (\E id, a : a \in Addrs /\ Seats(id, a) /\ <<id, a>> \in met'))
    BY <2>5, <1>a, <1>d, <1>e, UpdateIs
  <2> QED BY <2>2, <2>3, <2>4, <2>6, <1>b, <1>c, <1>e
<1>3. ASSUME NEW r \in asks, PingAnswered(r) \/ PingFailed(r) \/ WalkAnswered(r) \/ WalkFailed(r) PROVE ContactsInv'
  <2>1. r.kind # "check" /\ asks' = asks \ {r} /\ UNCHANGED <<at, in_flight, per_budget, per_host, permits>>
    BY <1>3 DEF PingAnswered, PingFailed, WalkAnswered, WalkFailed, checkVars
  <2>2. ChecksBalanced' /\ OneCheckPerHost'
    BY <2>1, <1>a, <1>f, ChecksSame
  <2>3. \/ seats' = seats /\ met \subseteq met'
        \/ seats' = update(at[r.to], r.to) /\ met' = met \cup {<<at[r.to], r.to>>}
        \/ seats' = unseat(r.id) /\ met' = met
    BY <1>3 DEF PingAnswered, PingFailed, WalkAnswered, WalkFailed, request_from
  <2>4. seats' = unseat(r.id) => Fewer
    BY <1>b DEF unseat, Fewer
  <2>5. met \subseteq met' /\ (Fewer \/ (\E id, a : a \in Addrs /\ Seats(id, a) /\ <<id, a>> \in met'))
    BY <2>3, <2>4, <1>a, <1>d, <1>e, UpdateIs
  <2> QED BY <2>1, <2>2, <2>5, <1>b, <1>c, <1>e
<1>4. ASSUME UNCHANGED <<seats, at, met, in_flight, per_budget, per_host, permits>>, being_checked' = being_checked,
             IsFiniteSet(asks'), asks' \subseteq Ask
      PROVE  ContactsInv'
  <2>1. ChecksBalanced' /\ OneCheckPerHost'
    BY <1>4, <1>a, ChecksSame
  <2> QED BY <1>4, <2>1, <1>b, <1>c, <1>d
<1>5. ASSUME NEW id \in DhtIds, NEW a \in Addrs, WalkAsk(id, a) \/ Bootstrap(a) PROVE ContactsInv'
  <2>1. UNCHANGED <<seats, at, met, in_flight, per_budget, per_host, permits>>
    BY <1>5 DEF WalkAsk, Bootstrap, checkVars
  <2>2. \/ asks' = asks \cup {[kind |-> "walk", id |-> id, to |-> a]}
        \/ asks' = asks \cup {[kind |-> "meet", id |-> Us, to |-> a]}
    BY <1>5 DEF WalkAsk, Bootstrap
  <2>3. being_checked' = being_checked /\ IsFiniteSet(asks') /\ asks' \subseteq Ask
    <3>1. CASE asks' = asks \cup {[kind |-> "walk", id |-> id, to |-> a]}
      BY <3>1, <1>b, <1>g
    <3>2. CASE asks' = asks \cup {[kind |-> "meet", id |-> Us, to |-> a]}
      BY <3>2, <1>b, <1>g, ContactsConstants
    <3> QED BY <2>2, <3>1, <3>2
  <2> QED BY <2>1, <2>3, <1>4
<1>6. ASSUME NEW id \in DhtIds, MaintainOne(id) PROVE ContactsInv'
  <2>1. UNCHANGED <<seats, at, met, in_flight, per_budget, per_host, permits>>
    BY <1>6 DEF MaintainOne, checkVars
  <2>2. \/ asks' = asks
        \/ id \in DOMAIN seats /\ asks' = asks \cup {[kind |-> "stale", id |-> id, to |-> seats[id].addr]}
    BY <1>6 DEF MaintainOne
  <2>3. CASE asks' = asks
    BY <2>1, <2>3, <1>4, <1>b DEF being_checked
  <2>4. CASE id \in DOMAIN seats /\ asks' = asks \cup {[kind |-> "stale", id |-> id, to |-> seats[id].addr]}
    <3>1. seats[id].addr \in Addrs
      BY <2>4, <1>b
    <3>2. being_checked' = being_checked /\ IsFiniteSet(asks') /\ asks' \subseteq Ask
      BY <2>4, <3>1, <1>b, <1>g
    <3> QED BY <2>1, <3>2, <1>4
  <2> QED BY <2>2, <2>3, <2>4
<1>7. ASSUME Maintain \/ UNCHANGED ctVars PROVE ContactsInv'
  <2>1. UNCHANGED <<seats, at, met, in_flight, per_budget, per_host, permits, asks>>
    BY <1>7 DEF Maintain, ctVars, checkVars
  <2> QED BY <2>1, <1>4, <1>b DEF being_checked
<1>8. ASSUME TimePasses PROVE ContactsInv'
  <2>1. seats' = [n \in DOMAIN seats |-> [seats[n] EXCEPT !.old = TRUE]] /\ UNCHANGED <<at, asks, in_flight, per_budget, per_host, permits, met>>
    BY <1>8 DEF TimePasses
  <2>2. \A n \in DOMAIN seats : [seats[n] EXCEPT !.old = TRUE] \in [addr : Addrs, old : BOOLEAN] /\ [seats[n] EXCEPT !.old = TRUE].addr = seats[n].addr
    BY <1>b
  <2>3. Fewer
    BY <2>1, <2>2 DEF Fewer
  <2>4. ChecksBalanced' /\ OneCheckPerHost'
    BY <2>1, <1>a, ChecksSame DEF being_checked
  <2> QED BY <2>1, <2>3, <2>4, <1>b, <1>c
<1>9. ASSUME NEW a \in Addrs, NEW id \in (DhtIds \ {Us}) \cup {Nobody}, Move(a, id) PROVE ContactsInv'
  <2>1. UNCHANGED <<seats, asks, met, in_flight, per_budget, per_host, permits>>
    BY <1>9 DEF Move, checkVars
  <2>2. at' \in [Addrs -> (DhtIds \ {Us}) \cup {Nobody}]
    BY <1>9, <1>b DEF Move
  <2>3. ChecksBalanced' /\ OneCheckPerHost'
    BY <2>1, <1>a, ChecksSame DEF being_checked
  <2> QED BY <2>1, <2>2, <2>3, <1>b, <1>c, <1>d
<1>10. CASE CtNext
  <2>1. ASSUME NEW a \in Addrs, Bootstrap(a) PROVE ContactsInv'
    BY <2>1, <1>5, ContactsConstants
  <2> QED BY <1>10, <2>1, <1>1, <1>2, <1>3, <1>5, <1>6, <1>7, <1>8, <1>9 DEF CtNext
<1> QED BY <1>7, <1>10

(* Every seat of the table was earned by an answer from its address, no        *)
(* network has more than its share of a bucket or of the table, and no check's *)
(* place is lost or given back twice (update, consider_contact,                *)
(* check_contact, request_from), for any nodes, addresses and limits.          *)
THEOREM ContactsAreSound == CtSpec => []ContactsSound
PROOF
<1>1. CtInit => ContactsInv
  <2> SUFFICES ASSUME CtInit PROVE ContactsInv
    OBVIOUS
  <2>1. DOMAIN <<>> = {}
    OBVIOUS
  <2>2. DOMAIN seats = {} /\ being_checked = {} /\ asks = {}
    BY <2>1 DEF CtInit, being_checked
  <2>3. IsFiniteSet({}) /\ Cardinality({}) = 0
    BY FS_EmptySet
  <2>4. ContactsTyped
    BY <2>2, <2>3 DEF CtInit, ContactsTyped
  <2>5. OneCheckPerHost /\ SeatEarned
    BY <2>2 DEF OneCheckPerHost, SeatEarned
  <2>6. NetworkShare
    <3>1. \A a : seated_from(a) = {}
      BY <2>2 DEF seated_from
    <3> QED BY <3>1, <2>3, ContactsConstants DEF NetworkShare
  <2>7. ChecksBalanced
    <3>1. \A b : {r \in being_checked : check_budget(r.to) = b} = {}
      BY <2>2
    <3>2. \A b \in Budgets : per_budget[b] = Cardinality({r \in being_checked : check_budget(r.to) = b})
      BY <3>1, <2>3 DEF CtInit
    <3>3. in_flight = {<<r.id, r.to>> : r \in being_checked} /\ per_host = {check_host(r.to) : r \in being_checked}
      BY <2>2 DEF CtInit
    <3>4. permits = MAX_PINGBACKS - Cardinality(being_checked)
      BY <2>2, <2>3, ContactsConstants DEF CtInit
    <3> QED BY <3>2, <3>3, <3>4 DEF ChecksBalanced
  <2> QED BY <2>4, <2>5, <2>6, <2>7 DEF ContactsInv, ContactsSound
<1>2. ContactsInv => ContactsSound
  BY DEF ContactsInv
<1> QED BY <1>1, <1>2, ContactsInductive, PTL DEF CtSpec

-----------------------------------------------------------------------------
(* DhtServices.                                                              *)

Origins == Pushers \cup {"own", "fetched"}
StoredEntry == [rev : Nat, origin : Origins, by : SUBSET Pushers]

\* A pusher's window is the end of what is kept of its times.
LEMMA WindowIsShorter ==
  ASSUME WindowsWithin, NEW p \in Pushers, NEW now \in Nat
  PROVE  window(p, now) \in Seq(Nat) /\ Len(window(p, now)) <= MAX_NEW_PER_PUSHER_PER_HOUR
PROOF
<1> USE ServicesConstants
<1> DEFINE w == times_of(p)
           n == stale(w, now)
           Stops == {k \in 0..Len(w) : k < Len(w) => w[k + 1] + HOUR > now}
<1>1. w \in Seq(Nat) /\ Len(w) \in Nat /\ Len(w) <= MAX_NEW_PER_PUSHER_PER_HOUR
  BY DEF times_of, WindowsWithin
<1> HIDE DEF w
<1>2. Stops \subseteq Nat /\ Len(w) \in Stops
  BY <1>1
<1>3. PICK k \in Stops : \A m \in Stops : k <= m
  BY <1>2, Nearest
<1>4. ASSUME NEW i \in 1..k PROVE w[i] + HOUR <= now
  <2> DEFINE j == i - 1
  <2>0. k \in 0..Len(w)
    OBVIOUS
  <2>1. j \in 0..Len(w) /\ j < Len(w) /\ j < k /\ j + 1 = i
    BY <1>1, <2>0
  <2>2. j \notin Stops
    BY <1>3, <2>0, <2>1
  <2>3. w[i] \in Nat
    BY <1>1, <2>0
  <2> QED BY <2>1, <2>2, <2>3
<1>5. n \in 0..Len(w)
  BY <1>3, <1>4 DEF stale
<1> HIDE DEF n
<1>6. \A i \in (n + 1)..Len(w) : w[i] \in Nat
  BY <1>1, <1>5
<1>7. n + 1 \in Int /\ Len(w) \in Int
  BY <1>1, <1>5
<1>8. /\ SubSeq(w, n + 1, Len(w)) \in Seq(Nat)
      /\ Len(SubSeq(w, n + 1, Len(w))) = IF n + 1 <= Len(w) THEN Len(w) - (n + 1) + 1 ELSE 0
  BY <1>6, <1>7, SubSeqProperties
<1>9. window(p, now) = SubSeq(w, n + 1, Len(w))
  BY DEF window, w, n
<1> DEFINE held_on == SubSeq(w, n + 1, Len(w))
<1>10. held_on \in Seq(Nat) /\ Len(held_on) = IF n + 1 <= Len(w) THEN Len(w) - (n + 1) + 1 ELSE 0
  BY <1>8
<1> HIDE DEF held_on
<1>11. n \in Nat /\ Len(held_on) <= MAX_NEW_PER_PUSHER_PER_HOUR
  BY <1>1, <1>5, <1>10
<1> QED BY <1>9, <1>10, <1>11 DEF held_on

\* What goes from a full store is expired, or was looked up, or was pushed.
LEMMA EvictsNoOwn ==
  ASSUME SvTyped, NEW origin, NEW now \in Nat, NEW gone \in evict_one(origin, now), NEW t \in gone
  PROVE  t \in DOMAIN entries /\ (expired(entries[t].rev, now) \/ entries[t].origin # "own")
PROOF
<1> USE ServicesConstants
<1> DEFINE lapsed_now == {s \in DOMAIN entries : expired(entries[s].rev, now)}
           fetched == {s \in DOMAIN entries : entries[s].origin = "fetched"}
<1>1. CASE gone = lapsed_now
  BY <1>1
<1>2. CASE \E s \in oldest(fetched) : gone = {s}
  BY <1>2 DEF oldest
<1>3. CASE \E p \in heaviest \ {origin} : \E s \in oldest(share_of(p)) : gone = {s}
  BY <1>3 DEF oldest, share_of, heaviest, sole
<1> QED BY <1>1, <1>2, <1>3 DEF evict_one

\* The entries after a put, one by one.
Kept == /\ DOMAIN entries' \subseteq Svcs
        /\ entries' \in [DOMAIN entries' -> StoredEntry]
        /\ \A s \in DOMAIN entries : ~expired(entries[s].rev, clock) /\ entries[s].origin = "own" =>
              s \in DOMAIN entries' /\ entries'[s].rev >= entries[s].rev /\ entries'[s].origin = "own"

\* A new address: only what is evicted leaves the store, and the window grows by one.
LEMMA IntroduceKeeps ==
  ASSUME SvInv, NEW s \in Svcs, NEW rev \in Nat, NEW origin \in Origins, NEW now \in Nat, now <= clock, ~held(s),
         NEW gone, \A t \in gone : t \in DOMAIN entries /\ (expired(entries[t].rev, now) \/ entries[t].origin # "own"),
         introduce(s, rev, origin, gone, now),
         origin \in Pushers => Len(window(origin, now)) < MAX_NEW_PER_PUSHER_PER_HOUR
  PROVE  Kept /\ WindowsWithin'
PROOF
<1> USE ServicesConstants
<1> DEFINE e == [rev |-> rev, origin |-> origin, by |-> note_delivery({}, origin)]
<1>1. e \in StoredEntry
  BY DEF StoredEntry, Origins, note_delivery
<1> HIDE DEF e
<1>2. /\ DOMAIN entries' = (DOMAIN entries \ gone) \cup {s}
      /\ \A t \in DOMAIN entries' : entries'[t] = IF t = s THEN e ELSE entries[t]
      /\ entries' = [t \in DOMAIN entries' |-> IF t = s THEN e ELSE entries[t]]
  BY DEF introduce, e
<1>3. DOMAIN entries \subseteq Svcs /\ \A t \in DOMAIN entries : entries[t] \in StoredEntry
  BY DEF SvInv, SvTyped, StoredEntry, Origins
<1>4. DOMAIN entries' \subseteq Svcs /\ entries' \in [DOMAIN entries' -> StoredEntry]
  BY <1>1, <1>2, <1>3
<1>5. ASSUME NEW t \in DOMAIN entries, ~expired(entries[t].rev, clock), entries[t].origin = "own"
      PROVE  t \in DOMAIN entries' /\ entries'[t].rev >= entries[t].rev /\ entries'[t].origin = "own"
  <2>1. entries[t].rev \in Nat /\ clock \in Nat
    BY <1>3 DEF StoredEntry, SvInv, SvTyped
  <2>2. ~expired(entries[t].rev, now)
    BY <1>5, <2>1 DEF expired
  <2>3. t \notin gone /\ t # s
    BY <1>5, <2>2 DEF held
  <2> QED BY <1>2, <1>5, <2>1, <2>3
<1>6. WindowsWithin'
  <2>1. CASE origin \in Pushers
    <3> DEFINE w == window(origin, now)
               v == Append(w, now)
    <3>1. w \in Seq(Nat) /\ Len(w) \in Nat /\ Len(w) < MAX_NEW_PER_PUSHER_PER_HOUR
      BY <2>1, WindowIsShorter DEF SvInv
    <3>2. introduced' = windows_with(origin, v)
      BY <2>1 DEF introduce
    <3> HIDE DEF w
    <3>3. v \in Seq(Nat) /\ Len(v) = Len(w) + 1
      BY <3>1
    <3> HIDE DEF v
    <3>4. Len(v) <= MAX_NEW_PER_PUSHER_PER_HOUR
      BY <3>1, <3>3
    <3> QED BY <3>2, <3>3, <3>4 DEF windows_with, WindowsWithin, SvInv
  <2>2. CASE origin \notin Pushers
    BY <2>2 DEF introduce, WindowsWithin, SvInv
  <2> QED BY <2>1, <2>2
<1> QED BY <1>4, <1>5, <1>6 DEF Kept

\* Whatever is put, from whomever, an own descriptor that is current stays, and stays own.
LEMMA PutKeeps ==
  ASSUME SvInv, NEW s \in Svcs, NEW rev \in Nat, NEW origin \in Origins, NEW now \in Nat, now <= clock,
         put(s, rev, origin, now)
  PROVE  Kept /\ WindowsWithin'
PROOF
<1> USE ServicesConstants
<1>0. DOMAIN entries \subseteq Svcs /\ entries \in [DOMAIN entries -> StoredEntry]
      /\ (\A t \in DOMAIN entries : entries[t] \in StoredEntry /\ entries[t].rev \in Nat) /\ clock \in Nat /\ WindowsWithin
  BY DEF SvInv, SvTyped, StoredEntry, Origins
<1>1. CASE UNCHANGED <<entries, introduced>>
  BY <1>0, <1>1 DEF Kept, WindowsWithin
<1>2. ASSUME held(s), introduced' = introduced,
             NEW e \in StoredEntry, entries' = [entries EXCEPT ![s] = e],
             e.rev >= entries[s].rev, entries[s].origin = "own" => e.origin = "own"
      PROVE  Kept /\ WindowsWithin'
  <2>1. DOMAIN entries' = DOMAIN entries /\ \A t \in DOMAIN entries : entries'[t] = IF t = s THEN e ELSE entries[t]
    BY <1>0, <1>2
  <2>2. entries' \in [DOMAIN entries' -> StoredEntry]
    BY <1>0, <1>2
  <2> QED BY <1>0, <1>2, <2>1, <2>2 DEF Kept, WindowsWithin
<1>3. CASE get(s, now) /\ entries[s].rev = rev /\ entries' = [entries EXCEPT ![s].by = note_delivery(@, origin)]
           /\ introduced' = introduced
  <2> DEFINE e == [entries[s] EXCEPT !.by = note_delivery(@, origin)]
  <2>1. held(s)
    BY <1>3 DEF get
  <2>2. e \in StoredEntry /\ e.rev = entries[s].rev /\ e.origin = entries[s].origin
    BY <1>0, <2>1 DEF StoredEntry, Origins, note_delivery, held
  <2>3. entries' = [entries EXCEPT ![s] = e]
    BY <1>0, <1>3, <2>1 DEF held
  <2> HIDE DEF e
  <2>4. e.rev >= entries[s].rev
    BY <1>0, <2>1, <2>2 DEF held
  <2> QED BY <1>2, <1>3, <2>1, <2>2, <2>3, <2>4
<1>4. ASSUME held(s), ~(get(s, now) /\ entries[s].rev >= rev), ~expired(rev, now), introduced' = introduced,
             entries' = [entries EXCEPT ![s] = [rev |-> rev, origin |-> merged_origin(entries[s].origin, origin),
                           by |-> note_delivery(@.by, merged_origin(entries[s].origin, origin))]]
      PROVE  Kept /\ WindowsWithin'
  <2> DEFINE stronger == merged_origin(entries[s].origin, origin)
             e == [rev |-> rev, origin |-> stronger, by |-> note_delivery(entries[s].by, stronger)]
  <2>1. entries[s].rev \in Nat /\ entries[s].origin \in Origins /\ entries[s].by \subseteq Pushers
    BY <1>0, <1>4 DEF StoredEntry, held
  <2>2. stronger \in Origins /\ (entries[s].origin = "own" => stronger = "own")
    BY <2>1 DEF merged_origin, Origins
  <2>3. entries' = [entries EXCEPT ![s] = e]
    BY <1>0, <1>4
  <2> HIDE DEF stronger
  <2>4. e \in StoredEntry /\ e.rev = rev /\ e.origin = stronger
    BY <2>1, <2>2 DEF StoredEntry, Origins, note_delivery
  <2>5. rev >= entries[s].rev
    BY <1>4, <2>1 DEF get, expired
  <2> HIDE DEF e
  <2> QED BY <1>2, <1>4, <2>2, <2>3, <2>4, <2>5
<1>5. CASE ~held(s) /\ UNCHANGED entries
           /\ introduced' = IF origin \in Pushers THEN windows_with(origin, window(origin, now)) ELSE introduced
  <2>1. CASE origin \in Pushers
    <3> DEFINE w == window(origin, now)
    <3>1. w \in Seq(Nat) /\ Len(w) <= MAX_NEW_PER_PUSHER_PER_HOUR
      BY <2>1, <1>0, WindowIsShorter
    <3>2. introduced' = windows_with(origin, w)
      BY <1>5, <2>1
    <3> HIDE DEF w
    <3>3. WindowsWithin'
      BY <1>0, <3>1, <3>2 DEF windows_with, WindowsWithin
    <3> QED BY <1>0, <1>5, <3>3 DEF Kept
  <2>2. CASE origin \notin Pushers
    BY <1>0, <1>5, <2>2 DEF Kept, WindowsWithin
  <2> QED BY <2>1, <2>2
<1>6. ASSUME ~held(s), ~(origin \in Pushers /\ Len(window(origin, now)) >= MAX_NEW_PER_PUSHER_PER_HOUR),
             NEW gone, gone = {} \/ gone \in evict_one(origin, now), introduce(s, rev, origin, gone, now)
      PROVE  Kept /\ WindowsWithin'
  <2>1. \A t \in gone : t \in DOMAIN entries /\ (expired(entries[t].rev, now) \/ entries[t].origin # "own")
    BY <1>6, EvictsNoOwn DEF SvInv
  <2>2. origin \in Pushers => Len(window(origin, now)) < MAX_NEW_PER_PUSHER_PER_HOUR
    BY <1>0, <1>6, WindowIsShorter
  <2> QED BY <1>6, <2>1, <2>2, IntroduceKeeps
<1>7. CASE future(rev, now) \/ expired(rev, now)
  BY <1>1, <1>7 DEF put
<1>8. CASE ~(future(rev, now) \/ expired(rev, now)) /\ get(s, now) /\ entries[s].rev >= rev
  <2>1. CASE entries[s].rev = rev
    BY <1>3, <1>8, <2>1 DEF put
  <2>2. CASE entries[s].rev # rev
    BY <1>1, <1>8, <2>2 DEF put
  <2> QED BY <2>1, <2>2
<1>9. CASE ~(future(rev, now) \/ expired(rev, now)) /\ ~(get(s, now) /\ entries[s].rev >= rev) /\ held(s)
  BY <1>4, <1>9 DEF put
<1>10. CASE ~(future(rev, now) \/ expired(rev, now)) /\ ~(get(s, now) /\ entries[s].rev >= rev) /\ ~held(s)
  BY <1>5, <1>6, <1>10 DEF put
<1> QED BY <1>7, <1>8, <1>9, <1>10

\* From what a put keeps to the invariant: the marks and the clock as they were.
LEMMA KeptIsInvariant ==
  ASSUME SvInv, Kept, WindowsWithin', clock' = clock,
         (signed \subseteq Svcs \X Nat /\ signing \subseteq OwnSvcs \X Nat)',
         own_services' = own_services,
         \A s \in DOMAIN looking' : s \in DOMAIN looking /\ looking'[s] = looking[s],
         own_kept' \in [OwnSvcs -> Nat],
         \A s \in OwnSvcs : own_kept'[s] = own_kept[s] \/ (s \in DOMAIN entries' /\ entries'[s].rev >= own_kept'[s]
                                                             /\ entries'[s].origin = "own")
  PROVE  SvInv'
PROOF
<1> USE ServicesConstants
<1>1. SvTyped'
  BY DEF SvInv, SvTyped, Kept, StoredEntry, Origins
<1>2. OwnHeldAsOwn'
  <2> SUFFICES ASSUME NEW s \in OwnSvcs, own_kept'[s] # NoRev, ~expired(own_kept'[s], clock)
               PROVE  s \in DOMAIN entries' /\ entries'[s].rev >= own_kept'[s] /\ entries'[s].origin = "own"
    BY DEF OwnHeldAsOwn, held, expired
  <2>1. CASE own_kept'[s] = own_kept[s]
    <3>1. s \in DOMAIN entries /\ entries[s].rev >= own_kept[s] /\ entries[s].origin = "own"
      BY <2>1 DEF SvInv, OwnHeldAsOwn, held
    <3>2. entries[s].rev \in Nat /\ own_kept[s] \in Nat /\ clock \in Nat
      BY <3>1 DEF SvInv, SvTyped
    <3>3. ~expired(entries[s].rev, clock)
      BY <2>1, <3>1, <3>2 DEF expired
    <3>4. s \in DOMAIN entries' /\ entries'[s].rev >= entries[s].rev /\ entries'[s].origin = "own"
      BY <3>1, <3>3 DEF Kept
    <3>5. entries'[s].rev \in Nat
      BY <3>4 DEF Kept, StoredEntry
    <3> QED BY <2>1, <3>1, <3>2, <3>4, <3>5
  <2> QED BY <2>1
<1> QED BY <1>1, <1>2 DEF SvInv

LEMMA SvStep == ASSUME SvInv, [SvNext]_svVars PROVE SvInv'
PROOF
<1> USE ServicesConstants
<1>0. SvTyped /\ OwnHeldAsOwn /\ WindowsWithin
  BY DEF SvInv
<1>00. UNCHANGED <<entries, introduced>> => Kept /\ WindowsWithin'
  <2> HAVE UNCHANGED <<entries, introduced>>
  <2>1. \A s \in DOMAIN entries : entries[s].rev \in Nat
    BY <1>0 DEF SvTyped
  <2> QED BY <1>0, <2>1 DEF SvTyped, WindowsWithin, Kept, StoredEntry, Origins
<1>1. CASE UNCHANGED svVars
  BY <1>0, <1>1, <1>00, KeptIsInvariant DEF svVars, SvTyped
<1>2. ASSUME NEW s \in OtherSvcs, NEW ahead \in {0, MAX_CLOCK_SKEW_SECS + 1}, SignElsewhere(s, ahead) PROVE SvInv'
  <2>1. (signed \subseteq Svcs \X Nat)'
    BY <1>0, <1>2 DEF SignElsewhere, SvTyped, Svcs
  <2> QED BY <1>0, <1>2, <1>00, <2>1, KeptIsInvariant DEF SignElsewhere, SvTyped
<1>3. ASSUME NEW pusher \in Pushers, NEW d \in signed, Pushed(pusher, d) PROVE SvInv'
  <2>1. d[1] \in Svcs /\ d[2] \in Nat /\ pusher \in Origins /\ clock \in Nat /\ clock <= clock
    BY <1>0, <1>3 DEF SvTyped, Origins
  <2>2. Kept /\ WindowsWithin'
    BY <1>3, <2>1, PutKeeps DEF Pushed
  <2> QED BY <1>0, <1>3, <2>2, KeptIsInvariant DEF Pushed, SvTyped
<1>4. ASSUME NEW s \in OwnSvcs, AnnounceOwn(s) PROVE SvInv'
  <2>1. (signed \subseteq Svcs \X Nat /\ signing \subseteq OwnSvcs \X Nat)'
    BY <1>0, <1>4 DEF AnnounceOwn, SvTyped, Svcs
  <2>2. OwnHeldAsOwn' /\ WindowsWithin'
    BY <1>0, <1>4 DEF AnnounceOwn, OwnHeldAsOwn, WindowsWithin, held, expired
  <2>3. SvTyped'
    BY <1>0, <1>4, <2>1 DEF AnnounceOwn, SvTyped
  <2> QED BY <2>2, <2>3 DEF SvInv
<1>5. ASSUME NEW s \in OwnSvcs, RepublishOne(s) PROVE SvInv'
  <2>1. (signed \subseteq Svcs \X Nat /\ signing \subseteq OwnSvcs \X Nat)'
    BY <1>0, <1>5 DEF RepublishOne, SvTyped, Svcs
  <2> QED BY <1>0, <1>5, <1>00, <2>1, KeptIsInvariant DEF RepublishOne, SvTyped
<1>6. ASSUME NEW s \in OwnSvcs, WithdrawService(s) PROVE SvInv'
  <2>0. clock' = clock /\ introduced' = introduced /\ own_kept' = [own_kept EXCEPT ![s] = NoRev]
        /\ own_services' = own_services \ {s} /\ signed' = signed /\ signing' = signing /\ looking' = looking
    BY <1>6 DEF WithdrawService
  <2>1. entries' = entries \/ entries' = [t \in DOMAIN entries \ {s} |-> entries[t]]
    BY <1>6 DEF WithdrawService, without
  <2>2. /\ DOMAIN entries' \subseteq Svcs
        /\ entries' \in [DOMAIN entries' -> [rev : Nat, origin : Pushers \cup {"own", "fetched"}, by : SUBSET Pushers]]
    BY <1>0, <2>1 DEF SvTyped
  <2>3. \A t \in OwnSvcs : own_kept'[t] = (IF t = s THEN NoRev ELSE own_kept[t]) /\ own_kept' \in [OwnSvcs -> Nat]
    BY <1>0, <2>0 DEF SvTyped, NoRev
  <2>4. SvTyped'
    BY <1>0, <2>0, <2>2, <2>3 DEF SvTyped
  <2>5. OwnHeldAsOwn'
    <3> SUFFICES ASSUME NEW t \in OwnSvcs, own_kept'[t] # NoRev, ~expired(own_kept'[t], clock)
                 PROVE  t \in DOMAIN entries' /\ entries'[t].rev >= own_kept'[t] /\ entries'[t].origin = "own"
      BY <2>0 DEF OwnHeldAsOwn, held, expired
    <3>1. t # s /\ own_kept'[t] = own_kept[t]
      BY <2>3
    <3>2. t \in DOMAIN entries /\ entries[t].rev >= own_kept[t] /\ entries[t].origin = "own"
      BY <1>0, <3>1 DEF OwnHeldAsOwn, held
    <3> QED BY <2>1, <3>1, <3>2
  <2>6. WindowsWithin'
    BY <1>0, <2>0 DEF WindowsWithin
  <2> QED BY <2>4, <2>5, <2>6 DEF SvInv
<1>7. ASSUME NEW d \in signing, PutOwn(d) PROVE SvInv'
  <2>1. d[1] \in OwnSvcs /\ d[1] \in Svcs /\ d[2] \in Nat /\ "own" \in Origins /\ clock \in Nat /\ clock <= clock
    BY <1>0, <1>7 DEF SvTyped, Origins, Svcs
  <2>2. Kept /\ WindowsWithin'
    BY <1>7, <2>1, PutKeeps DEF PutOwn
  <2>3. \A t \in DOMAIN entries' : entries'[t].rev \in Nat
    BY <2>2 DEF Kept, StoredEntry
  <2>4. CASE own_kept' = own_kept
    BY <1>0, <1>7, <2>2, <2>4, KeptIsInvariant DEF PutOwn, SvTyped
  <2>5. CASE d[1] \in DOMAIN entries' /\ entries'[d[1]].origin = "own"
             /\ own_kept' = [own_kept EXCEPT ![d[1]] = entries'[d[1]].rev]
    <3>1. own_kept' \in [OwnSvcs -> Nat] /\ \A t \in OwnSvcs : own_kept'[t] = IF t = d[1] THEN entries'[t].rev ELSE own_kept[t]
      BY <1>0, <2>1, <2>3, <2>5 DEF SvTyped
    <3>2. \A t \in OwnSvcs : own_kept'[t] = own_kept[t] \/ (t \in DOMAIN entries' /\ entries'[t].rev >= own_kept'[t]
                                                             /\ entries'[t].origin = "own")
      BY <2>3, <2>5, <3>1
    <3> QED BY <1>0, <1>7, <2>2, <3>1, <3>2, KeptIsInvariant DEF PutOwn, SvTyped
  <2> QED BY <1>7, <2>4, <2>5 DEF PutOwn
<1>8. CASE Republish
  BY <1>0, <1>8, <1>00, KeptIsInvariant DEF Republish, SvTyped
<1>9. ASSUME NEW s \in LookedUp, LookupBegins(s) PROVE SvInv'
  <2>1. clock \in Nat /\ (get(s, clock) => entries[s].rev \in Nat)
    BY <1>0 DEF SvTyped, get, held
  <2>2. \A t \in DOMAIN looking' : looking'[t].rev \in Nat /\ looking'[t].since = clock
    BY <1>9, <2>1 DEF LookupBegins, NoRev
  <2>3. SvTyped'
    BY <1>0, <1>9, <2>1, <2>2 DEF LookupBegins, SvTyped
  <2>4. OwnHeldAsOwn' /\ WindowsWithin'
    BY <1>0, <1>9 DEF LookupBegins, OwnHeldAsOwn, WindowsWithin, held, expired
  <2> QED BY <2>3, <2>4 DEF SvInv
<1>10. ASSUME NEW s \in LookedUp, NEW answers \in SUBSET {d \in signed : d[1] = s}, LookupEnds(s, answers) PROVE SvInv'
  <2> DEFINE had == looking[s].rev
             now == looking[s].since
             heard_of == {had} \cup {r \in {d[2] : d \in answers} : ~(future(r, now) \/ expired(r, now))}
  <2>1. s \in Svcs /\ had \in Nat /\ now \in Nat /\ now <= clock /\ "fetched" \in Origins
    BY <1>0, <1>10 DEF LookupEnds, SvTyped, Origins, Svcs
  <2>2. \A d \in answers : d[2] \in Nat
    BY <1>0 DEF SvTyped
  <2>3. PICK best \in heard_of : IF best = NoRev THEN UNCHANGED <<entries, introduced>> ELSE put(s, best, "fetched", now)
    BY <1>10 DEF LookupEnds
  <2>4. best \in Nat
    BY <2>1, <2>2
  <2> HIDE DEF had, now, heard_of
  <2>5. Kept /\ WindowsWithin'
    BY <1>00, <2>1, <2>3, <2>4, PutKeeps
  <2>6. /\ \A t \in DOMAIN looking' : t \in DOMAIN looking /\ looking'[t] = looking[t]
        /\ UNCHANGED <<clock, own_services, cycle, signing, signed, own_kept>>
    BY <1>10 DEF LookupEnds
  <2> QED BY <1>0, <2>5, <2>6, KeptIsInvariant DEF SvTyped
<1>11. CASE SecondPasses
  <2>1. clock \in Nat /\ clock' = clock + 1 /\ UNCHANGED <<entries, introduced, own_services, cycle, signing, looking, signed, own_kept>>
    BY <1>0, <1>11 DEF SecondPasses, SvTyped
  <2>2. SvTyped' /\ WindowsWithin'
    BY <1>0, <2>1 DEF SvTyped, WindowsWithin
  <2>3. OwnHeldAsOwn'
    BY <1>0, <2>1 DEF SvTyped, OwnHeldAsOwn, held, expired
  <2> QED BY <2>2, <2>3 DEF SvInv
<1> QED BY <1>1, <1>2, <1>3, <1>4, <1>5, <1>6, <1>7, <1>8, <1>9, <1>10, <1>11 DEF SvNext

\* The store's rules, for any number of services, pushers and places: a
\* service this node publishes stays in its store, as this node's own, until
\* it is withdrawn or its descriptor expires, whatever is pushed and however
\* full the store (ServiceStore::put and evict_one), and no pusher
\* introduces more addresses within an hour than its quota.
THEOREM StoreRulesHold == SvSpec => []StoreKeepsItsRules
PROOF
<1> USE ServicesConstants
<1>1. SvInit => SvInv
  BY DEF SvInit, SvInv, SvTyped, OwnHeldAsOwn, WindowsWithin, NoRev
<1>2. SvInv /\ [SvNext]_svVars => SvInv'
  BY SvStep
<1>3. SvInv => StoreKeepsItsRules
  <2> HAVE SvInv
  <2>1. OwnStays
    BY DEF SvInv, OwnHeldAsOwn, OwnStays
  <2>2. PushQuota
    BY WindowIsShorter DEF SvInv, SvTyped, PushQuota
  <2> QED BY <2>1, <2>2 DEF StoreKeepsItsRules
<1> QED BY <1>1, <1>2, <1>3, PTL DEF SvSpec

-----------------------------------------------------------------------------
(* NoiseHandshake.                                                           *)

\* What a step of a handshake leaves of the ends that are past their part.
NothingUndone ==
  /\ \A r \in Responders : hs[r].at \in {"answered", "done", "failed"} =>
       /\ hs'[r].at \in {"answered", "done", "failed"}
       /\ hs'[r].re = hs[r].re /\ hs'[r].re1 = hs[r].re1
  /\ \A x \in Ends : hs[x].at = "done" => hs'[x] = hs[x]

\* A step that changes one end.
LEMMA OneEndMoves ==
  ASSUME EndsWhole, NEW x \in Ends, NEW q, hs' = [hs EXCEPT ![x] = q]
  PROVE  DOMAIN hs' = Ends /\ hs'[x] = q /\ \A y \in Ends \ {x} : hs'[y] = hs[y]
BY DEF EndsWhole

\* The other ends' records are what they were, and the changed one is a whole record too.
LEMMA EndsStayWhole ==
  ASSUME EndsWhole, NEW x \in Ends, NEW q, hs' = [hs EXCEPT ![x] = q],
         DOMAIN q = Fields, q.sym = [h |-> q.sym.h, ck |-> q.sym.ck, n |-> q.sym.n]
  PROVE  EndsWhole'
PROOF
<1>1. DOMAIN hs' = Ends /\ hs'[x] = q /\ \A y \in Ends \ {x} : hs'[y] = hs[y]
  BY OneEndMoves
<1> SUFFICES ASSUME NEW y \in Ends
             PROVE  DOMAIN hs'[y] = Fields /\ hs'[y].sym = [h |-> hs'[y].sym.h, ck |-> hs'[y].sym.ck, n |-> hs'[y].sym.n]
  BY <1>1 DEF EndsWhole
<1>2. CASE y = x
  BY <1>1, <1>2
<1>3. CASE y # x
  <2>1. hs'[y] = hs[y]
    BY <1>1, <1>3
  <2> QED BY <2>1 DEF EndsWhole
<1> QED BY <1>2, <1>3

\* An answer stays one its writer wrote: that end keeps what it heard.
LEMMA BStaysWritten ==
  ASSUME NothingUndone, NEW b, NEW r \in Responders, WroteB(b, r)
  PROVE  WroteB(b, r)'
PROOF
<1>1. hs'[r].re = hs[r].re /\ hs'[r].re1 = hs[r].re1 /\ hs'[r].at \in {"answered", "done", "failed"}
  BY DEF NothingUndone, WroteB
<1> QED BY <1>1 DEF WroteB

\* A last message stays one its writer wrote: a finished end changes no more.
LEMMA CStaysWritten ==
  ASSUME NothingUndone, NEW c, NEW i \in Initiators, WroteC(c, i)
  PROVE  WroteC(c, i)'
PROOF
<1>1. hs'[i] = hs[i]
  BY DEF NothingUndone, WroteC, Ends
<1> QED BY <1>1 DEF WroteC

\* What is in the air stays accounted for.
LEMMA AirStaysWritten ==
  ASSUME NothingUndone, AirIsWritten, air' = air
  PROVE  AirIsWritten'
PROOF
<1> SUFFICES ASSUME NEW m \in air
             PROVE  /\ m.kind \in {"a", "b", "c"}
                    /\ m.kind = "a" => \E i \in Initiators : m = message_a(i)
                    /\ m.kind = "b" => \E r \in Responders : WroteB(m, r)'
                    /\ m.kind = "c" => \E i \in Initiators : WroteC(m, i)'
  BY DEF AirIsWritten
<1> QED BY BStaysWritten, CStaysWritten DEF AirIsWritten

\* An initiator's responder stays the one that answered it.
LEMMA StaysAnswered ==
  ASSUME NothingUndone, NEW i \in Initiators, NEW r \in Responders, Answered(i, r),
         hs'[i].re = hs[i].re, hs'[i].rs = hs[i].rs
  PROVE  Answered(i, r)'
BY DEF NothingUndone, Answered

\* Two ends that agreed stay so.
LEMMA StaysAgreed ==
  ASSUME NothingUndone, NEW i \in Initiators, NEW r \in Responders, hs[r].at = "done", Agreed(i, r)
  PROVE  Agreed(i, r)'
PROOF
<1>1. hs'[i] = hs[i] /\ hs'[r] = hs[r]
  BY DEF NothingUndone, Agreed, Ends
<1> QED BY <1>1 DEF Agreed, Peered

\* What is read: of kind "b" and "c", a field that opens is one somebody wrote.
LEMMA BFieldsWritten ==
  ASSUME AirIsWritten, NEW m \in air, NEW w \in comes_of(m), w.kind = "b"
  PROVE  /\ w.ct.whole => \E o \in air : o.kind = "b" /\ w.ct = o.ct
         /\ w.s.whole => \E o \in air : o.kind = "b" /\ w.s = o.s
         /\ w.pay.whole => \E o \in air : o.kind = "b" /\ w.pay = o.pay
PROOF
<1>1. CASE w = m
  BY <1>1
<1>2. ASSUME NEW f \in DOMAIN m \ {"kind"},
             NEW v \in {spoilt(m, f)} \cup {o[f] : o \in {u \in air : u.kind = m.kind}},
             w = [m EXCEPT ![f] = v]
      PROVE  /\ w.ct.whole => \E o \in air : o.kind = "b" /\ w.ct = o.ct
             /\ w.s.whole => \E o \in air : o.kind = "b" /\ w.s = o.s
             /\ w.pay.whole => \E o \in air : o.kind = "b" /\ w.pay = o.pay
  <2>1. m.kind = "b"
    BY <1>2
  <2>2. PICK r \in Responders : WroteB(m, r)
    BY <2>1 DEF AirIsWritten
  <2> DEFINE z1 == as_sealed(m.ct)
             zc == encapsulate(r, hs[r].re1)
             z2 == mix_key(encrypt_and_hash(z1, zc), zc)
             z3 == mix_key(encrypt_and_hash(z2, StaticOf(r)), dh(StaticOf(r), hs[r].re))
  <2>a. m = [kind |-> "b", e |-> r, ct |-> sealed(z1, zc), s |-> sealed(z2, StaticOf(r)), pay |-> sealed(z3, "")]
    BY <2>2 DEF WroteB
  <2> HIDE DEF z1, zc, z2, z3
  <2>3. /\ m = [kind |-> "b", e |-> m.e, ct |-> m.ct, s |-> m.s, pay |-> m.pay]
        /\ m.ct = [key |-> m.ct.key, n |-> m.ct.n, ad |-> m.ct.ad, body |-> m.ct.body, whole |-> TRUE]
        /\ m.s = [key |-> m.s.key, n |-> m.s.n, ad |-> m.s.ad, body |-> m.s.body, whole |-> TRUE]
        /\ m.pay = [key |-> m.pay.key, n |-> m.pay.n, ad |-> m.pay.ad, body |-> m.pay.body, whole |-> TRUE]
    BY <2>a DEF sealed
  <2>4. f \in {"e", "ct", "s", "pay"}
    BY <2>3
  <2>5. v = spoilt(m, f) \/ \E o \in air : o.kind = "b" /\ v = o[f]
    BY <2>1
  <2>6. ASSUME f \in {"ct", "s", "pay"}, v = spoilt(m, f)
        PROVE  v.whole = FALSE
    BY <2>3, <2>6 DEF spoilt
  <2>7. CASE f = "e"
    BY <2>3, <2>7, <1>2
  <2>8. CASE f = "ct"
    BY <2>3, <2>5, <2>6, <2>8, <1>2
  <2>9. CASE f = "s"
    BY <2>3, <2>5, <2>6, <2>9, <1>2
  <2>10. CASE f = "pay"
    BY <2>3, <2>5, <2>6, <2>10, <1>2
  <2> QED BY <2>4, <2>7, <2>8, <2>9, <2>10
<1> QED BY <1>1, <1>2 DEF comes_of

\* The same of the last message.
LEMMA CFieldsWritten ==
  ASSUME AirIsWritten, NEW m \in air, NEW w \in comes_of(m), w.kind = "c"
  PROVE  /\ w.s.whole => \E o \in air : o.kind = "c" /\ w.s = o.s
         /\ w.pay.whole => \E o \in air : o.kind = "c" /\ w.pay = o.pay
PROOF
<1>1. CASE w = m
  BY <1>1
<1>2. ASSUME NEW f \in DOMAIN m \ {"kind"},
             NEW v \in {spoilt(m, f)} \cup {o[f] : o \in {u \in air : u.kind = m.kind}},
             w = [m EXCEPT ![f] = v]
      PROVE  /\ w.s.whole => \E o \in air : o.kind = "c" /\ w.s = o.s
             /\ w.pay.whole => \E o \in air : o.kind = "c" /\ w.pay = o.pay
  <2>1. m.kind = "c"
    BY <1>2
  <2>2. PICK i \in Initiators : WroteC(m, i)
    BY <2>1 DEF AirIsWritten
  <2> DEFINE z1 == as_sealed(m.s)
             z2 == mix_key(encrypt_and_hash(z1, StaticOf(i)), dh(StaticOf(i), hs[i].re))
  <2>a. m = [kind |-> "c", s |-> sealed(z1, StaticOf(i)), pay |-> sealed(z2, "")]
    BY <2>2 DEF WroteC
  <2> HIDE DEF z1, z2
  <2>3. /\ m = [kind |-> "c", s |-> m.s, pay |-> m.pay]
        /\ m.s = [key |-> m.s.key, n |-> m.s.n, ad |-> m.s.ad, body |-> m.s.body, whole |-> TRUE]
        /\ m.pay = [key |-> m.pay.key, n |-> m.pay.n, ad |-> m.pay.ad, body |-> m.pay.body, whole |-> TRUE]
    BY <2>a DEF sealed
  <2>4. f \in {"s", "pay"}
    BY <2>3
  <2>5. v = spoilt(m, f) \/ \E o \in air : o.kind = "c" /\ v = o[f]
    BY <2>1
  <2>6. ASSUME f \in {"s", "pay"}, v = spoilt(m, f)
        PROVE  v.whole = FALSE
    BY <2>3, <2>6 DEF spoilt
  <2>9. CASE f = "s"
    BY <2>3, <2>5, <2>6, <2>9, <1>2
  <2>10. CASE f = "pay"
    BY <2>3, <2>5, <2>6, <2>10, <1>2
  <2> QED BY <2>4, <2>9, <2>10
<1> QED BY <1>1, <1>2 DEF comes_of

\* A first message's payload is empty or altered.
LEMMA AFields ==
  ASSUME AirIsWritten, NEW m \in air, NEW w \in comes_of(m), w.kind = "a"
  PROVE  w.pay \in {"", "more"}
PROOF
<1>1. CASE w = m
  <2>1. PICK i \in Initiators : m = message_a(i)
    BY <1>1 DEF AirIsWritten
  <2> QED BY <1>1, <2>1 DEF message_a
<1>2. ASSUME NEW f \in DOMAIN m \ {"kind"},
             NEW v \in {spoilt(m, f)} \cup {o[f] : o \in {u \in air : u.kind = m.kind}},
             w = [m EXCEPT ![f] = v]
      PROVE  w.pay \in {"", "more"}
  <2>1. m.kind = "a"
    BY <1>2
  <2>2. PICK i \in Initiators : m = message_a(i)
    BY <2>1 DEF AirIsWritten
  <2>3. \A o \in air : o.kind = "a" => o.pay = ""
    <3> SUFFICES ASSUME NEW o \in air, o.kind = "a"
                 PROVE  o.pay = ""
      OBVIOUS
    <3>1. PICK j \in Initiators : o = message_a(j)
      BY DEF AirIsWritten
    <3> QED BY <3>1 DEF message_a
  <2>4. CASE f = "pay"
    <3>1. v = "more" \/ v = ""
      BY <2>1, <2>2, <2>3, <2>4 DEF spoilt, message_a
    <3> QED BY <1>2, <2>2, <2>4, <3>1 DEF message_a
  <2>5. CASE f # "pay"
    BY <1>2, <2>2, <2>5 DEF message_a
  <2> QED BY <2>4, <2>5
<1>3. \/ w = m
      \/ \E f \in DOMAIN m \ {"kind"} : \E v \in {spoilt(m, f)} \cup {o[f] : o \in {u \in air : u.kind = m.kind}} :
           w = [m EXCEPT ![f] = v]
  BY Zenon DEF comes_of
<1> QED BY <1>1, <1>2, <1>3

\* An end that a step does not touch is where it was.
LEMMA OthersStayInStep ==
  ASSUME EndsInStep, NothingUndone, NEW x \in Ends, \A y \in Ends \ {x} : hs'[y] = hs[y]
  PROVE  /\ \A i \in Initiators : i # x => InitiatorInStep(i)'
         /\ \A r \in Responders : r # x => ResponderInStep(r)'
PROOF
<1>1. ASSUME NEW i \in Initiators, i # x
      PROVE  InitiatorInStep(i)'
  <2>1. hs'[i] = hs[i]
    BY <1>1 DEF Ends
  <2>2. InitiatorInStep(i)
    BY DEF EndsInStep
  <2>3. \A r \in Responders : Answered(i, r) => Answered(i, r)'
    BY <2>1, StaysAnswered
  <2> QED BY <2>1, <2>2, <2>3 DEF InitiatorInStep, heard_key, done_key
<1>2. ASSUME NEW r \in Responders, r # x
      PROVE  ResponderInStep(r)'
  <2>1. hs'[r] = hs[r]
    BY <1>2 DEF Ends
  <2>2. ResponderInStep(r)
    BY DEF EndsInStep
  <2>3. \A i \in Initiators : hs[r].at = "done" /\ Agreed(i, r) => Agreed(i, r)'
    BY StaysAgreed
  <2> QED BY <2>1, <2>2, <2>3 DEF ResponderInStep
<1> QED BY <1>1, <1>2

\* One more message in the air, written by whom it should be.
LEMMA AirTakesOne ==
  ASSUME NothingUndone, AirIsWritten, NEW m, air' = air \cup {m}, m.kind \in {"a", "b", "c"},
         m.kind = "a" => \E i \in Initiators : m = message_a(i),
         m.kind = "b" => \E r \in Responders : WroteB(m, r)',
         m.kind = "c" => \E i \in Initiators : WroteC(m, i)'
  PROVE  AirIsWritten'
PROOF
<1> SUFFICES ASSUME NEW o \in air'
             PROVE  /\ o.kind \in {"a", "b", "c"}
                    /\ o.kind = "a" => \E i \in Initiators : o = message_a(i)
                    /\ o.kind = "b" => \E r \in Responders : WroteB(o, r)'
                    /\ o.kind = "c" => \E i \in Initiators : WroteC(o, i)'
  BY DEF AirIsWritten
<1>1. CASE o = m
  BY <1>1
<1>2. CASE o \in air
  BY <1>2, BStaysWritten, CStaysWritten DEF AirIsWritten
<1> QED BY <1>1, <1>2

\* The initiator's first message.
LEMMA WriteAKeeps ==
  ASSUME NhInv, NEW i \in Ends, WriteA(i)
  PROVE  NhInv'
PROOF
<1> DEFINE q == [hs[i] EXCEPT !.at = "sent", !.sym = transcript_a(@, message_a(i))]
<1>1. EndsWhole /\ EndsInStep /\ AirIsWritten /\ i \in Initiators /\ hs[i].at = "new" /\ i \notin Responders
  BY RolesApart DEF NhInv, WriteA
<1>2. hs' = [hs EXCEPT ![i] = q] /\ air' = air \cup {message_a(i)}
  BY <1>1 DEF WriteA, EndsWhole
<1>3. hs[i].sym = Symmetric
  BY <1>1 DEF EndsInStep, InitiatorInStep
<1>4. DOMAIN hs[i] = Fields
  BY <1>1 DEF EndsWhole
<1>5. DOMAIN q = Fields /\ q.sym = told_a(i, i, "") /\ q.at = "sent"
  BY <1>3, <1>4 DEF told_a, message_a, Fields
<1> HIDE DEF q
<1>6. EndsWhole'
  BY <1>1, <1>2, <1>4, <1>5, EndsStayWhole DEF told_a, transcript_a, mix_hash
<1>7. hs'[i] = q /\ \A y \in Ends \ {i} : hs'[y] = hs[y]
  BY <1>1, <1>2, OneEndMoves
<1>8. NothingUndone
  BY <1>1, <1>7 DEF NothingUndone, Ends
<1>9. AirIsWritten'
  <2>1. message_a(i).kind = "a"
    BY DEF message_a
  <2> QED BY <1>1, <1>2, <1>8, <2>1, AirTakesOne
<1>10. InitiatorInStep(i)'
  BY <1>5, <1>7 DEF InitiatorInStep
<1>11. EndsInStep'
  BY <1>1, <1>7, <1>8, <1>10, OthersStayInStep DEF EndsInStep
<1> QED BY <1>6, <1>9, <1>11 DEF NhInv

\* The responder hears it, altered or not.
LEMMA ReadAKeeps ==
  ASSUME NhInv, NEW r \in Ends, NEW m \in air, NEW a \in comes_of(m), ReadA(r, a)
  PROVE  NhInv'
PROOF
<1> DEFINE q == [hs[r] EXCEPT !.at = "heard", !.re = a.e, !.re1 = a.ek, !.sym = transcript_a(hs[r].sym, a)]
<1>1. EndsWhole /\ EndsInStep /\ AirIsWritten /\ r \in Responders /\ hs[r].at = "new" /\ r \notin Initiators /\ a.kind = "a"
  BY RolesApart DEF NhInv, ReadA
<1>2. hs' = [hs EXCEPT ![r] = q] /\ air' = air
  BY Zenon DEF ReadA
<1>3. hs[r].sym = Symmetric /\ a.pay \in {"", "more"}
  BY <1>1, AFields DEF EndsInStep, ResponderInStep
<1>4. transcript_a(hs[r].sym, a) = told_a(a.e, a.ek, a.pay) /\ DOMAIN hs[r] = Fields
  BY <1>1, <1>3 DEF told_a, transcript_a, mix_hash, EndsWhole
<1>5. DOMAIN q = Fields /\ q.sym = told_a(a.e, a.ek, a.pay) /\ q.at = "heard" /\ q.re = a.e /\ q.re1 = a.ek
  BY <1>4 DEF Fields
<1> HIDE DEF q
<1>6. EndsWhole'
  BY <1>1, <1>2, <1>4, <1>5, EndsStayWhole DEF told_a, transcript_a, mix_hash
<1>7. hs'[r] = q /\ \A y \in Ends \ {r} : hs'[y] = hs[y]
  BY <1>1, <1>2, OneEndMoves
<1>8. NothingUndone
  BY <1>1, <1>7 DEF NothingUndone, Ends
<1>9. AirIsWritten'
  BY <1>1, <1>2, <1>8, AirStaysWritten
<1>10. ResponderInStep(r)'
  BY <1>3, <1>5, <1>7 DEF ResponderInStep
<1>11. EndsInStep'
  BY <1>1, <1>7, <1>8, <1>10, OthersStayInStep DEF EndsInStep
<1> QED BY <1>6, <1>9, <1>11 DEF NhInv

\* The responder's answer, written from what it heard.
LEMMA WriteBKeeps ==
  ASSUME NhInv, NEW r \in Ends, WriteB(r)
  PROVE  NhInv'
PROOF
<1> DEFINE ct == encapsulate(r, hs[r].re1)
           y1 == after_e(hs[r].sym, r, dh(r, hs[r].re))
           y2 == mix_key(encrypt_and_hash(y1, ct), ct)
           y3 == mix_key(encrypt_and_hash(y2, StaticOf(r)), dh(StaticOf(r), hs[r].re))
           y4 == encrypt_and_hash(y3, "")
           q == [hs[r] EXCEPT !.at = "answered", !.sym = y4]
           b == [kind |-> "b", e |-> r, ct |-> sealed(y1, ct), s |-> sealed(y2, StaticOf(r)), pay |-> sealed(y3, "")]
<1>1. EndsWhole /\ EndsInStep /\ AirIsWritten /\ r \in Responders /\ hs[r].at = "heard" /\ r \notin Initiators
  BY RolesApart DEF NhInv, WriteB
<1>2. hs' = [hs EXCEPT ![r] = q] /\ air' = air \cup {b}
  BY <1>1 DEF WriteB, EndsWhole
<1>3. PICK p \in {"", "more"} : hs[r].sym = told_a(hs[r].re, hs[r].re1, p)
  BY <1>1 DEF EndsInStep, ResponderInStep
<1>4. /\ y1 = [h |-> y1.h, ck |-> y1.ck, n |-> y1.n]
      /\ y4 = [h |-> y4.h, ck |-> y4.ck, n |-> y4.n]
  BY DEF after_e, mix_key, mix_hash, encrypt_and_hash
<1>a. y1 = after_e(told_a(hs[r].re, hs[r].re1, p), r, dh(r, hs[r].re))
  BY <1>3
<1> HIDE DEF y1, y4
<1>5. DOMAIN hs[r] = Fields
  BY <1>1 DEF EndsWhole
<1>6. DOMAIN q = Fields /\ q.sym = y4 /\ q.at = "answered" /\ q.re = hs[r].re /\ q.re1 = hs[r].re1
  BY <1>5 DEF Fields
<1> HIDE DEF q
<1>7. EndsWhole'
  BY <1>1, <1>2, <1>4, <1>5, <1>6, EndsStayWhole
<1>8. hs'[r] = q /\ \A y \in Ends \ {r} : hs'[y] = hs[y]
  BY <1>1, <1>2, OneEndMoves
<1>9. NothingUndone
  BY <1>1, <1>8 DEF NothingUndone, Ends
<1>10. AirIsWritten'
  <2>1. as_sealed(b.ct) = y1
    BY <1>4 DEF as_sealed, sealed
  <2>2. PICK w : w = b
    OBVIOUS
  <2>3. PICK u1 : u1 = y1
    OBVIOUS
  <2>4. hs'[r].re = hs[r].re /\ hs'[r].re1 = hs[r].re1 /\ hs'[r].at = "answered"
    BY <1>6, <1>8
  <2>5. PICK uc : uc = encapsulate(r, hs[r].re1)
    OBVIOUS
  <2>6. WroteB(w, r)'
    <3> DEFINE v2 == mix_key(encrypt_and_hash(u1, uc), uc)
               v3 == mix_key(encrypt_and_hash(v2, StaticOf(r)), dh(StaticOf(r), hs'[r].re))
    <3>1. w = [kind |-> "b", e |-> r, ct |-> sealed(u1, uc), s |-> sealed(v2, StaticOf(r)), pay |-> sealed(v3, "")]
      BY <2>2, <2>3, <2>4, <2>5
    <3>2. as_sealed(w.ct) = u1
      BY <2>1, <2>2, <2>3
    <3>3. uc = encapsulate(r, hs'[r].re1)
      BY <2>4, <2>5
    <3>4. u1 = after_e(told_a(hs'[r].re, hs'[r].re1, p), r, dh(r, hs'[r].re))
      BY <1>a, <2>3, <2>4
    <3> QED BY <2>4, <3>1, <3>2, <3>3, <3>4 DEF WroteB
  <2>7. w.kind = "b" /\ air' = air \cup {w}
    BY <1>2, <2>2
  <2> QED BY <1>1, <1>9, <2>6, <2>7, AirTakesOne
<1>11. ResponderInStep(r)'
  BY <1>6, <1>8 DEF ResponderInStep
<1>12. EndsInStep'
  BY <1>1, <1>8, <1>9, <1>11, OthersStayInStep DEF EndsInStep
<1> QED BY <1>7, <1>10, <1>12 DEF NhInv

\* Pairs are the same only of the same parts.
LEMMA PairsApart ==
  ASSUME NEW a, NEW b, NEW c, NEW d, <<a, b>> = <<c, d>>
  PROVE  a = c /\ b = d
OBVIOUS

\* What an ephemeral key and its secret add.
LEMMA AfterE ==
  ASSUME NEW y, NEW e, NEW k
  PROVE  after_e(y, e, k) = [h |-> <<y.h, e>>, ck |-> <<y.ck, k>>, n |-> 0]
BY DEF after_e, mix_key, mix_hash

\* The answer an initiator opens was written by a responder that heard it, and no other.
LEMMA AnswerIsOwn ==
  ASSUME NhInv, NEW i \in Initiators, hs[i].at = "sent", NEW m \in air, NEW b \in comes_of(m), b.kind = "b",
         NEW y1, NEW y2, y1 = after_e(hs[i].sym, b.e, dh(i, b.e)),
         y2.h = <<y1.h, b.ct>>, opens(y1, b.ct), opens(y2, b.s)
  PROVE  \E r \in Responders : /\ b.e = r /\ b.s.body = StaticOf(r) /\ hs[r].re = i /\ hs[r].re1 = i
                               /\ hs[r].at \in {"answered", "done", "failed"} /\ b.ct.body = [to |-> i, by |-> r]
PROOF
<1>1. AirIsWritten /\ hs[i].sym = told_a(i, i, "")
  BY DEF NhInv, EndsInStep, InitiatorInStep
<1>2. PICK o \in air : o.kind = "b" /\ b.ct = o.ct
  BY <1>1, BFieldsWritten DEF opens
<1>3. PICK r \in Responders : WroteB(o, r)
  BY <1>1, <1>2 DEF AirIsWritten
<1>4. PICK o2 \in air : o2.kind = "b" /\ b.s = o2.s
  BY <1>1, BFieldsWritten DEF opens
<1>5. PICK r2 \in Responders : WroteB(o2, r2)
  BY <1>1, <1>4 DEF AirIsWritten
<1>6. y1.h = <<told_a(i, i, "").h, b.e>>
  BY <1>1, AfterE
<1>7. PICK p \in {"", "more"} : as_sealed(o.ct) = after_e(told_a(hs[r].re, hs[r].re1, p), r, dh(r, hs[r].re))
  BY <1>3 DEF WroteB
<1>8. o.ct.ad = <<told_a(hs[r].re, hs[r].re1, p).h, r>>
  BY <1>7, AfterE DEF as_sealed
<1>9. o.ct.ad = y1.h
  BY <1>2 DEF opens
<1>10. b.e = r /\ hs[r].re = i /\ hs[r].re1 = i
  <2>1. b.e = r /\ told_a(i, i, "").h = told_a(hs[r].re, hs[r].re1, p).h
    <3>1. <<told_a(i, i, "").h, b.e>> = <<told_a(hs[r].re, hs[r].re1, p).h, r>>
      BY <1>6, <1>8, <1>9, Zenon
    <3> QED BY <3>1, PairsApart, Zenon
  <2>2. i = hs[r].re /\ i = hs[r].re1
    <3>1. PICK p0 : p0 = ""
      OBVIOUS
    <3>2. told_a(i, i, p0).h = told_a(hs[r].re, hs[r].re1, p).h
      BY <2>1, <3>1
    <3>3. PICK f, fk, o1 : f = hs[r].re /\ fk = hs[r].re1 /\ o1 = p
      OBVIOUS
    <3>4. told_a(i, i, p0).h = told_a(f, fk, o1).h
      BY <3>2, <3>3
    <3>5. i = f /\ i = fk
      <4>1. PICK h0 : h0 = Symmetric.h
        OBVIOUS
      <4>2. <<<<<<h0, i>>, i>>, p0>> = <<<<<<h0, f>>, fk>>, o1>>
        <5>1. told_a(i, i, p0).h = <<<<<<h0, i>>, i>>, p0>>
          BY ONLY <4>1 DEF told_a, transcript_a, mix_hash
        <5>2. told_a(f, fk, o1).h = <<<<<<h0, f>>, fk>>, o1>>
          BY ONLY <4>1 DEF told_a, transcript_a, mix_hash
        <5> QED BY ONLY <3>4, <5>1, <5>2, Zenon
      <4>3. <<<<h0, i>>, i>> = <<<<h0, f>>, fk>>
        BY <4>2, PairsApart, Zenon
      <4>4. <<h0, i>> = <<h0, f>> /\ i = fk
        BY <4>3, PairsApart, Zenon
      <4> QED BY <4>4, PairsApart, Zenon
    <3> QED BY <3>3, <3>5
  <2> QED BY <2>1, <2>2
<1>11. o.ct.body = encapsulate(r, hs[r].re1) /\ hs[r].at \in {"answered", "done", "failed"}
  <2> DEFINE z1 == as_sealed(o.ct)
             zc == encapsulate(r, hs[r].re1)
             z2 == mix_key(encrypt_and_hash(z1, zc), zc)
             z3 == mix_key(encrypt_and_hash(z2, StaticOf(r)), dh(StaticOf(r), hs[r].re))
  <2>1. hs[r].at \in {"answered", "done", "failed"}
        /\ o = [kind |-> "b", e |-> r, ct |-> sealed(z1, zc), s |-> sealed(z2, StaticOf(r)), pay |-> sealed(z3, "")]
    BY <1>3 DEF WroteB
  <2> HIDE DEF z1, z2, z3
  <2> QED BY <2>1 DEF sealed
<1>12. o2.s.body = StaticOf(r2) /\ \E t : o2.s.ad = <<<<t, r2>>, o2.ct>>
  <2> DEFINE z1 == as_sealed(o2.ct)
             zc == encapsulate(r2, hs[r2].re1)
             z2 == mix_key(encrypt_and_hash(z1, zc), zc)
             z3 == mix_key(encrypt_and_hash(z2, StaticOf(r2)), dh(StaticOf(r2), hs[r2].re))
  <2>1. o2 = [kind |-> "b", e |-> r2, ct |-> sealed(z1, zc), s |-> sealed(z2, StaticOf(r2)), pay |-> sealed(z3, "")]
    BY <1>5 DEF WroteB
  <2>2. \E t : z1.h = <<t, r2>>
    <3>1. PICK p2 \in {"", "more"} : z1 = after_e(told_a(hs[r2].re, hs[r2].re1, p2), r2, dh(r2, hs[r2].re))
      BY <1>5 DEF WroteB
    <3>2. z1.h = <<told_a(hs[r2].re, hs[r2].re1, p2).h, r2>>
      <4> HIDE DEF z1
      <4>1. PICK y : y = told_a(hs[r2].re, hs[r2].re1, p2)
        OBVIOUS
      <4>2. z1 = after_e(y, r2, dh(r2, hs[r2].re))
        BY <3>1, <4>1
      <4>3. z1.h = <<y.h, r2>>
        BY ONLY <4>2, AfterE
      <4> QED BY <4>1, <4>3
    <3> QED BY <3>2
  <2>3. z2.h = <<z1.h, sealed(z1, zc)>>
    BY DEF mix_key, encrypt_and_hash
  <2> HIDE DEF z1, zc, z2, z3
  <2> QED BY <2>1, <2>2, <2>3 DEF sealed
<1>13. r2 = b.e
  <2>1. PICK t : o2.s.ad = <<<<t, r2>>, o2.ct>>
    BY <1>12
  <2>2. o2.s.ad = <<<<told_a(i, i, "").h, b.e>>, b.ct>>
    BY <1>4, <1>6 DEF opens
  <2>3. <<<<t, r2>>, o2.ct>> = <<<<told_a(i, i, "").h, b.e>>, b.ct>>
    BY <2>1, <2>2, Zenon
  <2>4. <<t, r2>> = <<told_a(i, i, "").h, b.e>>
    BY <2>3, PairsApart, Zenon
  <2> QED BY <2>4, PairsApart, Zenon
<1> QED BY <1>2, <1>4, <1>10, <1>11, <1>12, <1>13 DEF encapsulate

\* The initiator opens the answer, or fails.
LEMMA ReadBKeeps ==
  ASSUME NhInv, NEW i \in Ends, NEW m \in air, NEW b \in comes_of(m), ReadB(i, b)
  PROVE  NhInv'
PROOF
<1> DEFINE y1 == after_e(hs[i].sym, b.e, dh(i, b.e))
           y2 == mix_key(decrypt_and_hash(y1, b.ct), decapsulate(i, b.ct.body))
           y3 == mix_key(decrypt_and_hash(y2, b.s), dh(i, b.s.body))
           y4 == decrypt_and_hash(y3, b.pay)
           good == opens(y1, b.ct) /\ opens(y2, b.s) /\ opens(y3, b.pay)
           q == IF good THEN [hs[i] EXCEPT !.at = "heard", !.re = b.e, !.rs = b.s.body, !.sym = y4]
                        ELSE [hs[i] EXCEPT !.at = "failed"]
<1>1. EndsWhole /\ EndsInStep /\ AirIsWritten /\ i \in Initiators /\ hs[i].at = "sent" /\ i \notin Responders /\ b.kind = "b"
  BY RolesApart DEF NhInv, ReadB
<1>2. hs' = [hs EXCEPT ![i] = q] /\ air' = air
  BY DEF ReadB
<1>3. DOMAIN hs[i] = Fields /\ hs[i].sym = [h |-> hs[i].sym.h, ck |-> hs[i].sym.ck, n |-> hs[i].sym.n]
  BY <1>1 DEF EndsWhole
<1>4. /\ y4 = [h |-> y4.h, ck |-> y4.ck, n |-> y4.n]
      /\ y2.h = <<y1.h, b.ct>>
  BY DEF decrypt_and_hash, mix_key
<1>5. hs[i].sym = told_a(i, i, "")
  BY <1>1 DEF EndsInStep, InitiatorInStep
<1>6. y4.ck = <<<<<<<<>>, dh(i, b.e)>>, decapsulate(i, b.ct.body)>>, dh(i, b.s.body)>>
  <2>1. told_a(i, i, "").ck = <<>>
    BY DEF told_a, transcript_a, mix_hash, Symmetric
  <2>2. y1.ck = <<<<>>, dh(i, b.e)>>
    BY <1>5, <2>1, AfterE
  <2>3. y2.ck = <<y1.ck, decapsulate(i, b.ct.body)>> /\ y3.ck = <<y2.ck, dh(i, b.s.body)>> /\ y4.ck = y3.ck
    BY DEF decrypt_and_hash, mix_key
  <2> HIDE DEF y1, y2, y3, y4
  <2> QED BY <2>2, <2>3
<1>7. good => \E r \in Responders : /\ b.e = r /\ b.s.body = StaticOf(r) /\ hs[r].re = i /\ hs[r].re1 = i
                                    /\ hs[r].at \in {"answered", "done", "failed"} /\ b.ct.body = [to |-> i, by |-> r]
  <2> HIDE DEF y2
  <2> QED BY <1>1, <1>4, AnswerIsOwn
<1> HIDE DEF y1, y2, y3, y4, good
<1>8. /\ DOMAIN q = Fields /\ q.sym = [h |-> q.sym.h, ck |-> q.sym.ck, n |-> q.sym.n]
      /\ good => q.at = "heard" /\ q.re = b.e /\ q.rs = b.s.body /\ q.sym = y4
      /\ ~good => q.at = "failed"
  <2>1. CASE good
    <3>1. q = [hs[i] EXCEPT !.at = "heard", !.re = b.e, !.rs = b.s.body, !.sym = y4]
      BY <2>1
    <3> HIDE DEF q
    <3>2. DOMAIN q = Fields /\ q.at = "heard" /\ q.re = b.e /\ q.rs = b.s.body /\ q.sym = y4
      BY <1>3, <3>1 DEF Fields
    <3> QED BY <1>4, <2>1, <3>2
  <2>2. CASE ~good
    <3>1. q = [hs[i] EXCEPT !.at = "failed"]
      BY <2>2
    <3> HIDE DEF q
    <3>2. DOMAIN q = Fields /\ q.at = "failed" /\ q.sym = hs[i].sym
      BY <1>3, <3>1 DEF Fields
    <3> QED BY <1>3, <2>2, <3>2
  <2> QED BY <2>1, <2>2
<1> HIDE DEF q
<1>9. EndsWhole'
  BY <1>1, <1>2, <1>8, EndsStayWhole
<1>10. hs'[i] = q /\ \A y \in Ends \ {i} : hs'[y] = hs[y]
  BY <1>1, <1>2, OneEndMoves
<1>11. NothingUndone
  BY <1>1, <1>10 DEF NothingUndone, Ends
<1>12. AirIsWritten'
  BY <1>1, <1>2, <1>11, AirStaysWritten
<1>13. InitiatorInStep(i)'
  <2>1. CASE ~good
    BY <1>8, <1>10, <2>1 DEF InitiatorInStep
  <2>2. CASE good
    <3>1. PICK r \in Responders : /\ b.e = r /\ b.s.body = StaticOf(r) /\ hs[r].re = i /\ hs[r].re1 = i
                                  /\ hs[r].at \in {"answered", "done", "failed"} /\ b.ct.body = [to |-> i, by |-> r]
      BY <1>7, <2>2
    <3>2. hs'[r] = hs[r] /\ r # i
      BY <1>1, <1>10 DEF Ends
    <3>3. Answered(i, r)'
      BY <1>8, <1>10, <2>2, <3>1, <3>2 DEF Answered
    <3>4. decapsulate(i, b.ct.body) = [to |-> i, by |-> r]
      BY <3>1 DEF decapsulate
    <3>5. hs'[i].sym.ck = heard_key(i)'
      BY <1>6, <1>8, <1>10, <2>2, <3>1, <3>4 DEF heard_key
    <3> QED BY <1>8, <1>10, <2>2, <3>3, <3>5 DEF InitiatorInStep
  <2> QED BY <2>1, <2>2
<1>14. EndsInStep'
  BY <1>1, <1>10, <1>11, <1>13, OthersStayInStep DEF EndsInStep
<1> QED BY <1>9, <1>12, <1>14 DEF NhInv

\* The initiator's last message: it is done.
LEMMA WriteCKeeps ==
  ASSUME NhInv, NEW i \in Ends, WriteC(i)
  PROVE  NhInv'
PROOF
<1> DEFINE y1 == mix_key(encrypt_and_hash(hs[i].sym, StaticOf(i)), dh(StaticOf(i), hs[i].re))
           y2 == encrypt_and_hash(y1, "")
           q == ends_with(hs[i], i, y2)
           c == [kind |-> "c", s |-> sealed(hs[i].sym, StaticOf(i)), pay |-> sealed(y1, "")]
<1>1. EndsWhole /\ EndsInStep /\ AirIsWritten /\ i \in Initiators /\ hs[i].at = "heard" /\ i \notin Responders
  BY RolesApart DEF NhInv, WriteC
<1>2. hs' = [hs EXCEPT ![i] = q] /\ air' = air \cup {c}
  BY DEF WriteC
<1>3. DOMAIN hs[i] = Fields /\ hs[i].sym = [h |-> hs[i].sym.h, ck |-> hs[i].sym.ck, n |-> hs[i].sym.n]
  BY <1>1 DEF EndsWhole
<1>4. /\ y2 = [h |-> y2.h, ck |-> y2.ck, n |-> y2.n]
      /\ y2.ck = <<hs[i].sym.ck, dh(StaticOf(i), hs[i].re)>>
  BY DEF encrypt_and_hash, mix_key
<1>5. hs[i].sym.ck = heard_key(i)
  BY <1>1 DEF EndsInStep, InitiatorInStep
<1>6. PICK r \in Responders : Answered(i, r)
  BY <1>1 DEF EndsInStep, InitiatorInStep
<1> HIDE DEF y1, y2
<1>7. /\ DOMAIN q = Fields /\ q.at = "done" /\ q.re = hs[i].re /\ q.rs = hs[i].rs /\ q.sym = y2
      /\ q.send = <<y2.ck, 1>> /\ q.recv = <<y2.ck, 2>>
  <2>1. q = [hs[i] EXCEPT !.at = "done", !.sym = y2, !.send = <<y2.ck, 1>>, !.recv = <<y2.ck, 2>>]
    BY <1>1 DEF ends_with, into_transport
  <2> HIDE DEF q
  <2> QED BY <1>3, <2>1 DEF Fields
<1> HIDE DEF q
<1>8. EndsWhole'
  BY <1>1, <1>2, <1>4, <1>7, EndsStayWhole
<1>9. hs'[i] = q /\ \A y \in Ends \ {i} : hs'[y] = hs[y]
  BY <1>1, <1>2, OneEndMoves
<1>10. NothingUndone
  BY <1>1, <1>9 DEF NothingUndone, Ends
<1>11. AirIsWritten'
  <2>1. PICK w : w = c
    OBVIOUS
  <2>2. PICK u : u = hs[i].sym
    OBVIOUS
  <2>3. as_sealed(w.s) = u
    BY <1>3, <2>1, <2>2 DEF as_sealed, sealed
  <2>4. WroteC(w, i)'
    <3> DEFINE v1 == mix_key(encrypt_and_hash(u, StaticOf(i)), dh(StaticOf(i), hs'[i].re))
    <3>1. v1 = y1
      BY <1>7, <1>9, <2>2 DEF y1
    <3>2. hs'[i].at = "done" /\ hs'[i].sym = encrypt_and_hash(v1, "")
      BY <1>7, <1>9, <3>1 DEF y2
    <3>3. w = [kind |-> "c", s |-> sealed(u, StaticOf(i)), pay |-> sealed(v1, "")]
      BY <2>1, <2>2, <3>1
    <3> QED BY <2>3, <3>2, <3>3 DEF WroteC
  <2>5. w.kind = "c" /\ air' = air \cup {w}
    BY <1>2, <2>1
  <2> QED BY <1>1, <1>10, <2>4, <2>5, AirTakesOne
<1>12. InitiatorInStep(i)'
  <2>1. Answered(i, r)'
    BY <1>1, <1>6, <1>7, <1>9, <1>10, StaysAnswered
  <2>2. done_key(i)' = y2.ck
    BY <1>4, <1>5, <1>7, <1>9 DEF done_key, heard_key
  <2> QED BY <1>7, <1>9, <2>1, <2>2 DEF InitiatorInStep
<1>13. EndsInStep'
  BY <1>1, <1>9, <1>10, <1>12, OthersStayInStep DEF EndsInStep
<1> QED BY <1>8, <1>11, <1>13 DEF NhInv

\* The last message a responder opens was written by one initiator, that has the
\* responder's ephemeral key, and what both have is the same.
LEMMA LastIsOwn ==
  ASSUME NhInv, NEW r \in Responders, NEW m \in air, NEW c \in comes_of(m), c.kind = "c", NEW y0, y0 = hs[r].sym,
         NEW y1, y1 = mix_key(decrypt_and_hash(y0, c.s), dh(r, c.s.body)), opens(y0, c.s), opens(y1, c.pay)
  PROVE  \E i \in Initiators : /\ hs[i].at = "done" /\ hs[i].sym = decrypt_and_hash(y1, c.pay)
                               /\ hs[i].re = r /\ c.s.body = StaticOf(i)
PROOF
<1>1. AirIsWritten /\ y0 = [h |-> y0.h, ck |-> y0.ck, n |-> y0.n]
  BY DEF NhInv, EndsWhole, Ends
<1>2. PICK o \in air : o.kind = "c" /\ c.pay = o.pay
  BY <1>1, CFieldsWritten DEF opens
<1>3. PICK i \in Initiators : WroteC(o, i)
  BY <1>1, <1>2 DEF AirIsWritten
<1>4. PICK z : z = as_sealed(o.s)
  OBVIOUS
<1>5. PICK z1 : z1 = mix_key(encrypt_and_hash(z, StaticOf(i)), dh(StaticOf(i), hs[i].re))
  OBVIOUS
<1>6. /\ hs[i].at = "done" /\ hs[i].sym = encrypt_and_hash(z1, "")
      /\ o = [kind |-> "c", s |-> sealed(z, StaticOf(i)), pay |-> sealed(z1, "")]
  BY <1>3, <1>4, <1>5 DEF WroteC
<1>7. c.pay = sealed(z1, "")
  BY <1>2, <1>6
<1>8. y1.ck = z1.ck /\ y1.n = z1.n /\ y1.h = z1.h
  <2>1. sealed(z1, "").key = z1.ck /\ sealed(z1, "").n = z1.n /\ sealed(z1, "").ad = z1.h
    BY DEF sealed
  <2>2. c.pay.key = y1.ck /\ c.pay.n = y1.n /\ c.pay.ad = y1.h
    BY DEF opens
  <2> QED BY ONLY <1>7, <2>1, <2>2
<1>9. /\ y1 = [h |-> <<y0.h, c.s>>, ck |-> <<y0.ck, dh(r, c.s.body)>>, n |-> 0]
      /\ z1 = [h |-> <<z.h, sealed(z, StaticOf(i))>>, ck |-> <<z.ck, dh(StaticOf(i), hs[i].re)>>, n |-> 0]
  BY <1>5 DEF mix_key, decrypt_and_hash, encrypt_and_hash
<1>10. <<y0.h, c.s>> = <<z.h, sealed(z, StaticOf(i))>> /\ <<y0.ck, dh(r, c.s.body)>> = <<z.ck, dh(StaticOf(i), hs[i].re)>>
  BY <1>8, <1>9
<1>11. c.s = sealed(z, StaticOf(i)) /\ dh(r, c.s.body) = dh(StaticOf(i), hs[i].re)
  BY <1>10, PairsApart, Zenon
<1>12. c.s.body = StaticOf(i)
  BY <1>11 DEF sealed
<1>13. hs[i].re = r
  BY <1>11, <1>12 DEF dh
<1>14. y1 = z1
  BY <1>8, <1>9
<1>15. decrypt_and_hash(y1, c.pay) = encrypt_and_hash(z1, "")
  BY <1>7, <1>14 DEF decrypt_and_hash, encrypt_and_hash
<1> QED BY <1>6, <1>12, <1>13, <1>15

\* The responder opens the last message and is done, or fails.
LEMMA ReadCKeeps ==
  ASSUME NhInv, NEW r \in Ends, NEW m \in air, NEW c \in comes_of(m), ReadC(r, c)
  PROVE  NhInv'
PROOF
<1> DEFINE y0 == hs[r].sym
           y1 == mix_key(decrypt_and_hash(y0, c.s), dh(r, c.s.body))
           y2 == decrypt_and_hash(y1, c.pay)
           good == opens(y0, c.s) /\ opens(y1, c.pay)
           q == IF good THEN [ends_with(hs[r], r, y2) EXCEPT !.rs = c.s.body]
                        ELSE [hs[r] EXCEPT !.at = "failed"]
<1>1. EndsWhole /\ EndsInStep /\ AirIsWritten /\ r \in Responders /\ hs[r].at = "answered" /\ r \notin Initiators /\ c.kind = "c"
  BY RolesApart DEF NhInv, ReadC
<1>2. hs' = [hs EXCEPT ![r] = q] /\ air' = air
  BY DEF ReadC
<1>3. DOMAIN hs[r] = Fields /\ hs[r].sym = [h |-> hs[r].sym.h, ck |-> hs[r].sym.ck, n |-> hs[r].sym.n]
  BY <1>1 DEF EndsWhole
<1>4. y2 = [h |-> y2.h, ck |-> y2.ck, n |-> y2.n]
  BY DEF decrypt_and_hash
<1>5. good => \E i \in Initiators : hs[i].at = "done" /\ hs[i].sym = y2 /\ hs[i].re = r /\ c.s.body = StaticOf(i)
  BY <1>1, LastIsOwn
<1> HIDE DEF y0, y1, y2, good
<1>6. /\ DOMAIN q = Fields /\ q.sym = [h |-> q.sym.h, ck |-> q.sym.ck, n |-> q.sym.n]
      /\ q.re = hs[r].re /\ q.re1 = hs[r].re1
      /\ good => q.at = "done" /\ q.rs = c.s.body /\ q.sym = y2 /\ q.send = <<y2.ck, 2>> /\ q.recv = <<y2.ck, 1>>
      /\ ~good => q.at = "failed"
  <2>1. CASE good
    <3>1. q = [[hs[r] EXCEPT !.at = "done", !.sym = y2, !.send = <<y2.ck, 2>>, !.recv = <<y2.ck, 1>>] EXCEPT !.rs = c.s.body]
      BY <1>1, <2>1 DEF ends_with, into_transport
    <3> HIDE DEF q
    <3>2. /\ DOMAIN q = Fields /\ q.at = "done" /\ q.rs = c.s.body /\ q.sym = y2 /\ q.send = <<y2.ck, 2>> /\ q.recv = <<y2.ck, 1>>
          /\ q.re = hs[r].re /\ q.re1 = hs[r].re1
      BY <1>3, <3>1 DEF Fields
    <3> QED BY <1>4, <2>1, <3>2
  <2>2. CASE ~good
    <3>1. q = [hs[r] EXCEPT !.at = "failed"]
      BY <2>2
    <3> HIDE DEF q
    <3>2. DOMAIN q = Fields /\ q.at = "failed" /\ q.sym = hs[r].sym /\ q.re = hs[r].re /\ q.re1 = hs[r].re1
      BY <1>3, <3>1 DEF Fields
    <3> QED BY <1>3, <2>2, <3>2
  <2> QED BY <2>1, <2>2
<1> HIDE DEF q
<1>7. EndsWhole'
  BY <1>1, <1>2, <1>6, EndsStayWhole
<1>8. hs'[r] = q /\ \A y \in Ends \ {r} : hs'[y] = hs[y]
  BY <1>1, <1>2, OneEndMoves
<1>9. NothingUndone
  BY <1>1, <1>6, <1>8 DEF NothingUndone, Ends
<1>10. AirIsWritten'
  BY <1>1, <1>2, <1>9, AirStaysWritten
<1>11. ResponderInStep(r)'
  <2>1. CASE ~good
    BY <1>6, <1>8, <2>1 DEF ResponderInStep
  <2>2. CASE good
    <3>1. PICK i \in Initiators : hs[i].at = "done" /\ hs[i].sym = y2 /\ hs[i].re = r /\ c.s.body = StaticOf(i)
      BY <1>5, <2>2
    <3>2. hs'[i] = hs[i] /\ i # r
      BY <1>1, <1>8 DEF Ends
    <3>3. InitiatorInStep(i)
      BY <1>1 DEF EndsInStep
    <3>4. hs[i].rs = StaticOf(r)
      BY <3>1, <3>3 DEF InitiatorInStep, Answered
    <3>5. hs[i].send = <<y2.ck, 1>> /\ hs[i].recv = <<y2.ck, 2>>
      <4>1. hs[i].sym.ck = done_key(i) /\ hs[i].send = <<done_key(i), 1>> /\ hs[i].recv = <<done_key(i), 2>>
        BY <3>1, <3>3 DEF InitiatorInStep
      <4>2. done_key(i) = y2.ck
        BY <3>1, <4>1
      <4> QED BY <4>1, <4>2
    <3>6. Agreed(i, r)'
      BY <1>6, <1>8, <2>2, <3>1, <3>2, <3>4, <3>5 DEF Agreed, Peered
    <3> QED BY <1>6, <1>8, <2>2, <3>6 DEF ResponderInStep
  <2> QED BY <2>1, <2>2
<1>12. EndsInStep'
  BY <1>1, <1>8, <1>9, <1>11, OthersStayInStep DEF EndsInStep
<1> QED BY <1>7, <1>10, <1>12 DEF NhInv

\* Every step of the handshakes keeps the invariant.
LEMMA NhInvStays ==
  ASSUME NhInv, [NhNext]_nhVars
  PROVE  NhInv'
PROOF
<1>1. CASE UNCHANGED nhVars
  <2>1. hs' = hs /\ air' = air
    BY <1>1 DEF nhVars
  <2>2. EndsWhole'
    BY <2>1 DEF NhInv, EndsWhole
  <2>3. NothingUndone
    BY <2>1 DEF NothingUndone
  <2>4. AirIsWritten'
    BY <2>1, <2>3, AirStaysWritten DEF NhInv
  <2>5. \A i \in Initiators : InitiatorInStep(i) => InitiatorInStep(i)'
    BY <2>1 DEF InitiatorInStep, Answered, heard_key, done_key
  <2>6. \A r \in Responders : ResponderInStep(r) => ResponderInStep(r)'
    BY <2>1 DEF ResponderInStep, Agreed, Peered
  <2> QED BY <2>2, <2>4, <2>5, <2>6 DEF NhInv, EndsInStep
<1>2. CASE NhNext
  BY <1>2, WriteAKeeps, WriteBKeeps, WriteCKeeps, ReadAKeeps, ReadBKeeps, ReadCKeeps DEF NhNext
<1> QED BY <1>1, <1>2

\* The invariant holds before any message.
LEMMA NhInvAtFirst ==
  ASSUME NhInit
  PROVE  NhInv
PROOF
<1>1. \A x \in Ends : hs[x] = [at |-> "new", sym |-> Symmetric, re |-> None, re1 |-> None, rs |-> None,
                              send |-> <<>>, recv |-> <<>>]
  BY DEF NhInit
<1>2. EndsWhole
  BY <1>1 DEF NhInit, EndsWhole, Fields, Symmetric
<1>3. EndsInStep
  <2>1. \A x \in Ends : hs[x].at = "new" /\ hs[x].sym = Symmetric
    BY <1>1
  <2>2. \A i \in Initiators : InitiatorInStep(i)
    BY <2>1 DEF InitiatorInStep, Ends
  <2>3. \A r \in Responders : ResponderInStep(r)
    BY <2>1 DEF ResponderInStep, Ends
  <2> QED BY <2>2, <2>3 DEF EndsInStep
<1>4. AirIsWritten
  BY DEF NhInit, AirIsWritten
<1> QED BY <1>2, <1>3, <1>4 DEF NhInv

\* No two initiators have one key: it holds whom the key encapsulated was for.
LEMMA InvMeansAgreement ==
  ASSUME NhInv
  PROVE  HandshakeAgrees
PROOF
<1>1. \A r \in Responders : hs[r].at = "done" => \E i \in Initiators : Agreed(i, r)
  BY DEF NhInv, EndsInStep, ResponderInStep
<1>2. \A i \in Initiators : hs[i].at = "done" => \E r \in Responders : Answered(i, r)
  BY DEF NhInv, EndsInStep, InitiatorInStep
<1>3. ASSUME NEW i \in Initiators, NEW j \in Initiators, hs[i].at = "done", hs[j].at = "done", hs[i].send = hs[j].send
      PROVE  i = j
  <2>1. <<done_key(i), 1>> = <<done_key(j), 1>>
    BY <1>3 DEF NhInv, EndsInStep, InitiatorInStep
  <2>2. done_key(i) = done_key(j)
    BY <2>1, PairsApart, Zenon
  <2>3. heard_key(i) = heard_key(j)
    BY <2>2, PairsApart, Zenon DEF done_key
  <2>4. <<<<<<>>, dh(i, hs[i].re)>>, [to |-> i, by |-> hs[i].re]>> = <<<<<<>>, dh(j, hs[j].re)>>, [to |-> j, by |-> hs[j].re]>>
    BY <2>3, PairsApart, Zenon DEF heard_key
  <2>5. [to |-> i, by |-> hs[i].re] = [to |-> j, by |-> hs[j].re]
    BY <2>4, PairsApart, Zenon
  <2> QED BY ONLY <2>5
<1> QED BY <1>1, <1>2, <1>3 DEF HandshakeAgrees

-----------------------------------------------------------------------------
(* CircuitCells.                                                             *)

\* The hops are 1 to N, the exit being N.
LEMMA HopsFacts == N \in Nat /\ N >= 1 /\ Hops = 1..N /\ N \in Hops /\ 1 \in Hops
PROOF
<1>1. N \in Nat
  BY HopsInRow, FS_CardinalityType DEF N
<1>2. Hops = 1..N /\ Hops # {}
  BY HopsInRow
<1> HIDE DEF N
<1>3. N >= 1
  BY <1>1, <1>2
<1> QED BY <1>1, <1>2, <1>3

\* What a layer counted before the stream began; the exit's, nothing.
LEMMA FreshFacts ==
  ASSUME NEW i \in Hops
  PROVE  /\ 2 * (N - i) \in Nat /\ (i = N => 2 * (N - i) = 0)
         /\ Fresh0(i).forward = 2 * (N - i) /\ Fresh0(i).backward = 2 * (N - i)
PROOF
<1>1. N \in Nat /\ i \in 1..N
  BY HopsFacts
<1> HIDE DEF N
<1> QED BY <1>1 DEF Fresh0

\* A frame is the two pieces of its cell.
LEMMA FrameFacts ==
  ASSUME NEW c \in Cells
  PROVE  frame(c) \in Seq(Pieces) /\ Len(frame(c)) = 2
BY DEF frame, Pieces

\* A link takes one more frame.
LEMMA WirePut ==
  ASSUME CcTypeOK, NEW l \in Links, NEW c \in Cells
  PROVE  [wire EXCEPT ![l] = @ \o frame(c)] \in [Links -> Seq(Pieces)]
PROOF
<1>1. frame(c) \in Seq(Pieces) /\ wire[l] \in Seq(Pieces)
  BY FrameFacts DEF CcTypeOK
<1>2. wire[l] \o frame(c) \in Seq(Pieces)
  BY <1>1, ConcatProperties
<1> QED BY <1>2 DEF CcTypeOK

\* What is left of a buffer when its first frame is used.
LEMMA UsedFacts ==
  ASSUME NEW q \in Seq(Pieces), Len(q) >= 2
  PROVE  /\ SubSeq(q, 3, Len(q)) \in Seq(Pieces) /\ Len(SubSeq(q, 3, Len(q))) = Len(q) - 2
         /\ \A k \in 1..(Len(q) - 2) : SubSeq(q, 3, Len(q))[k] = q[k + 2]
PROOF
<1>1. Len(q) \in Nat /\ 3 \in 1..(Len(q) + 1)
  OBVIOUS
<1>2. SubSeq(q, 3, Len(q)) \in Seq(Pieces)
  BY <1>1
<1>3. SubSeq(q, 3, Len(q)) = [k \in 1..(Len(q) - 2) |-> q[k + 2]]
  BY <1>1
<1>4. PICK u : u = SubSeq(q, 3, Len(q))
  OBVIOUS
<1>5. u = [k \in 1..(Len(q) - 2) |-> q[k + 2]] /\ u \in Seq(Pieces) /\ Len(q) - 2 \in Nat
  BY <1>1, <1>2, <1>3, <1>4
<1>6. Len(u) = Len(q) - 2
  BY ONLY <1>5
<1>7. \A k \in 1..(Len(q) - 2) : u[k] = q[k + 2]
  BY ONLY <1>5
<1> QED BY <1>4, <1>5, <1>6, <1>7

\* The frame taken off is of a cell, and the buffers stay sequences of pieces.
LEMMA TakenFacts ==
  ASSUME CcTypeOK, NEW l \in Links, whole(l)
  PROVE  taken(l) \in Cells /\ used(l) \in [Links -> Seq(Pieces)]
PROOF
<1>1. rbuf[l] \in Seq(Pieces) /\ Len(rbuf[l]) >= 2
  BY DEF CcTypeOK, whole
<1>2. rbuf[l][1] \in Pieces
  BY <1>1
<1>3. SubSeq(rbuf[l], 3, Len(rbuf[l])) \in Seq(Pieces)
  BY <1>1, UsedFacts
<1> QED BY <1>2, <1>3 DEF taken, Pieces, used, CcTypeOK

\* A read that lost the race left everything, so what it kept changes nothing.
LEMMA ReadNextFacts ==
  ASSUME CcTypeOK, NEW l \in Links, NEW other \in Links, l # other
  PROVE  read_next(l, other) = used(l)
BY DEF read_next, used, kept, CcTypeOK

----------------------------------------------------------------------------
\* Twice a difference, when either side moves by one.
LEMMA Doubled ==
  ASSUME NEW o \in Nat, NEW p \in Nat
  PROVE  2 * ((p + 1) - o) = 2 * (p - o) + 2 /\ 2 * (p - (o + 1)) = 2 * (p - o) - 2 /\ 2 * (p - o) \in Int
OBVIOUS

\* A link in turn on which the next cell is put.
LEMMA TurnPut ==
  ASSUME NEW l, NEW q \in Seq(Pieces), NEW w \in Seq(Pieces), NEW o \in Nat, NEW p \in Nat, InTurn(l, q, w, o, p)
  PROVE  InTurn(l, q, w \o frame(cell_of(l, p + 1)), o, p + 1)
PROOF
<1> DEFINE c == cell_of(l, p + 1)
           w2 == w \o frame(c)
<1>1. Len(frame(c)) = 2 /\ frame(c) \in Seq({frame(c)[1], frame(c)[2]})
  BY DEF frame
<1>a. frame(c)[1] = [of |-> c, piece |-> 1] /\ frame(c)[2] = [of |-> c, piece |-> 2]
  BY DEF frame
<1>2. /\ Len(w2) = Len(w) + 2
      /\ \A k \in 1..Len(w) : w2[k] = w[k]
      /\ w2[Len(w) + 1] = [of |-> c, piece |-> 1] /\ w2[Len(w) + 2] = [of |-> c, piece |-> 2]
  <2>1. frame(c) \in Seq({[of |-> c, piece |-> 1], [of |-> c, piece |-> 2]}) /\ w \in Seq(Pieces \cup {[of |-> c, piece |-> 1], [of |-> c, piece |-> 2]})
    BY DEF frame
  <2>2. PICK S : frame(c) \in Seq(S) /\ w \in Seq(S)
    BY <2>1 DEF frame
  <2>3. PICK f : f = frame(c)
    OBVIOUS
  <2>4. Len(w \o f) = Len(w) + Len(f) /\ \A k \in 1..(Len(w) + Len(f)) : (w \o f)[k] = IF k <= Len(w) THEN w[k] ELSE f[k - Len(w)]
    BY <2>2, <2>3
  <2>5. Len(w) \in Nat /\ Len(f) = 2 /\ f[1] = [of |-> c, piece |-> 1] /\ f[2] = [of |-> c, piece |-> 2] /\ w2 = w \o f
    BY <1>1, <1>a, <2>3
  <2> HIDE DEF w2, c
  <2>6. \A k \in 1..Len(w) : (w \o f)[k] = w[k]
    BY <2>4, <2>5
  <2>7. (w \o f)[Len(w) + 1] = f[1]
    BY <2>4, <2>5
  <2>8. (w \o f)[Len(w) + 2] = f[2]
    BY <2>4, <2>5
  <2> QED BY <2>4, <2>5, <2>6, <2>7, <2>8
<1>3. Len(q) + Len(w) = 2 * (p - o) /\ Len(q) \in Nat /\ Len(w) \in Nat
  BY DEF InTurn
<1>4. piece_of(l, 2 * p + 1) = [of |-> c, piece |-> 1] /\ piece_of(l, 2 * p + 2) = [of |-> c, piece |-> 2]
  <2>1. ((2 * p + 1) + 1) \div 2 = p + 1 /\ 2 - ((2 * p + 1) % 2) = 1
    OBVIOUS
  <2>2. ((2 * p + 2) + 1) \div 2 = p + 1 /\ 2 - ((2 * p + 2) % 2) = 2
    OBVIOUS
  <2> QED BY <2>1, <2>2 DEF piece_of
<1> HIDE DEF c, w2
<1>5. \A k \in 1..Len(w2) : w2[k] = piece_of(l, 2 * o + Len(q) + k)
  <2> SUFFICES ASSUME NEW k \in 1..Len(w2)
               PROVE  w2[k] = piece_of(l, 2 * o + Len(q) + k)
    OBVIOUS
  <2>1. CASE k \in 1..Len(w)
    BY <1>2, <2>1 DEF InTurn
  <2>2. CASE k = Len(w) + 1
    <3>1. 2 * o + Len(q) + k = 2 * p + 1
      BY <1>3, <2>2
    <3> QED BY <1>2, <1>4, <2>2, <3>1
  <2>3. CASE k = Len(w) + 2
    <3>1. 2 * o + Len(q) + k = 2 * p + 2
      BY <1>3, <2>3
    <3> QED BY <1>2, <1>4, <2>3, <3>1
  <2> QED BY <1>2, <1>3, <2>1, <2>2, <2>3
<1>6. Len(q) + Len(w2) = 2 * ((p + 1) - o)
  <2>1. Len(w2) = Len(w) + 2
    BY <1>2
  <2>2. 2 * ((p + 1) - o) = 2 * (p - o) + 2 /\ 2 * (p - o) \in Int
    BY Doubled
  <2> QED BY ONLY <1>3, <2>1, <2>2
<1>7. InTurn(l, q, w2, o, p + 1)
  BY <1>5, <1>6 DEF InTurn
<1> QED BY <1>7 DEF c, w2

\* A link in turn whose first cell is used.
LEMMA TurnUse ==
  ASSUME NEW l, NEW q \in Seq(Pieces), NEW w \in Seq(Pieces), NEW o \in Nat, NEW p \in Nat, InTurn(l, q, w, o, p),
         Len(q) >= 2
  PROVE  InTurn(l, SubSeq(q, 3, Len(q)), w, o + 1, p)
PROOF
<1> DEFINE q2 == SubSeq(q, 3, Len(q))
<1>1. Len(q2) = Len(q) - 2 /\ \A k \in 1..(Len(q) - 2) : q2[k] = q[k + 2]
  BY UsedFacts
<1> HIDE DEF q2
<1>2. Len(q) \in Nat /\ Len(w) \in Nat
  OBVIOUS
<1>3. \A k \in 1..Len(q2) : q2[k] = piece_of(l, 2 * (o + 1) + k)
  <2> SUFFICES ASSUME NEW k \in 1..Len(q2)
               PROVE  q2[k] = piece_of(l, 2 * (o + 1) + k)
    OBVIOUS
  <2>1. k + 2 \in 1..Len(q) /\ q2[k] = q[k + 2] /\ 2 * (o + 1) + k = 2 * o + (k + 2)
    BY <1>1, <1>2
  <2>2. q[k + 2] = piece_of(l, 2 * o + (k + 2))
    BY <2>1 DEF InTurn
  <2> QED BY <2>1, <2>2
<1>4. \A k \in 1..Len(w) : w[k] = piece_of(l, 2 * (o + 1) + Len(q2) + k)
  <2> SUFFICES ASSUME NEW k \in 1..Len(w)
               PROVE  w[k] = piece_of(l, 2 * (o + 1) + Len(q2) + k)
    OBVIOUS
  <2>1. 2 * (o + 1) + Len(q2) + k = 2 * o + Len(q) + k
    BY <1>1, <1>2
  <2>2. w[k] = piece_of(l, 2 * o + Len(q) + k)
    BY DEF InTurn
  <2> QED BY <2>1, <2>2
<1>5. Len(q2) + Len(w) = 2 * (p - (o + 1))
  <2>1. Len(q) + Len(w) = 2 * (p - o)
    BY DEF InTurn
  <2> QED BY <1>1, <1>2, <2>1, Doubled
<1>6. InTurn(l, q2, w, o + 1, p)
  BY <1>3, <1>4, <1>5 DEF InTurn
<1> QED BY <1>6 DEF q2

\* A link in turn of which one more piece is read.
LEMMA TurnArrive ==
  ASSUME NEW l, NEW q \in Seq(Pieces), NEW w \in Seq(Pieces), NEW o \in Nat, NEW p \in Nat, InTurn(l, q, w, o, p), w # <<>>
  PROVE  InTurn(l, Append(q, Head(w)), Tail(w), o, p)
PROOF
<1> DEFINE q2 == Append(q, Head(w))
           w2 == Tail(w)
<1>1. /\ Len(q2) = Len(q) + 1 /\ (\A k \in 1..Len(q) : q2[k] = q[k]) /\ q2[Len(q) + 1] = w[1]
      /\ Len(w2) = Len(w) - 1 /\ \A k \in 1..(Len(w) - 1) : w2[k] = w[k + 1]
      /\ Len(w) >= 1
  BY DEF Pieces
<1> HIDE DEF q2, w2
<1>2. Len(q) \in Nat /\ Len(w) \in Nat /\ Len(q) + Len(w) = 2 * (p - o)
  BY DEF InTurn
<1>3. \A k \in 1..Len(q2) : q2[k] = piece_of(l, 2 * o + k)
  <2> SUFFICES ASSUME NEW k \in 1..Len(q2)
               PROVE  q2[k] = piece_of(l, 2 * o + k)
    OBVIOUS
  <2>1. CASE k \in 1..Len(q)
    BY <1>1, <2>1 DEF InTurn
  <2>2. CASE k = Len(q) + 1
    <3>1. 1 \in 1..Len(w) /\ 2 * o + Len(q) + 1 = 2 * o + k
      BY <1>1, <1>2, <2>2
    <3>2. w[1] = piece_of(l, 2 * o + Len(q) + 1)
      BY <3>1 DEF InTurn
    <3> QED BY <1>1, <2>2, <3>1, <3>2
  <2> QED BY <1>1, <1>2, <2>1, <2>2
<1>4. \A k \in 1..Len(w2) : w2[k] = piece_of(l, 2 * o + Len(q2) + k)
  <2> SUFFICES ASSUME NEW k \in 1..Len(w2)
               PROVE  w2[k] = piece_of(l, 2 * o + Len(q2) + k)
    OBVIOUS
  <2>1. k + 1 \in 1..Len(w) /\ w2[k] = w[k + 1] /\ 2 * o + Len(q2) + k = 2 * o + Len(q) + (k + 1)
    BY <1>1, <1>2
  <2>2. w[k + 1] = piece_of(l, 2 * o + Len(q) + (k + 1))
    BY <2>1 DEF InTurn
  <2> QED BY <2>1, <2>2
<1>5. Len(q2) + Len(w2) = 2 * (p - o)
  <2>1. Len(q2) + Len(w2) = Len(q) + Len(w)
    BY <1>1, <1>2
  <2> QED BY <1>2, <2>1
<1>6. InTurn(l, q2, w2, o, p)
  BY <1>3, <1>4, <1>5 DEF InTurn
<1> QED BY <1>6 DEF q2, w2

\* The first two pieces read are those of the next cell.
LEMMA TurnFront ==
  ASSUME NEW l, NEW q \in Seq(Pieces), NEW w \in Seq(Pieces), NEW o \in Nat, NEW p \in Nat, InTurn(l, q, w, o, p),
         Len(q) >= 2
  PROVE  q[1] = [of |-> cell_of(l, o + 1), piece |-> 1] /\ q[2] = [of |-> cell_of(l, o + 1), piece |-> 2]
PROOF
<1>1. q[1] = piece_of(l, 2 * o + 1) /\ q[2] = piece_of(l, 2 * o + 2)
  <2>1. 1 \in 1..Len(q) /\ 2 \in 1..Len(q)
    OBVIOUS
  <2>2. \A k \in 1..Len(q) : q[k] = piece_of(l, 2 * o + k)
    BY DEF InTurn
  <2> QED BY ONLY <2>1, <2>2
<1>2. ((2 * o + 1) + 1) \div 2 = o + 1 /\ 2 - ((2 * o + 1) % 2) = 1
  OBVIOUS
<1>3. ((2 * o + 2) + 1) \div 2 = o + 1 /\ 2 - ((2 * o + 2) % 2) = 2
  OBVIOUS
<1> QED BY <1>1, <1>2, <1>3 DEF piece_of

----------------------------------------------------------------------------
\* A link is a direction and a hop.
LEMMA LinkFacts ==
  /\ \A l \in Links : l = <<l[1], l[2]>> /\ l[1] \in {"out", "in"} /\ l[2] \in Hops
  /\ \A i \in Hops : <<"out", i>> \in Links /\ <<"in", i>> \in Links
BY DEF Links

\* The counts of cells put on and taken off a link are numbers.
LEMMA AtsAreNumbers ==
  ASSUME CcTypeOK, LinksUntouched
  PROVE  /\ \A i \in Hops : out_at(i) \in Nat /\ in_at(i) \in Nat
         /\ \A l \in Links : cells_off(l) \in Nat /\ cells_put(l) \in Nat
PROOF
<1>1. \A i \in Hops : out_at(i) \in Nat /\ in_at(i) \in Nat
  <2> SUFFICES ASSUME NEW i \in Hops
               PROVE  out_at(i) \in Nat /\ in_at(i) \in Nat
    OBVIOUS
  <2>1. relay[i].forward \in Nat /\ relay[i].backward \in Nat /\ Fresh0(i).forward \in Nat /\ Fresh0(i).backward \in Nat
    BY FreshFacts DEF CcTypeOK, Counts
  <2>2. out_at(i) >= 0 /\ in_at(i) >= 0
    BY DEF LinksUntouched
  <2> QED BY <2>1, <2>2 DEF out_at, in_at
<1>2. sent \in Nat /\ Len(backGot) \in Nat
  BY DEF CcTypeOK
<1>3. ASSUME NEW l \in Links
      PROVE  cells_off(l) \in Nat /\ cells_put(l) \in Nat
  <2>1. l[2] \in Hops /\ (l[2] # 1 => l[2] - 1 \in Hops)
    <3>1. l[2] \in 1..N /\ N \in Nat /\ Hops = 1..N
      BY LinkFacts, HopsFacts
    <3> HIDE DEF N
    <3> QED BY <3>1
  <2> QED BY <1>1, <1>2, <2>1 DEF cells_off, cells_put
<1> QED BY <1>1, <1>3

\* A link that a step leaves as it was, and its counts, is in turn as before.
LEMMA TurnKept ==
  ASSUME LinksUntouched, NEW l \in Links, rbuf'[l] = rbuf[l], wire'[l] = wire[l],
         cells_off(l)' = cells_off(l), cells_put(l)' = cells_put(l)
  PROVE  InTurn(l, rbuf'[l], wire'[l], cells_off(l)', cells_put(l)')
BY DEF LinksUntouched

\* The client sends: the cell has the next number.
LEMMA SendDataSafe ==
  ASSUME CcInv, SendData
  PROVE  CcTypeOK' /\ CountsFollow' /\ InOrder'
PROOF
<1> DEFINE ats == [i \in Hops |-> client[i].forward]
           c == cell("out", ats, sent')
           l == <<"out", 1>>
<1>1. CcTypeOK /\ CountsFollow /\ InOrder
  BY DEF CcInv
<1>2. c \in Cells /\ l \in Links
  <2>1. \A i \in Hops : client[i].forward \in Nat
    BY <1>1 DEF CcTypeOK, Counts
  <2>2. ats \in [Hops -> Nat] /\ ats[N] = sent /\ sent' = sent + 1 /\ sent \in Nat
    BY <1>1, <2>1, HopsFacts DEF CountsFollow, SendData, CcTypeOK
  <2> HIDE DEF ats
  <2>3. c \in Cells
    BY <2>2 DEF Cells, cell
  <2> QED BY <2>3, HopsFacts, LinkFacts
<1>3. wire' \in [Links -> Seq(Pieces)]
  <2>1. wire' = [wire EXCEPT ![l] = @ \o frame(c)]
    BY DEF SendData
  <2> HIDE DEF c, l
  <2> QED BY <1>1, <1>2, <2>1, WirePut
<1>4. client' \in Counts /\ client'[N].forward = client[N].forward + 1 /\ client'[N].backward = client[N].backward
  <2>1. client' = [i \in Hops |-> [client[i] EXCEPT !.forward = @ + 1]]
    BY DEF SendData
  <2>2. \A i \in Hops : client[i] \in [forward : Nat, backward : Nat]
    BY <1>1 DEF CcTypeOK, Counts
  <2>3. \A i \in Hops : /\ client'[i] \in [forward : Nat, backward : Nat]
                        /\ client'[i].forward = client[i].forward + 1 /\ client'[i].backward = client[i].backward
    <3> SUFFICES ASSUME NEW i \in Hops
                 PROVE  /\ client'[i] \in [forward : Nat, backward : Nat]
                        /\ client'[i].forward = client[i].forward + 1 /\ client'[i].backward = client[i].backward
      OBVIOUS
    <3>1. PICK u \in [forward : Nat, backward : Nat] : u = client[i]
      BY <2>2
    <3>2. client'[i] = [u EXCEPT !.forward = @ + 1]
      BY <2>1, <3>1
    <3> QED BY ONLY <3>1, <3>2
  <2> QED BY <2>1, <2>3, HopsFacts DEF Counts
<1>5. rbuf' = rbuf
  BY <1>1 DEF SendData, kept, CcTypeOK
<1>6. CcTypeOK'
  <2>1. /\ sent' = sent + 1 /\ back' = back /\ got' = got /\ backGot' = backGot /\ tampers' = tampers /\ relay' = relay
    BY DEF SendData
  <2> QED BY <1>1, <1>3, <1>4, <1>5, <2>1 DEF CcTypeOK
<1>7. CountsFollow'
  BY <1>1, <1>4 DEF SendData, CountsFollow
<1>8. InOrder'
  BY <1>1 DEF SendData, InOrder
<1> QED BY <1>6, <1>7, <1>8

\* The client sends, and nobody tampered: it is the next on the first link.
LEMMA SendDataUntouched ==
  ASSUME CcInv, SendData, tampers' = 0
  PROVE  LinksUntouched'
PROOF
<1> DEFINE l1 == <<"out", 1>>
           c == cell("out", [i \in Hops |-> client[i].forward], sent')
<1>1. CcTypeOK /\ LinksUntouched
  BY DEF CcInv, SendData
<1>2. /\ sent' = sent + 1 /\ sent \in Nat /\ back' = back /\ got' = got /\ backGot' = backGot /\ relay' = relay /\ up' = up
      /\ rbuf' = rbuf
      /\ wire' = [wire EXCEPT ![l1] = @ \o frame(c)]
      /\ client' = [i \in Hops |-> [client[i] EXCEPT !.forward = @ + 1]]
  BY <1>1 DEF SendData, CcTypeOK, kept
<1>3. c = cell_of(l1, sent + 1)
  <2>1. \A j \in Hops : client[j].forward = 2 * (N - j) + (sent + 1) - 1
    <3> SUFFICES ASSUME NEW j \in Hops
                 PROVE  client[j].forward = 2 * (N - j) + (sent + 1) - 1
      OBVIOUS
    <3>1. client[j].forward = 2 * (N - j) + sent /\ 2 * (N - j) \in Nat
      BY <1>1, FreshFacts DEF LinksUntouched
    <3> QED BY <1>2, <3>1
  <2> QED BY <1>2, <2>1 DEF cell_of, cell
<1> HIDE DEF c
<1>4. \A i \in Hops : out_at(i)' = out_at(i) /\ in_at(i)' = in_at(i)
  BY <1>2 DEF out_at, in_at
<1>5. \A i \in Hops : /\ client'[i].forward = 2 * (N - i) + sent' /\ client'[i].backward = 2 * (N - i) + Len(backGot')
  <2> SUFFICES ASSUME NEW i \in Hops
               PROVE  client'[i].forward = 2 * (N - i) + sent' /\ client'[i].backward = 2 * (N - i) + Len(backGot')
    OBVIOUS
  <2>1. client[i].forward = 2 * (N - i) + sent /\ client[i].backward = 2 * (N - i) + Len(backGot) /\ 2 * (N - i) \in Nat
    BY <1>1, FreshFacts DEF LinksUntouched
  <2>2. client'[i].forward = client[i].forward + 1 /\ client'[i].backward = client[i].backward
    BY <1>1, <1>2 DEF CcTypeOK, Counts
  <2> QED BY <1>2, <2>1, <2>2
<1>6. ASSUME NEW l \in Links
      PROVE  InTurn(l, rbuf'[l], wire'[l], cells_off(l)', cells_put(l)')
  <2>1. cells_off(l)' = cells_off(l)
    BY <1>2 DEF cells_off, out_at, in_at
  <2>2. CASE l = l1
    <3>1. cells_put(l) = sent /\ cells_put(l)' = sent + 1
      BY <1>2, <2>2 DEF cells_put
    <3>2. wire'[l] = wire[l] \o frame(cell_of(l, sent + 1)) /\ rbuf'[l] = rbuf[l]
      BY <1>1, <1>2, <1>3, <2>2 DEF CcTypeOK
    <3>3. InTurn(l, rbuf[l], wire[l], cells_off(l), sent) /\ cells_off(l) \in Nat
      BY <1>1, <3>1, AtsAreNumbers DEF LinksUntouched
    <3>4. rbuf[l] \in Seq(Pieces) /\ wire[l] \in Seq(Pieces)
      BY <1>1 DEF CcTypeOK
    <3>5. InTurn(l, rbuf[l], wire[l] \o frame(cell_of(l, sent + 1)), cells_off(l), sent + 1)
      BY <1>2, <3>3, <3>4, TurnPut
    <3> QED BY <2>1, <3>1, <3>2, <3>5
  <2>3. CASE l # l1
    <3>1. cells_put(l)' = cells_put(l)
      BY <1>2, <2>3, LinkFacts DEF cells_put, out_at, in_at
    <3>2. wire'[l] = wire[l] /\ rbuf'[l] = rbuf[l]
      BY <1>1, <1>2, <2>3 DEF CcTypeOK
    <3> QED BY <1>1, <2>1, <3>1, <3>2, TurnKept
  <2> QED BY <2>2, <2>3
<1> QED BY <1>1, <1>2, <1>4, <1>5, <1>6 DEF LinksUntouched

\* What is at the front of a link nobody tampered with: the next cell, whole.
LEMMA FrontIsNext ==
  ASSUME CcTypeOK, LinksUntouched, NEW l \in Links, whole(l)
  PROVE  in_step(l) /\ taken(l) = cell_of(l, cells_off(l) + 1)
PROOF
<1>1. rbuf[l] \in Seq(Pieces) /\ wire[l] \in Seq(Pieces) /\ cells_off(l) \in Nat /\ cells_put(l) \in Nat /\ Len(rbuf[l]) >= 2
  BY AtsAreNumbers DEF CcTypeOK, whole
<1>2. InTurn(l, rbuf[l], wire[l], cells_off(l), cells_put(l))
  BY DEF LinksUntouched
<1>3. /\ rbuf[l][1] = [of |-> cell_of(l, cells_off(l) + 1), piece |-> 1]
      /\ rbuf[l][2] = [of |-> cell_of(l, cells_off(l) + 1), piece |-> 2]
  BY <1>1, <1>2, TurnFront
<1> QED BY <1>3 DEF in_step, taken

\* A link whose front cell was used.
LEMMA FrontUsed ==
  ASSUME CcTypeOK, LinksUntouched, NEW l \in Links, whole(l), rbuf' = used(l), wire'[l] = wire[l],
         cells_off(l)' = cells_off(l) + 1, cells_put(l)' = cells_put(l)
  PROVE  InTurn(l, rbuf'[l], wire'[l], cells_off(l)', cells_put(l)')
PROOF
<1>1. rbuf[l] \in Seq(Pieces) /\ wire[l] \in Seq(Pieces) /\ cells_off(l) \in Nat /\ cells_put(l) \in Nat /\ Len(rbuf[l]) >= 2
  BY AtsAreNumbers DEF CcTypeOK, whole
<1>2. InTurn(l, rbuf[l], wire[l], cells_off(l), cells_put(l))
  BY DEF LinksUntouched
<1>3. InTurn(l, SubSeq(rbuf[l], 3, Len(rbuf[l])), wire[l], cells_off(l) + 1, cells_put(l))
  BY <1>1, <1>2, TurnUse
<1>4. rbuf'[l] = SubSeq(rbuf[l], 3, Len(rbuf[l]))
  BY DEF used, CcTypeOK
<1> QED BY <1>3, <1>4

\* A link on which the next cell was put.
LEMMA NextPut ==
  ASSUME CcTypeOK, LinksUntouched, NEW l \in Links, NEW c, c = cell_of(l, cells_put(l) + 1), wire' = [wire EXCEPT ![l] = @ \o frame(c)],
         rbuf'[l] = rbuf[l], cells_off(l)' = cells_off(l), cells_put(l)' = cells_put(l) + 1
  PROVE  InTurn(l, rbuf'[l], wire'[l], cells_off(l)', cells_put(l)')
PROOF
<1>1. rbuf[l] \in Seq(Pieces) /\ wire[l] \in Seq(Pieces) /\ cells_off(l) \in Nat /\ cells_put(l) \in Nat
  BY AtsAreNumbers DEF CcTypeOK
<1>2. InTurn(l, rbuf[l], wire[l], cells_off(l), cells_put(l))
  BY DEF LinksUntouched
<1>3. InTurn(l, rbuf[l], wire[l] \o frame(cell_of(l, cells_put(l) + 1)), cells_off(l), cells_put(l) + 1)
  BY <1>1, <1>2, TurnPut
<1>4. wire'[l] = wire[l] \o frame(c)
  BY DEF CcTypeOK
<1> QED BY <1>3, <1>4

\* The client takes a cell only when its number is next.
LEMMA RecvRawSafe ==
  ASSUME CcInv, RecvRaw
  PROVE  CcTypeOK' /\ CountsFollow' /\ InOrder'
PROOF
<1> DEFINE l == <<"in", 1>>
           c == taken(l)
<1>1. CcTypeOK /\ CountsFollow /\ InOrder /\ l \in Links
  BY HopsFacts, LinkFacts DEF CcInv
<1>2. /\ whole(l) /\ rbuf' = used(l) /\ sent' = sent /\ back' = back /\ got' = got /\ relay' = relay /\ wire' = wire
      /\ tampers' = tampers
      /\ \/ /\ in_step(l) /\ opens_backward(c) /\ backGot' = Append(backGot, c.pay)
            /\ client' = [i \in Hops |-> [client[i] EXCEPT !.backward = @ + 1]]
         \/ backGot' = backGot /\ client' = client
  BY DEF RecvRaw
<1>3. c \in Cells /\ rbuf' \in [Links -> Seq(Pieces)]
  BY <1>1, <1>2, TakenFacts
<1> HIDE DEF c, l
<1>4. CASE backGot' = backGot /\ client' = client
  <2>1. CcTypeOK'
    BY <1>1, <1>2, <1>3, <1>4 DEF CcTypeOK
  <2> QED BY <1>1, <1>2, <1>4, <2>1 DEF CountsFollow, InOrder
<1>5. CASE /\ opens_backward(c) /\ backGot' = Append(backGot, c.pay)
           /\ client' = [i \in Hops |-> [client[i] EXCEPT !.backward = @ + 1]]
  <2>1. c.pay \in Nat /\ c.pay = c.at[N] + 1
    BY <1>3 DEF Cells
  <2>2. c.at[N] = Len(backGot)
    BY <1>1, <1>5, HopsFacts DEF opens_backward, CountsFollow
  <2>3. \A i \in Hops : client[i] \in [forward : Nat, backward : Nat]
    BY <1>1 DEF CcTypeOK, Counts
  <2>4. \A i \in Hops : /\ client'[i] \in [forward : Nat, backward : Nat]
                        /\ client'[i].backward = client[i].backward + 1 /\ client'[i].forward = client[i].forward
    <3> SUFFICES ASSUME NEW i \in Hops
                 PROVE  /\ client'[i] \in [forward : Nat, backward : Nat]
                        /\ client'[i].backward = client[i].backward + 1 /\ client'[i].forward = client[i].forward
      OBVIOUS
    <3>1. PICK u \in [forward : Nat, backward : Nat] : u = client[i]
      BY <2>3
    <3>2. client'[i] = [u EXCEPT !.backward = @ + 1]
      BY <1>5, <3>1
    <3> QED BY ONLY <3>1, <3>2
  <2>5. client' \in Counts
    BY <1>5, <2>4 DEF Counts
  <2>6. backGot \in Seq(Nat)
    BY <1>1 DEF CcTypeOK
  <2>7. /\ backGot' \in Seq(Nat) /\ Len(backGot') = Len(backGot) + 1
        /\ \A k \in 1..Len(backGot) : backGot'[k] = backGot[k]
        /\ backGot'[Len(backGot) + 1] = c.pay
    BY <1>5, <2>1, <2>6
  <2>8. CcTypeOK'
    BY <1>1, <1>2, <1>3, <2>5, <2>7 DEF CcTypeOK
  <2>9. CountsFollow'
    BY <1>1, <1>2, <2>4, <2>7, HopsFacts DEF CountsFollow
  <2>10. InOrder'
    <3>1. ASSUME NEW k \in DOMAIN backGot'
          PROVE  backGot'[k] = k
      <4>1. k \in 1..(Len(backGot) + 1) /\ Len(backGot) \in Nat
        BY <2>6, <2>7
      <4>2. CASE k = Len(backGot) + 1
        BY <2>1, <2>2, <2>7, <4>2
      <4>3. CASE k \in 1..Len(backGot)
        BY <1>1, <2>6, <2>7, <4>3 DEF InOrder
      <4> QED BY <4>1, <4>2, <4>3
    <3> QED BY <1>1, <1>2, <3>1 DEF InOrder
  <2> QED BY <2>8, <2>9, <2>10
<1> QED BY <1>2, <1>4, <1>5

\* The client takes a cell, and nobody tampered: it opens.
LEMMA RecvRawUntouched ==
  ASSUME CcInv, RecvRaw, tampers' = 0
  PROVE  LinksUntouched'
PROOF
<1> DEFINE l1 == <<"in", 1>>
<1>1. CcTypeOK /\ LinksUntouched /\ l1 \in Links /\ l1[1] = "in" /\ l1[2] = 1
  BY HopsFacts, LinkFacts DEF CcInv, RecvRaw
<1>2. whole(l1) /\ rbuf' = used(l1) /\ sent' = sent /\ relay' = relay /\ wire' = wire
  BY DEF RecvRaw
<1>3. in_step(l1) /\ taken(l1) = cell_of(l1, cells_off(l1) + 1)
  BY <1>1, <1>2, FrontIsNext
<1>4. cells_off(l1) = Len(backGot) /\ Len(backGot) \in Nat /\ backGot \in Seq(Nat)
  BY <1>1 DEF cells_off, CcTypeOK
<1>5. opens_backward(taken(l1))
  <2>1. taken(l1) = cell("in", [j \in Hops |-> 2 * (N - j) + (Len(backGot) + 1) - 1], Len(backGot) + 1)
    <3>1. \A j \in Hops : j >= 1
      BY HopsFacts
    <3> QED BY <1>1, <1>3, <1>4, <3>1 DEF cell_of
  <2>2. \A j \in Hops : 2 * (N - j) + (Len(backGot) + 1) - 1 = client[j].backward
    <3> SUFFICES ASSUME NEW j \in Hops
                 PROVE  2 * (N - j) + (Len(backGot) + 1) - 1 = client[j].backward
      OBVIOUS
    <3>1. client[j].backward = 2 * (N - j) + Len(backGot) /\ 2 * (N - j) \in Nat
      BY <1>1, FreshFacts DEF LinksUntouched
    <3> QED BY <1>4, <3>1
  <2> QED BY <2>1, <2>2 DEF opens_backward, cell
<1>6. /\ backGot' = Append(backGot, taken(l1).pay) /\ up' = up
      /\ client' = [i \in Hops |-> [client[i] EXCEPT !.backward = @ + 1]]
  BY <1>3, <1>5 DEF RecvRaw
<1>7. Len(backGot') = Len(backGot) + 1
  BY <1>4, <1>6
<1> HIDE DEF l1
<1>8. \A i \in Hops : out_at(i)' = out_at(i) /\ in_at(i)' = in_at(i)
  BY <1>2 DEF out_at, in_at
<1>9. ASSUME NEW i \in Hops
      PROVE  client'[i].forward = 2 * (N - i) + sent' /\ client'[i].backward = 2 * (N - i) + Len(backGot')
  <2>1. client[i].forward = 2 * (N - i) + sent /\ client[i].backward = 2 * (N - i) + Len(backGot) /\ 2 * (N - i) \in Nat
    BY <1>1, FreshFacts DEF LinksUntouched
  <2>2. client'[i].backward = client[i].backward + 1 /\ client'[i].forward = client[i].forward
    BY <1>1, <1>6 DEF CcTypeOK, Counts
  <2> QED BY <1>2, <1>4, <1>7, <2>1, <2>2
<1>10. ASSUME NEW l \in Links
       PROVE  InTurn(l, rbuf'[l], wire'[l], cells_off(l)', cells_put(l)')
  <2>1. cells_put(l)' = cells_put(l) /\ wire'[l] = wire[l]
    BY <1>2 DEF cells_put, out_at, in_at
  <2>2. CASE l = l1
    <3>1. cells_off(l)' = cells_off(l) + 1
      BY <1>1, <1>4, <1>7, <2>2 DEF cells_off
    <3> QED BY <1>1, <1>2, <2>1, <2>2, <3>1, FrontUsed
  <2>3. CASE l # l1
    <3>1. l[1] = "in" => l[2] # 1
      BY <2>3, LinkFacts DEF l1
    <3>2. cells_off(l)' = cells_off(l)
      BY <1>2, <3>1, LinkFacts DEF cells_off, out_at, in_at
    <3>3. rbuf'[l] = rbuf[l]
      BY <1>1, <1>2, <2>3 DEF used, CcTypeOK
    <3> QED BY <1>1, <2>1, <3>2, <3>3, TurnKept
  <2> QED BY <2>2, <2>3
<1> QED BY <1>1, <1>6, <1>8, <1>9, <1>10 DEF LinksUntouched

\* What a hop's step does to its counts.
LEMMA HopCounts ==
  ASSUME CcTypeOK, NEW i \in Hops
  PROVE  /\ [relay EXCEPT ![i].forward = @ + 1] \in Counts
         /\ [relay EXCEPT ![i].backward = @ + 1] \in Counts
         /\ [relay EXCEPT ![i].forward = @ + 1][i].forward = relay[i].forward + 1
         /\ [relay EXCEPT ![i].forward = @ + 1][i].backward = relay[i].backward
         /\ [relay EXCEPT ![i].backward = @ + 1][i].backward = relay[i].backward + 1
         /\ [relay EXCEPT ![i].backward = @ + 1][i].forward = relay[i].forward
         /\ \A j \in Hops \ {i} : /\ [relay EXCEPT ![i].forward = @ + 1][j] = relay[j]
                                  /\ [relay EXCEPT ![i].backward = @ + 1][j] = relay[j]
PROOF
<1>1. relay \in [Hops -> [forward : Nat, backward : Nat]] /\ relay[i] \in [forward : Nat, backward : Nat]
  BY DEF CcTypeOK, Counts
<1>2. /\ [relay[i] EXCEPT !.forward = @ + 1] \in [forward : Nat, backward : Nat]
      /\ [relay[i] EXCEPT !.backward = @ + 1] \in [forward : Nat, backward : Nat]
  BY <1>1
<1> QED BY <1>1, <1>2 DEF Counts

\* A hop peels a cell; the exit takes it only when its number is next.
LEMMA FromClientSafe ==
  ASSUME CcInv, NEW i \in Hops, FromClient(i)
  PROVE  CcTypeOK' /\ CountsFollow' /\ InOrder'
PROOF
<1> DEFINE l == <<"out", i>>
           c == taken(l)
<1>1. CcTypeOK /\ CountsFollow /\ InOrder /\ l \in Links
  BY LinkFacts DEF CcInv
<1>2. /\ whole(l) /\ sent' = sent /\ back' = back /\ backGot' = backGot /\ client' = client /\ tampers' = tampers
      /\ \/ /\ opens_forward(i, c) /\ relay' = [relay EXCEPT ![i].forward = @ + 1]
            /\ \/ i < N /\ wire' = [wire EXCEPT ![<<"out", i + 1>>] = @ \o frame(c)] /\ got' = got
               \/ ~(i < N) /\ got' = Append(got, c.pay) /\ wire' = wire
         \/ relay' = relay /\ wire' = wire /\ got' = got
      /\ rbuf' = IF i < N THEN read_next(l, <<"in", i + 1>>) ELSE used(l)
  BY DEF FromClient
<1>3. c \in Cells /\ used(l) \in [Links -> Seq(Pieces)]
  BY <1>1, <1>2, TakenFacts
<1>4. i < N => i + 1 \in Hops
  BY HopsFacts
<1>5. i < N => <<"out", i + 1>> \in Links /\ <<"in", i + 1>> \in Links /\ l # <<"in", i + 1>>
  BY <1>4, LinkFacts
<1>6. rbuf' = used(l)
  BY <1>1, <1>2, <1>5, ReadNextFacts
<1>7. i = N \/ i < N
  BY HopsFacts
<1> HIDE DEF c, l
<1>8. CASE relay' = relay /\ wire' = wire /\ got' = got
  <2>1. CcTypeOK'
    BY <1>1, <1>2, <1>3, <1>6, <1>8 DEF CcTypeOK
  <2> QED BY <1>1, <1>2, <1>8, <2>1 DEF CountsFollow, InOrder
<1>9. CASE relay' = [relay EXCEPT ![i].forward = @ + 1] /\ i < N /\ wire' = [wire EXCEPT ![<<"out", i + 1>>] = @ \o frame(c)] /\ got' = got
  <2>1. relay' \in Counts /\ relay'[N] = relay[N]
    <3>1. N \in Hops \ {i}
      BY <1>9, HopsFacts
    <3> QED BY <1>1, <1>9, <3>1, HopCounts
  <2>2. wire' \in [Links -> Seq(Pieces)]
    BY <1>1, <1>3, <1>5, <1>9, WirePut
  <2>3. CcTypeOK'
    BY <1>1, <1>2, <1>3, <1>6, <1>9, <2>1, <2>2 DEF CcTypeOK
  <2> QED BY <1>1, <1>2, <1>9, <2>1, <2>3 DEF CountsFollow, InOrder
<1>10. CASE opens_forward(i, c) /\ relay' = [relay EXCEPT ![i].forward = @ + 1] /\ ~(i < N) /\ got' = Append(got, c.pay) /\ wire' = wire
  <2>0. i = N
    BY <1>7, <1>10
  <2>1. relay' \in Counts /\ relay'[N].forward = relay[N].forward + 1 /\ relay'[N].backward = relay[N].backward
    BY <1>1, <1>10, <2>0, HopCounts
  <2>2. c.pay \in Nat /\ c.pay = c.at[N] + 1 /\ c.at[N] = Len(got)
    BY <1>1, <1>3, <1>10, <2>0 DEF Cells, opens_forward, CountsFollow
  <2>3. got \in Seq(Nat)
    BY <1>1 DEF CcTypeOK
  <2>4. /\ got' \in Seq(Nat) /\ Len(got') = Len(got) + 1
        /\ \A k \in 1..Len(got) : got'[k] = got[k]
        /\ got'[Len(got) + 1] = c.pay
    BY <1>10, <2>2, <2>3
  <2>5. CcTypeOK'
    BY <1>1, <1>2, <1>3, <1>6, <1>10, <2>1, <2>4 DEF CcTypeOK
  <2>6. CountsFollow'
    BY <1>1, <1>2, <2>1, <2>4 DEF CountsFollow
  <2>7. InOrder'
    <3>1. ASSUME NEW k \in DOMAIN got'
          PROVE  got'[k] = k
      <4>1. k \in 1..(Len(got) + 1) /\ Len(got) \in Nat
        BY <2>3, <2>4
      <4>2. CASE k = Len(got) + 1
        BY <2>2, <2>4, <4>2
      <4>3. CASE k \in 1..Len(got)
        BY <1>1, <2>3, <2>4, <4>3 DEF InOrder
      <4> QED BY <4>1, <4>2, <4>3
    <3> QED BY <1>1, <1>2, <3>1 DEF InOrder
  <2> QED BY <2>5, <2>6, <2>7
<1> QED BY <1>2, <1>8, <1>9, <1>10

\* A hop peels a cell, and nobody tampered: it opens, and is next on the next link.
LEMMA FromClientUntouched ==
  ASSUME CcInv, NEW i \in Hops, FromClient(i), tampers' = 0
  PROVE  LinksUntouched'
PROOF
<1> DEFINE l1 == <<"out", i>>
           l2 == <<"out", i + 1>>
           c == taken(l1)
<1>1. CcTypeOK /\ LinksUntouched /\ l1 \in Links /\ l1[1] = "out" /\ l1[2] = i
  BY LinkFacts DEF CcInv, FromClient
<1>2. /\ whole(l1) /\ sent' = sent /\ backGot' = backGot /\ client' = client
      /\ rbuf' = IF i < N THEN read_next(l1, <<"in", i + 1>>) ELSE used(l1)
  BY DEF FromClient
<1>3. in_step(l1) /\ c = cell_of(l1, out_at(i) + 1)
  BY <1>1, <1>2, FrontIsNext DEF cells_off
<1>4. out_at(i) \in Nat /\ relay[i].forward \in Nat /\ N \in Nat /\ i \in Nat /\ 2 * (N - i) \in Nat /\ Fresh0(i).forward = 2 * (N - i)
  <2>1. out_at(i) \in Nat
    BY <1>1, AtsAreNumbers
  <2>2. relay[i].forward \in Nat
    BY <1>1 DEF CcTypeOK, Counts
  <2>3. N \in Nat /\ i \in Nat
    BY HopsFacts
  <2> QED BY <2>1, <2>2, <2>3, FreshFacts
<1>5. opens_forward(i, c)
  <2>1. c.way = "out" /\ c.at[i] = 2 * (N - i) + (out_at(i) + 1) - 1
    BY <1>1, <1>3 DEF cell_of, cell
  <2>2. out_at(i) = relay[i].forward - 2 * (N - i)
    BY <1>4 DEF out_at
  <2>3. 2 * (N - i) + (out_at(i) + 1) - 1 = relay[i].forward
    BY <1>4, <2>2
  <2> QED BY <2>1, <2>3 DEF opens_forward
<1>6. /\ relay' = [relay EXCEPT ![i].forward = @ + 1] /\ up' = up
      /\ i < N => wire' = [wire EXCEPT ![l2] = @ \o frame(c)]
      /\ ~(i < N) => wire' = wire
  BY <1>3, <1>5 DEF FromClient
<1>7. i < N => i + 1 \in Hops /\ l2 \in Links /\ <<"in", i + 1>> \in Links /\ l1 # <<"in", i + 1>>
  <2>1. i < N => i + 1 \in Hops
    BY HopsFacts
  <2> QED BY <2>1, LinkFacts
<1>8. rbuf' = used(l1)
  BY <1>1, <1>2, <1>7, ReadNextFacts
<1>9. /\ out_at(i)' = out_at(i) + 1 /\ \A j \in Hops \ {i} : out_at(j)' = out_at(j)
      /\ \A j \in Hops : in_at(j)' = in_at(j)
  <2>1. /\ relay'[i].forward = relay[i].forward + 1 /\ relay'[i].backward = relay[i].backward
        /\ \A j \in Hops \ {i} : relay'[j] = relay[j]
    BY <1>1, <1>6, HopCounts
  <2>2. out_at(i)' = out_at(i) + 1
    BY <1>4, <2>1 DEF out_at
  <2> QED BY <2>1, <2>2 DEF out_at, in_at
<1>10. i < N => c = cell_of(l2, out_at(i) + 1)
  BY <1>1, <1>3 DEF cell_of
<1> HIDE DEF c
<1>11. ASSUME NEW l \in Links
       PROVE  InTurn(l, rbuf'[l], wire'[l], cells_off(l)', cells_put(l)')
  <2>0. l = <<l[1], l[2]>> /\ l[1] \in {"out", "in"} /\ l[2] \in Hops /\ (l[2] # 1 => l[2] - 1 \in Hops /\ (l[2] - 1) + 1 = l[2])
    <3>1. l = <<l[1], l[2]>> /\ l[1] \in {"out", "in"} /\ l[2] \in Hops
      BY LinkFacts
    <3> QED BY <3>1, HopsFacts
  <2>1. CASE l = l1
    <3>1. cells_off(l)' = cells_off(l) + 1
      BY <1>1, <1>9, <2>1 DEF cells_off
    <3>2. cells_put(l)' = cells_put(l)
      <4>1. i # 1 => i - 1 \in Hops \ {i}
        BY <1>1, <1>4, <2>0, <2>1
      <4> QED BY <1>1, <1>2, <1>9, <2>1, <4>1 DEF cells_put
    <3>3. wire'[l] = wire[l]
      <4>1. l1 # l2
        BY <1>4
      <4> QED BY <1>1, <1>6, <2>1, <4>1 DEF CcTypeOK
    <3> QED BY <1>1, <1>2, <1>8, <2>1, <3>1, <3>2, <3>3, FrontUsed
  <2>2. CASE i < N /\ l = l2
    <3>1. l[1] = "out" /\ l[2] = i + 1 /\ l # l1 /\ i + 1 \in Hops \ {i} /\ i + 1 # 1 /\ (i + 1) - 1 = i
      BY <1>4, <1>7, <2>2, HopsFacts
    <3>2. cells_off(l)' = cells_off(l)
      BY <1>9, <3>1 DEF cells_off
    <3>3. cells_put(l) = out_at(i) /\ cells_put(l)' = out_at(i) + 1
      BY <1>9, <3>1 DEF cells_put
    <3>4. rbuf'[l] = rbuf[l]
      BY <1>1, <1>8, <3>1 DEF used, CcTypeOK
    <3>5. c = cell_of(l, cells_put(l) + 1) /\ wire' = [wire EXCEPT ![l] = @ \o frame(c)]
      BY <1>6, <1>10, <2>2, <3>3
    <3> QED BY <1>1, <3>2, <3>3, <3>4, <3>5, NextPut
  <2>3. CASE l # l1 /\ ~(i < N /\ l = l2)
    <3>1. l[1] = "out" => l[2] # i
      BY <2>0, <2>3
    <3>2. cells_off(l)' = cells_off(l)
      BY <1>2, <1>9, <2>0, <3>1 DEF cells_off
    <3>3. l[1] = "out" /\ l[2] # 1 => l[2] - 1 \in Hops \ {i}
      <4> SUFFICES ASSUME l[1] = "out", l[2] # 1, l[2] - 1 = i
                   PROVE  FALSE
        BY <2>0
      <4>1. l[2] = i + 1 /\ i < N
        BY <2>0, HopsFacts
      <4> QED BY <2>0, <2>3, <4>1
    <3>4. cells_put(l)' = cells_put(l)
      BY <1>2, <1>9, <2>0, <3>3 DEF cells_put
    <3>5. wire'[l] = wire[l] /\ rbuf'[l] = rbuf[l]
      BY <1>1, <1>6, <1>7, <1>8, <2>3 DEF used, CcTypeOK
    <3> QED BY <1>1, <3>2, <3>4, <3>5, TurnKept
  <2> QED BY <2>1, <2>2, <2>3
<1>12. \A j \in Hops : out_at(j)' >= 0 /\ in_at(j)' >= 0
  BY <1>1, <1>4, <1>9, AtsAreNumbers
<1> QED BY <1>1, <1>2, <1>6, <1>11, <1>12 DEF LinksUntouched

\* A hop adds its layer; the exit's count on the cell stays.
LEMMA FromNextSafe ==
  ASSUME CcInv, NEW i \in Hops, FromNext(i)
  PROVE  CcTypeOK' /\ CountsFollow' /\ InOrder'
PROOF
<1> DEFINE l == <<"in", i + 1>>
           c == taken(l)
           layered == [c.at EXCEPT ![i] = relay[i].backward]
           d == [c EXCEPT !.at = layered]
<1>0. i < N /\ i + 1 \in Hops /\ N \in Hops \ {i}
  BY HopsFacts DEF FromNext
<1>1. CcTypeOK /\ CountsFollow /\ InOrder /\ l \in Links /\ <<"in", i>> \in Links /\ <<"out", i>> \in Links /\ l # <<"out", i>>
  BY <1>0, LinkFacts DEF CcInv
<1>2. /\ whole(l) /\ sent' = sent /\ back' = back /\ got' = got /\ backGot' = backGot /\ client' = client /\ tampers' = tampers
      /\ \/ wire' = [wire EXCEPT ![<<"in", i>>] = @ \o frame(d)] /\ relay' = [relay EXCEPT ![i].backward = @ + 1]
         \/ relay' = relay /\ wire' = wire
      /\ rbuf' = read_next(l, <<"out", i>>)
  BY DEF FromNext
<1>3. c \in Cells /\ used(l) \in [Links -> Seq(Pieces)]
  BY <1>1, <1>2, TakenFacts
<1>4. rbuf' = used(l)
  BY <1>1, <1>2, ReadNextFacts
<1>5. relay[i].backward \in Nat
  BY <1>1 DEF CcTypeOK, Counts
<1> HIDE DEF c, l
<1>6. d \in Cells
  <2>1. c \in [way : {"out", "in"}, at : [Hops -> Nat], pay : Nat] /\ c.pay = c.at[N] + 1
    BY <1>3 DEF Cells
  <2>2. layered \in [Hops -> Nat] /\ layered[N] = c.at[N]
    BY <1>0, <1>5, <2>1
  <2> HIDE DEF layered
  <2>3. d \in [way : {"out", "in"}, at : [Hops -> Nat], pay : Nat] /\ d.at = layered /\ d.pay = c.pay
    BY <2>1, <2>2
  <2> QED BY <2>1, <2>2, <2>3 DEF Cells
<1> HIDE DEF d, layered
<1>7. CASE relay' = relay /\ wire' = wire
  <2>1. CcTypeOK'
    BY <1>1, <1>2, <1>3, <1>4, <1>7 DEF CcTypeOK
  <2> QED BY <1>1, <1>2, <1>7, <2>1 DEF CountsFollow, InOrder
<1>8. CASE wire' = [wire EXCEPT ![<<"in", i>>] = @ \o frame(d)] /\ relay' = [relay EXCEPT ![i].backward = @ + 1]
  <2>1. relay' \in Counts /\ relay'[N] = relay[N]
    BY <1>0, <1>1, <1>8, HopCounts
  <2>2. wire' \in [Links -> Seq(Pieces)]
    BY <1>1, <1>6, <1>8, WirePut
  <2>3. CcTypeOK'
    BY <1>1, <1>2, <1>3, <1>4, <2>1, <2>2 DEF CcTypeOK
  <2> QED BY <1>1, <1>2, <2>1, <2>3 DEF CountsFollow, InOrder
<1> QED BY <1>2, <1>7, <1>8

\* A hop adds its layer, and nobody tampered: the cell is next on the link before.
LEMMA FromNextUntouched ==
  ASSUME CcInv, NEW i \in Hops, FromNext(i), tampers' = 0
  PROVE  LinksUntouched'
PROOF
<1> DEFINE l1 == <<"in", i + 1>>
           l2 == <<"in", i>>
           c == taken(l1)
           layered == [c.at EXCEPT ![i] = relay[i].backward]
           d == [c EXCEPT !.at = layered]
<1>0. i < N /\ i + 1 \in Hops /\ i \in Nat /\ N \in Nat /\ (i + 1) - 1 = i /\ i + 1 # 1
  BY HopsFacts DEF FromNext
<1>1. /\ CcTypeOK /\ LinksUntouched /\ l1 \in Links /\ l2 \in Links /\ l1[1] = "in" /\ l1[2] = i + 1 /\ l2[1] = "in" /\ l2[2] = i
      /\ <<"out", i>> \in Links /\ l1 # <<"out", i>>
  BY <1>0, LinkFacts DEF CcInv, FromNext
<1>2. /\ whole(l1) /\ sent' = sent /\ backGot' = backGot /\ client' = client
      /\ rbuf' = read_next(l1, <<"out", i>>)
  BY DEF FromNext
<1>3. in_step(l1) /\ c = cell_of(l1, in_at(i) + 1)
  BY <1>0, <1>1, <1>2, FrontIsNext DEF cells_off
<1>4. in_at(i) \in Nat /\ relay[i].backward \in Nat /\ 2 * (N - i) \in Nat /\ Fresh0(i).backward = 2 * (N - i)
  <2>1. in_at(i) \in Nat
    BY <1>1, AtsAreNumbers
  <2>2. relay[i].backward \in Nat
    BY <1>1 DEF CcTypeOK, Counts
  <2> QED BY <2>1, <2>2, FreshFacts
<1>5. d = cell_of(l2, in_at(i) + 1)
  <2>1. in_at(i) = relay[i].backward - 2 * (N - i)
    BY <1>4 DEF in_at
  <2>2. relay[i].backward = 2 * (N - i) + (in_at(i) + 1) - 1
    BY <1>4, <2>1
  <2>3. /\ c.way = "in" /\ c.pay = in_at(i) + 1
        /\ c.at = [j \in Hops |-> IF j >= i + 1 THEN 2 * (N - j) + (in_at(i) + 1) - 1 ELSE 0]
        /\ c = [way |-> c.way, at |-> c.at, pay |-> c.pay]
    BY <1>1, <1>3 DEF cell_of, cell
  <2>4. layered = [j \in Hops |-> IF j >= i THEN 2 * (N - j) + (in_at(i) + 1) - 1 ELSE 0]
    <3>1. layered = [j \in Hops |-> IF j = i THEN relay[i].backward ELSE c.at[j]]
      BY <2>3
    <3>2. \A j \in Hops : (IF j = i THEN relay[i].backward ELSE c.at[j])
                          = IF j >= i THEN 2 * (N - j) + (in_at(i) + 1) - 1 ELSE 0
      <4> SUFFICES ASSUME NEW j \in Hops
                   PROVE  (IF j = i THEN relay[i].backward ELSE c.at[j])
                          = IF j >= i THEN 2 * (N - j) + (in_at(i) + 1) - 1 ELSE 0
        OBVIOUS
      <4>1. j \in Nat /\ c.at[j] = IF j >= i + 1 THEN 2 * (N - j) + (in_at(i) + 1) - 1 ELSE 0
        BY <2>3, HopsFacts
      <4>2. CASE j = i
        BY <1>0, <2>2, <4>2
      <4>3. CASE j # i
        <5>1. j >= i <=> j >= i + 1
          BY <1>0, <4>1, <4>3
        <5> QED BY <4>1, <4>3, <5>1
      <4> QED BY <4>2, <4>3
    <3> QED BY <3>1, <3>2
  <2> HIDE DEF layered, c
  <2>5. d = [way |-> "in", at |-> layered, pay |-> in_at(i) + 1]
    BY <2>3
  <2> QED BY <1>1, <2>4, <2>5 DEF cell_of, cell
<1>6. wire' = [wire EXCEPT ![l2] = @ \o frame(d)] /\ relay' = [relay EXCEPT ![i].backward = @ + 1] /\ up' = up
  BY <1>3 DEF FromNext
<1>8. rbuf' = used(l1)
  BY <1>1, <1>2, ReadNextFacts
<1>9. /\ in_at(i)' = in_at(i) + 1 /\ \A j \in Hops \ {i} : in_at(j)' = in_at(j)
      /\ \A j \in Hops : out_at(j)' = out_at(j)
  <2>1. /\ relay'[i].backward = relay[i].backward + 1 /\ relay'[i].forward = relay[i].forward
        /\ \A j \in Hops \ {i} : relay'[j] = relay[j]
    BY <1>1, <1>6, HopCounts
  <2>2. in_at(i)' = in_at(i) + 1
    BY <1>4, <2>1 DEF in_at
  <2> QED BY <2>1, <2>2 DEF out_at, in_at
<1> HIDE DEF c, d, layered
<1>11. ASSUME NEW l \in Links
       PROVE  InTurn(l, rbuf'[l], wire'[l], cells_off(l)', cells_put(l)')
  <2>0. l = <<l[1], l[2]>> /\ l[1] \in {"out", "in"} /\ l[2] \in Hops /\ (l[2] # 1 => l[2] - 1 \in Hops /\ (l[2] - 1) + 1 = l[2])
    <3>1. l = <<l[1], l[2]>> /\ l[1] \in {"out", "in"} /\ l[2] \in Hops
      BY LinkFacts
    <3> QED BY <3>1, HopsFacts
  <2>1. CASE l = l1
    <3>1. cells_off(l)' = cells_off(l) + 1
      BY <1>0, <1>1, <1>9, <2>1 DEF cells_off
    <3>2. cells_put(l)' = cells_put(l)
      <4>1. i + 1 \in Hops \ {i}
        BY <1>0
      <4> QED BY <1>1, <1>9, <2>1, <4>1 DEF cells_put
    <3>3. wire'[l] = wire[l]
      <4>1. l1 # l2
        BY <1>0
      <4> QED BY <1>1, <1>6, <2>1, <4>1 DEF CcTypeOK
    <3> QED BY <1>1, <1>2, <1>8, <2>1, <3>1, <3>2, <3>3, FrontUsed
  <2>2. CASE l = l2
    <3>1. l[1] = "in" /\ l[2] = i /\ l # l1
      BY <1>0, <1>1, <2>2
    <3>2. cells_off(l)' = cells_off(l)
      <4>1. i # 1 => i - 1 \in Hops \ {i}
        BY <1>0, <2>0, <3>1
      <4> QED BY <1>2, <1>9, <3>1, <4>1 DEF cells_off
    <3>3. cells_put(l) = in_at(i) /\ cells_put(l)' = in_at(i) + 1
      BY <1>9, <3>1 DEF cells_put
    <3>4. rbuf'[l] = rbuf[l]
      BY <1>1, <1>8, <3>1 DEF used, CcTypeOK
    <3>5. d = cell_of(l, cells_put(l) + 1) /\ wire' = [wire EXCEPT ![l] = @ \o frame(d)]
      BY <1>5, <1>6, <2>2, <3>3
    <3> QED BY <1>1, <3>2, <3>3, <3>4, <3>5, NextPut
  <2>3. CASE l # l1 /\ l # l2
    <3>1. l[1] = "in" => l[2] # i /\ l[2] # i + 1
      BY <2>0, <2>3
    <3>2. l[1] = "in" /\ l[2] # 1 => l[2] - 1 \in Hops \ {i}
      BY <2>0, <3>1
    <3>3. cells_off(l)' = cells_off(l)
      BY <1>2, <1>9, <2>0, <3>2 DEF cells_off
    <3>4. cells_put(l)' = cells_put(l)
      BY <1>2, <1>9, <2>0, <3>1 DEF cells_put
    <3>5. wire'[l] = wire[l] /\ rbuf'[l] = rbuf[l]
      BY <1>1, <1>6, <1>8, <2>3 DEF used, CcTypeOK
    <3> QED BY <1>1, <3>3, <3>4, <3>5, TurnKept
  <2> QED BY <2>1, <2>2, <2>3
<1>12. \A j \in Hops : out_at(j)' >= 0 /\ in_at(j)' >= 0
  BY <1>1, <1>4, <1>9, AtsAreNumbers
<1> QED BY <1>1, <1>2, <1>6, <1>11, <1>12 DEF LinksUntouched

\* The exit answers with the next number.
LEMMA FromTargetSafe ==
  ASSUME CcInv, FromTarget
  PROVE  CcTypeOK' /\ CountsFollow' /\ InOrder'
PROOF
<1> DEFINE ats == [i \in Hops |-> IF i = N THEN relay[N].backward ELSE 0]
           c == cell("in", ats, back')
           l == <<"in", N>>
<1>1. CcTypeOK /\ CountsFollow /\ InOrder /\ l \in Links /\ N \in Hops /\ <<"out", N>> \in Links
  BY LinkFacts, HopsFacts DEF CcInv
<1>2. /\ back' = back + 1 /\ relay' = [relay EXCEPT ![N].backward = @ + 1] /\ wire' = [wire EXCEPT ![l] = @ \o frame(c)]
      /\ sent' = sent /\ got' = got /\ backGot' = backGot /\ client' = client /\ tampers' = tampers
  BY DEF FromTarget
<1>3. rbuf' = rbuf
  BY <1>1 DEF FromTarget, kept, CcTypeOK
<1>4. relay' \in Counts /\ relay'[N].backward = relay[N].backward + 1 /\ relay'[N].forward = relay[N].forward
  BY <1>1, <1>2, HopCounts
<1>5. c \in Cells
  <2>1. ats \in [Hops -> Nat] /\ ats[N] = back /\ back \in Nat
    BY <1>1 DEF CcTypeOK, CountsFollow
  <2> HIDE DEF ats
  <2> QED BY <1>2, <2>1 DEF Cells, cell
<1> HIDE DEF c, l
<1>6. wire' \in [Links -> Seq(Pieces)]
  BY <1>1, <1>2, <1>5, WirePut
<1>7. CcTypeOK'
  BY <1>1, <1>2, <1>3, <1>4, <1>6 DEF CcTypeOK
<1>8. CountsFollow' /\ InOrder'
  BY <1>1, <1>2, <1>4 DEF CountsFollow, InOrder
<1> QED BY <1>7, <1>8

\* The exit answers, and nobody tampered: the cell is next on its link.
LEMMA FromTargetUntouched ==
  ASSUME CcInv, FromTarget, tampers' = 0
  PROVE  LinksUntouched'
PROOF
<1> DEFINE l1 == <<"in", N>>
           c == cell("in", [i \in Hops |-> IF i = N THEN relay[N].backward ELSE 0], back')
<1>1. /\ CcTypeOK /\ CountsFollow /\ LinksUntouched /\ l1 \in Links /\ N \in Hops /\ l1[1] = "in" /\ l1[2] = N /\ N \in Nat
      /\ <<"out", N>> \in Links
  BY LinkFacts, HopsFacts DEF CcInv, FromTarget
<1>2. /\ back' = back + 1 /\ relay' = [relay EXCEPT ![N].backward = @ + 1] /\ wire' = [wire EXCEPT ![l1] = @ \o frame(c)]
      /\ sent' = sent /\ backGot' = backGot /\ client' = client /\ up' = up
  BY DEF FromTarget
<1>3. rbuf' = rbuf
  BY <1>1 DEF FromTarget, kept, CcTypeOK
<1>4. in_at(N) = back /\ back \in Nat /\ relay[N].backward = back
  <2>1. Fresh0(N).backward = 0
    BY <1>1, FreshFacts
  <2> QED BY <1>1, <2>1 DEF in_at, CountsFollow, CcTypeOK
<1>5. /\ in_at(N)' = in_at(N) + 1 /\ \A j \in Hops \ {N} : in_at(j)' = in_at(j)
      /\ \A j \in Hops : out_at(j)' = out_at(j)
  <2>1. /\ relay'[N].backward = relay[N].backward + 1 /\ relay'[N].forward = relay[N].forward
        /\ \A j \in Hops \ {N} : relay'[j] = relay[j]
    BY <1>1, <1>2, HopCounts
  <2>2. Fresh0(N).backward = 0
    BY <1>1, FreshFacts
  <2>3. in_at(N)' = in_at(N) + 1
    BY <1>4, <2>1, <2>2 DEF in_at
  <2> QED BY <2>1, <2>3 DEF out_at, in_at
<1>6. c = cell_of(l1, in_at(N) + 1)
  <2>1. \A j \in Hops : (IF j = N THEN relay[N].backward ELSE 0) = IF j >= N THEN 2 * (N - j) + (in_at(N) + 1) - 1 ELSE 0
    <3> SUFFICES ASSUME NEW j \in Hops
                 PROVE  (IF j = N THEN relay[N].backward ELSE 0) = IF j >= N THEN 2 * (N - j) + (in_at(N) + 1) - 1 ELSE 0
      OBVIOUS
    <3>1. j >= N <=> j = N
      BY HopsFacts
    <3>2. 2 * (N - N) = 0
      BY <1>1, FreshFacts
    <3>3. 2 * (N - N) + (in_at(N) + 1) - 1 = relay[N].backward
      BY <1>4, <3>2
    <3> QED BY <3>1, <3>3
  <2>2. l1[1] = "in" /\ l1[2] = N /\ l1[1] # "out"
    BY <1>1
  <2>3. cell_of(l1, in_at(N) + 1) = cell("in", [j \in Hops |-> IF j >= N THEN 2 * (N - j) + (in_at(N) + 1) - 1 ELSE 0], in_at(N) + 1)
    BY <2>2 DEF cell_of
  <2>4. [j \in Hops |-> IF j = N THEN relay[N].backward ELSE 0]
        = [j \in Hops |-> IF j >= N THEN 2 * (N - j) + (in_at(N) + 1) - 1 ELSE 0]
    BY <2>1
  <2> QED BY <1>2, <1>4, <2>3, <2>4
<1> HIDE DEF c
<1>7. ASSUME NEW l \in Links
      PROVE  InTurn(l, rbuf'[l], wire'[l], cells_off(l)', cells_put(l)')
  <2>0. l = <<l[1], l[2]>> /\ l[1] \in {"out", "in"} /\ l[2] \in Hops /\ (l[2] # 1 => l[2] - 1 \in Hops \ {N})
    <3>1. l = <<l[1], l[2]>> /\ l[1] \in {"out", "in"} /\ l[2] \in Hops
      BY LinkFacts
    <3> QED BY <3>1, HopsFacts
  <2>1. cells_off(l)' = cells_off(l)
    BY <1>2, <1>5, <2>0 DEF cells_off
  <2>2. CASE l = l1
    <3>1. cells_put(l) = in_at(N) /\ cells_put(l)' = in_at(N) + 1
      BY <1>1, <1>5, <2>2 DEF cells_put
    <3>2. c = cell_of(l, cells_put(l) + 1) /\ wire' = [wire EXCEPT ![l] = @ \o frame(c)] /\ rbuf'[l] = rbuf[l]
      BY <1>2, <1>3, <1>6, <2>2, <3>1
    <3> QED BY <1>1, <2>1, <3>1, <3>2, NextPut
  <2>3. CASE l # l1
    <3>1. l[1] = "in" => l[2] # N
      BY <2>0, <2>3
    <3>2. cells_put(l)' = cells_put(l)
      BY <1>2, <1>5, <2>0, <3>1 DEF cells_put
    <3>3. wire'[l] = wire[l] /\ rbuf'[l] = rbuf[l]
      BY <1>1, <1>2, <1>3, <2>3 DEF CcTypeOK
    <3> QED BY <1>1, <2>1, <3>2, <3>3, TurnKept
  <2> QED BY <2>2, <2>3
<1>8. \A j \in Hops : out_at(j)' >= 0 /\ in_at(j)' >= 0
  BY <1>1, <1>4, <1>5, AtsAreNumbers
<1> QED BY <1>1, <1>2, <1>7, <1>8 DEF LinksUntouched

\* A piece arrives.
LEMMA ArrivesKeeps ==
  ASSUME CcInv, NEW l \in Links, Arrives(l)
  PROVE  CcInv'
PROOF
<1>1. CcTypeOK /\ CountsFollow /\ InOrder
  BY DEF CcInv
<1>2. /\ wire[l] # <<>> /\ rbuf' = [rbuf EXCEPT ![l] = Append(@, Head(wire[l]))] /\ wire' = [wire EXCEPT ![l] = Tail(@)]
      /\ sent' = sent /\ back' = back /\ got' = got /\ backGot' = backGot /\ client' = client /\ relay' = relay
      /\ up' = up /\ tampers' = tampers
  BY DEF Arrives
<1>3. rbuf[l] \in Seq(Pieces) /\ wire[l] \in Seq(Pieces)
  BY <1>1 DEF CcTypeOK
<1>4. Append(rbuf[l], Head(wire[l])) \in Seq(Pieces) /\ Tail(wire[l]) \in Seq(Pieces)
  BY <1>2, <1>3
<1>5. CcTypeOK'
  BY <1>1, <1>2, <1>4 DEF CcTypeOK
<1>6. CountsFollow' /\ InOrder'
  BY <1>1, <1>2 DEF CountsFollow, InOrder
<1>7. ASSUME tampers' = 0
      PROVE  LinksUntouched'
  <2>1. LinksUntouched
    BY <1>2, <1>7 DEF CcInv
  <2>2. ASSUME NEW k \in Links
        PROVE  InTurn(k, rbuf'[k], wire'[k], cells_off(k)', cells_put(k)')
    <3>1. cells_off(k)' = cells_off(k) /\ cells_put(k)' = cells_put(k)
      BY <1>2 DEF cells_off, cells_put, out_at, in_at
    <3>2. CASE k = l
      <4>1. rbuf'[k] = Append(rbuf[l], Head(wire[l])) /\ wire'[k] = Tail(wire[l])
        BY <1>1, <1>2, <3>2 DEF CcTypeOK
      <4>2. InTurn(l, rbuf[l], wire[l], cells_off(l), cells_put(l)) /\ cells_off(l) \in Nat /\ cells_put(l) \in Nat
        BY <1>1, <2>1, AtsAreNumbers DEF LinksUntouched
      <4>3. InTurn(l, Append(rbuf[l], Head(wire[l])), Tail(wire[l]), cells_off(l), cells_put(l))
        BY <1>2, <1>3, <4>2, TurnArrive
      <4> QED BY <3>1, <3>2, <4>1, <4>3
    <3>3. CASE k # l
      <4>1. rbuf'[k] = rbuf[k] /\ wire'[k] = wire[k]
        BY <1>1, <1>2, <3>3 DEF CcTypeOK
      <4> QED BY <2>1, <3>1, <4>1, TurnKept
    <3> QED BY <3>2, <3>3
  <2> QED BY <1>2, <2>1, <2>2 DEF LinksUntouched, out_at, in_at
<1> QED BY <1>5, <1>6, <1>7 DEF CcInv

----------------------------------------------------------------------------
\* Whatever frames a relay leaves on a link, they are of cells that were there.
LEMMA TamperKeeps ==
  ASSUME CcInv, NEW l \in Links, NEW cs \in Seq(Cells), Tamper(l, framed(cs))
  PROVE  CcInv'
PROOF
<1>1. CcTypeOK /\ CountsFollow /\ InOrder
  BY DEF CcInv
<1>2. framed(cs) \in Seq(Pieces)
  <2>1. Len(cs) \in Nat /\ \A k \in 1..Len(cs) : cs[k] \in Cells
    OBVIOUS
  <2>2. ASSUME NEW k \in 1..(2 * Len(cs))
        PROVE  [of |-> cs[(k + 1) \div 2], piece |-> 2 - (k % 2)] \in Pieces
    <3>1. (k + 1) \div 2 \in 1..Len(cs) /\ 2 - (k % 2) \in {1, 2}
      BY <2>1
    <3>2. cs[(k + 1) \div 2] \in Cells
      BY <2>1, <3>1
    <3> QED BY <3>1, <3>2 DEF Pieces
  <2>3. 2 * Len(cs) \in Nat /\ framed(cs) \in [1..(2 * Len(cs)) -> Pieces]
    BY <2>1, <2>2 DEF framed
  <2> QED BY <2>3
<1>3. /\ tampers' = tampers + 1 /\ wire' = [wire EXCEPT ![l] = framed(cs)]
      /\ sent' = sent /\ back' = back /\ got' = got /\ backGot' = backGot /\ client' = client /\ relay' = relay /\ rbuf' = rbuf
  BY DEF Tamper
<1>4. tampers' \in Nat /\ tampers' # 0
  BY <1>1, <1>3 DEF CcTypeOK
<1>5. CcTypeOK'
  BY <1>1, <1>2, <1>3, <1>4 DEF CcTypeOK
<1>6. CountsFollow' /\ InOrder'
  BY <1>1, <1>3 DEF CountsFollow, InOrder
<1> QED BY <1>4, <1>5, <1>6 DEF CcInv

\* Every second place up to half the length is a place.
LEMMA Halves ==
  ASSUME NEW n \in Nat
  PROVE  n \div 2 \in Nat /\ \A k \in 1..(n \div 2) : 2 * k \in 1..n
OBVIOUS

\* The cells waiting on a link.
LEMMA CellsOnLink ==
  ASSUME CcTypeOK, NEW l \in Links
  PROVE  cells_on(l) \in Seq(Cells)
PROOF
<1>1. PICK w, n, h : w = wire[l] /\ n = Len(w) /\ h = n \div 2
  OBVIOUS
<1>2. w \in Seq(Pieces) /\ n \in Nat
  BY <1>1 DEF CcTypeOK
<1>3. h \in Nat /\ \A k \in 1..h : 2 * k \in 1..n
  BY <1>1, <1>2, Halves
<1>4. ASSUME NEW k \in 1..h
      PROVE  w[2 * k].of \in Cells
  <2>1. 2 * k \in 1..n
    BY <1>3
  <2>2. w[2 * k] \in Pieces
    BY <1>1, <1>2, <2>1
  <2> QED BY <2>2 DEF Pieces
<1>5. cells_on(l) = [k \in 1..h |-> w[2 * k].of]
  BY <1>1 DEF cells_on
<1>6. PICK f : f = cells_on(l)
  OBVIOUS
<1>7. f \in [1..h -> Cells]
  BY <1>4, <1>5, <1>6
<1> QED BY <1>3, <1>6, <1>7

\* A cell dropped, repeated or moved.
LEMMA TampersKeep ==
  ASSUME CcInv, NEW l \in Links, Drop(l) \/ Repeat(l) \/ Reorder(l)
  PROVE  CcInv'
PROOF
<1>1. PICK cs : cs = cells_on(l)
  OBVIOUS
<1>2. cs \in Seq(Cells)
  BY <1>1, CellsOnLink DEF CcInv
<1>3. CASE Drop(l)
  <2>1. Tail(cs) \in Seq(Cells)
    BY <1>1, <1>2, <1>3 DEF Drop
  <2> QED BY <1>1, <1>3, <2>1, TamperKeeps DEF Drop
<1>4. CASE Repeat(l)
  <2>1. Head(cs) \in Cells
    BY <1>1, <1>2, <1>4 DEF Repeat
  <2>2. <<Head(cs)>> \o cs \in Seq(Cells)
    BY <1>2, <2>1
  <2> QED BY <1>1, <1>4, <2>2, TamperKeeps DEF Repeat
<1>5. CASE Reorder(l)
  <2>1. <<cs[2], cs[1]>> \in Seq(Cells)
    BY <1>1, <1>2, <1>5 DEF Reorder
  <2> QED BY <1>1, <1>5, <2>1, TamperKeeps DEF Reorder
<1> QED BY <1>3, <1>4, <1>5

\* A cell sent back to where it came from.
LEMMA SendBackKeeps ==
  ASSUME CcInv, NEW i \in Hops, SendBack(i)
  PROVE  CcInv'
PROOF
<1>1. <<"out", i>> \in Links /\ <<"in", i>> \in Links
  BY LinkFacts
<1>2. PICK a, b : a = cells_on(<<"out", i>>) /\ b = cells_on(<<"in", i>>)
  OBVIOUS
<1>3. a \in Seq(Cells) /\ b \in Seq(Cells)
  BY <1>1, <1>2, CellsOnLink DEF CcInv
<1>4. a # <<>> /\ Tamper(<<"in", i>>, framed(b \o <<Head(a)>>))
  BY <1>2 DEF SendBack
<1>5. Head(a) \in Cells
  BY <1>3, <1>4
<1>6. b \o <<Head(a)>> \in Seq(Cells)
  BY <1>3, <1>5
<1> QED BY <1>1, <1>4, <1>6, TamperKeeps

\* Every step of a stream keeps the invariant.
LEMMA CcInvStays ==
  ASSUME CcInv, [CcNext]_ccVars
  PROVE  CcInv'
PROOF
<1>1. CASE UNCHANGED ccVars
  <2>1. CcTypeOK' /\ CountsFollow' /\ InOrder'
    BY <1>1 DEF ccVars, CcInv, CcTypeOK, CountsFollow, InOrder
  <2>2. LinksUntouched => LinksUntouched'
    BY <1>1 DEF ccVars, LinksUntouched, cells_off, cells_put, out_at, in_at
  <2> QED BY <1>1, <2>1, <2>2 DEF ccVars, CcInv
<1>2. CASE SendData
  BY <1>2, SendDataSafe, SendDataUntouched DEF CcInv
<1>3. CASE RecvRaw
  BY <1>3, RecvRawSafe, RecvRawUntouched DEF CcInv
<1>4. CASE FromTarget
  BY <1>4, FromTargetSafe, FromTargetUntouched DEF CcInv
<1>5. ASSUME NEW i \in Hops, FromClient(i)
      PROVE  CcInv'
  BY <1>5, FromClientSafe, FromClientUntouched DEF CcInv
<1>6. ASSUME NEW i \in Hops, FromNext(i)
      PROVE  CcInv'
  BY <1>6, FromNextSafe, FromNextUntouched DEF CcInv
<1> QED BY <1>1, <1>2, <1>3, <1>4, <1>5, <1>6, SendBackKeeps, ArrivesKeeps, TampersKeep DEF CcNext

\* The invariant holds when the stream begins.
LEMMA CcInvAtFirst ==
  ASSUME CcInit
  PROVE  CcInv
PROOF
<1>1. \A i \in Hops : Fresh0(i) \in [forward : Nat, backward : Nat]
  BY FreshFacts DEF Fresh0
<1>2. CcTypeOK
  BY <1>1 DEF CcInit, CcTypeOK, Counts
<1>3. CountsFollow
  BY FreshFacts, HopsFacts DEF CcInit, CountsFollow
<1>4. InOrder
  BY DEF CcInit, InOrder
<1>5. LinksUntouched
  <2>1. \A i \in Hops : out_at(i) = 0 /\ in_at(i) = 0
    BY FreshFacts DEF CcInit, out_at, in_at
  <2>2. ASSUME NEW l \in Links
        PROVE  InTurn(l, rbuf[l], wire[l], cells_off(l), cells_put(l))
    <3>1. cells_off(l) = 0 /\ cells_put(l) = 0
      <4>1. l[2] \in Hops /\ (l[2] # 1 => l[2] - 1 \in Hops)
        <5>1. l[2] \in Hops
          BY LinkFacts
        <5> QED BY <5>1, HopsFacts
      <4> QED BY <2>1, <4>1 DEF cells_off, cells_put, CcInit
    <3>2. rbuf[l] = <<>> /\ wire[l] = <<>>
      BY DEF CcInit
    <3> QED BY <3>1, <3>2 DEF InTurn
  <2>3. ASSUME NEW i \in Hops
        PROVE  client[i].forward = 2 * (N - i) + sent /\ client[i].backward = 2 * (N - i) + Len(backGot)
    <3>1. client[i] = Fresh0(i) /\ sent = 0 /\ Len(backGot) = 0 /\ 2 * (N - i) \in Nat
      BY FreshFacts DEF CcInit
    <3> QED BY <3>1, FreshFacts
  <2> QED BY <2>1, <2>2, <2>3 DEF LinksUntouched, CcInit
<1> QED BY <1>2, <1>3, <1>4, <1>5 DEF CcInv

\* Whoever finishes a handshake has the peer it believes, with the same keys and
\* transcript, whatever the relays did to the messages; and a stream over the
\* circuit gives each end what the other sent, in order and once, and ends only
\* when somebody tampered with it (crypto/handshake.rs, crypto/layer.rs,
\* FrameReader of network/connection.rs).
THEOREM LinksAreSound == LinksSpec => []LinksSound
PROOF
<1>1. NhInit => NhInv
  BY NhInvAtFirst
<1>2. NhInv /\ [NhNext]_nhVars => NhInv'
  BY NhInvStays
<1>3. NhInv => HandshakeAgrees
  BY InvMeansAgreement
<1>4. CcInit => CcInv
  BY CcInvAtFirst
<1>5. CcInv /\ [CcNext]_ccVars => CcInv'
  BY CcInvStays
<1>6. CcInv => StreamKept
  BY DEF CcInv, StreamKept, NeverBreaksAlone, LinksUntouched
<1>7. NhSpec => []HandshakeAgrees
  BY <1>1, <1>2, <1>3, PTL DEF NhSpec
<1>8. CcSpec => []StreamKept
  BY <1>4, <1>5, <1>6, PTL DEF CcSpec
<1>9. HandshakeAgrees /\ StreamKept => LinksSound
  BY DEF LinksSound
<1> QED BY <1>7, <1>8, <1>9, PTL DEF LinksSpec
=============================================================================
