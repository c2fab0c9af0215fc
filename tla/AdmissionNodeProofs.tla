------------------------ MODULE AdmissionNodeProofs ------------------------
(***************************************************************************)
(* Proofs about the admitting node, for any number of passes, keys,        *)
(* requests, failed writes, crashes and operator commands.                 *)
(***************************************************************************)
EXTENDS AdmissionNode, FiniteSetTheorems, WellFoundedInduction, TLAPS

\* A set of numbers that is not empty has a least one.
LEMMA LeastNumber ==
    ASSUME NEW S, S \subseteq Nat, S # {}
    PROVE  \E n \in S : \A m \in S : n <= m
<1> DEFINE R == OpToRel(<, Nat)
<1>1. IsWellFoundedOn(R, Nat)
  BY NatLessThanWellFounded
<1>2. \A m, n \in Nat : m < n => <<m, n>> \in R
  BY DEF OpToRel
<1> HIDE DEF R
<1>3. PICK n \in S : \A m \in S : ~(<<m, n>> \in R)
  BY <1>1, WFMin
<1>4. \A m \in S : ~(m < n)
  BY <1>2, <1>3
<1> QED BY <1>3, <1>4

\* next_free finds an address of the subnet that no lease holds, when there is one.
LEMMA NextFree ==
    ASSUME NEW T, has_room(T)
    PROVE  next_free(T) \in 1..Hosts /\ next_free(T) \notin used(T)
<1> DEFINE free == {ip \in 1..Hosts : ip \notin used(T)}
<1>1. free \subseteq Nat /\ free # {}
  BY NodeAssumption DEF has_room
<1>2. PICK n \in free : \A m \in free : n <= m
  BY <1>1, LeastNumber
<1>3. \A j \in 1..(n - 1) : j \in used(T)
  BY <1>2, NodeAssumption
<1> QED BY <1>2, <1>3 DEF next_free

-----------------------------------------------------------------------------
(* A pass admits once.                                                     *)

spendVars == <<spent, acked, doubt, expired, won, pc, cur, answer>>

LEMMA SpendInit == NodeInit => SpendInv
<1> SUFFICES ASSUME NodeInit PROVE SpendInv
  OBVIOUS
<1>1. TakenIsHeld
  BY DEF NodeInit, ListInit, TakenIsHeld
<1>2. WonIsTaken
  BY DEF NodeInit, WonIsTaken
<1>4. InHandIsFresh /\ InHandIsTaken
  BY DEF NodeInit, InHandIsFresh, InHandIsTaken, InHand, Bought
<1>5. AskedRightly
  BY DEF NodeInit, AskedRightly
<1>3. AdmitsOnce
  <2>1. Cardinality({}) = 0
    BY FS_EmptySet
  <2>2. \A p \in Passes : won[p] = {}
    BY DEF NodeInit
  <2> SUFFICES ASSUME NEW p \in Passes \ expired PROVE Cardinality(won[p]) <= 1
    BY DEF AdmitsOnce
  <2>3. Cardinality(won[p]) = 0
    BY <2>1, <2>2, Zenon
  <2> QED BY <2>3
<1> QED BY <1>1, <1>2, <1>3, <1>4, <1>5 DEF SpendInv

LEMMA SpendStutter ==
    ASSUME SpendInv, UNCHANGED spendVars
    PROVE  SpendInv'
BY DEF SpendInv, spendVars, TakenIsHeld, WonIsTaken, InHandIsFresh, InHand,
   InHandIsTaken, Bought, AskedRightly, AdmitsOnce

\* A step that leaves the list and the invites alone, and takes nothing new in
\* hand, keeps the invariant.
LEMMA SpendSameList ==
    ASSUME SpendInv, UNCHANGED <<spent, acked, doubt, expired, won>>,
           InHand' => InHand /\ cur' = cur, Bought' => Bought /\ cur' = cur,
           AskedRightly'
    PROVE  SpendInv'
BY DEF SpendInv, TakenIsHeld, WonIsTaken, InHandIsFresh, InHandIsTaken, AdmitsOnce

\* A request is taken in hand only when its pass is not held as spent.
LEMMA SpendTake ==
    ASSUME SpendInv, NodeTypeOK, TakeRequest
    PROVE  SpendInv'
<1>1. UNCHANGED <<spent, acked, doubt, expired, won>>
  BY DEF TakeRequest, listVars, histVars
<1>2. CASE UNCHANGED loopVars
  BY <1>1, <1>2, SpendSameList DEF TakeRequest, loopVars, InHand, Bought, AskedRightly
<1>3. CASE pc' = "reply" /\ answer' = 409
  BY <1>1, <1>3, SpendSameList DEF InHand, Bought, AskedRightly
<1>4. CASE pc' = "update" /\ PassOf[cur'] \notin spent
  BY <1>1, <1>4 DEF SpendInv, TakenIsHeld, WonIsTaken, InHandIsFresh, InHandIsTaken,
     Bought, AskedRightly, AdmitsOnce
<1> QED BY <1>2, <1>3, <1>4 DEF TakeRequest, Answer

LEMMA SpendUpdate ==
    ASSUME SpendInv, NodeTypeOK, NodeUpdate
    PROVE  SpendInv'
<1>0. /\ pc = "update" /\ cur \in Requests /\ cur' = cur /\ won' = won
      /\ InHand /\ ~Bought
  BY DEF NodeUpdate, NodeTypeOK, LoopTypeOK, InHand, Bought
<1> DEFINE p == PassOf[cur]
<1>1. CASE UNCHANGED listVars /\ (pc' = "save" => p = NoPass)
           /\ (pc' = "save" \/ pc' = "undoPass" \/ (pc' = "reply" /\ answer' = 503))
  BY <1>0, <1>1, NodeAssumption DEF listVars, SpendInv, TakenIsHeld, WonIsTaken,
     InHandIsFresh, InHandIsTaken, Bought, AskedRightly, AdmitsOnce
<1>2. CASE TakeOk(p) /\ p # NoPass /\ pc' = "save"
  BY <1>0, <1>2, NodeAssumption DEF TakeOk, SpendInv, TakenIsHeld, WonIsTaken,
     InHandIsFresh, InHandIsTaken, AskedRightly, AdmitsOnce
<1>3. CASE TakeFails(p) /\ pc' = "reply" /\ answer' = 503
  BY <1>0, <1>3 DEF TakeFails, SpendInv, TakenIsHeld, WonIsTaken, InHandIsFresh,
     InHandIsTaken, Bought, AskedRightly, AdmitsOnce
<1> QED BY <1>1, <1>2, <1>3, Zenon DEF NodeUpdate, Answer

LEMMA SpendUndo ==
    ASSUME SpendInv, NodeTypeOK, UndoPass
    PROVE  SpendInv'
<1>0. pc = "undoPass" /\ cur \in Requests /\ won' = won /\ InHand
  BY DEF UndoPass, NodeTypeOK, LoopTypeOK, InHand, histVars
<1>1. ~InHand' /\ ~Bought' /\ AskedRightly'
  BY DEF UndoPass, Rest, Answer, InHand, Bought, AskedRightly
<1> DEFINE p == PassOf[cur]
<1>2. CASE UNCHANGED listVars
  BY <1>0, <1>1, <1>2, SpendSameList DEF listVars
<1>3. p \in spent => won[p] = {} \/ p \in expired
  BY <1>0, NodeAssumption DEF NodeTypeOK, ListTypeOK, SpendInv, InHandIsFresh
<1>4. CASE GiveBackOk(p)
  BY <1>0, <1>1, <1>3, <1>4 DEF GiveBackOk, SpendInv, TakenIsHeld, WonIsTaken,
     InHandIsFresh, InHandIsTaken, AdmitsOnce
<1>5. CASE GiveBackFails(p)
  BY <1>0, <1>1, <1>3, <1>5 DEF GiveBackFails, SpendInv, TakenIsHeld, WonIsTaken,
     InHandIsFresh, InHandIsTaken, AdmitsOnce
<1> QED BY <1>2, <1>4, <1>5 DEF UndoPass

\* An invite goes out only for the pass in hand, for which none went out.
LEMMA SpendReply ==
    ASSUME SpendInv, NodeTypeOK, Reply
    PROVE  SpendInv'
<1>0. pc = "reply" /\ cur \in Requests /\ UNCHANGED <<spent, acked, doubt, expired>>
  BY DEF Reply, NodeTypeOK, LoopTypeOK, listVars
<1>1. CASE won' = won
  <2>1. (InHand' => InHand /\ cur' = cur) /\ (Bought' => Bought /\ cur' = cur)
        /\ AskedRightly'
    BY <1>0 DEF Reply, Rest, InHand, Bought, AskedRightly
  <2> QED BY <1>0, <1>1, <2>1, SpendSameList
<1>2. CASE answer = 200 /\ PassOf[cur] # NoPass /\ Rest
           /\ won' = [won EXCEPT ![PassOf[cur]] = @ \cup {cur}]
  <2> DEFINE p == PassOf[cur]
  <2>1. p \in Passes /\ InHand /\ Bought
    BY <1>0, <1>2, NodeAssumption DEF InHand, Bought
  <2>2. won[p] = {} \/ p \in expired
    BY <2>1 DEF SpendInv, InHandIsFresh
  <2>3. ~InHand' /\ ~Bought' /\ AskedRightly'
    BY <1>2 DEF Rest, InHand, Bought, AskedRightly
  <2>4. /\ won' \in [Passes -> SUBSET Requests]
        /\ won'[p] = won[p] \cup {cur}
        /\ \A q \in Passes \ {p} : won'[q] = won[q]
    BY <1>0, <1>2, <2>1 DEF NodeTypeOK, HistTypeOK
  <2>5. TakenIsHeld' /\ InHandIsFresh' /\ InHandIsTaken'
    BY <1>0, <2>3 DEF SpendInv, TakenIsHeld, InHandIsFresh, InHandIsTaken
  <2>6. p \in acked
    BY <2>1 DEF SpendInv, InHandIsTaken
  <2>7. WonIsTaken'
    BY <1>0, <2>4, <2>6 DEF SpendInv, WonIsTaken
  <2>8. won[p] = {} => Cardinality(won'[p]) = 1
    <3>1. Cardinality({cur}) = 1
      BY FS_Singleton
    <3>2. won[p] = {} => won'[p] = {cur}
      BY <2>4
    <3> QED BY <3>1, <3>2
  <2>9. AdmitsOnce'
    BY <1>0, <2>2, <2>4, <2>8 DEF SpendInv, AdmitsOnce
  <2> QED BY <2>3, <2>5, <2>7, <2>9 DEF SpendInv
<1> QED BY <1>1, <1>2 DEF Reply

LEMMA SpendReap ==
    ASSUME SpendInv, ReapTick
    PROVE  SpendInv'
<1>1. /\ spent \ spent' \subseteq expired \cup (doubt \ acked)
      /\ UNCHANGED <<acked, doubt, expired, won, cur, answer>>
  BY DEF ReapTick, Prune, histVars
<1>2. ~InHand' /\ ~Bought' /\ AskedRightly'
  BY DEF ReapTick, InHand, Bought, AskedRightly
<1> QED BY <1>1, <1>2 DEF SpendInv, TakenIsHeld, WonIsTaken, InHandIsFresh,
     InHandIsTaken, AdmitsOnce

LEMMA SpendStart ==
    ASSUME SpendInv, StartPeers
    PROVE  SpendInv'
<1>1. ~InHand' /\ ~Bought' /\ AskedRightly' /\ won' = won
  BY DEF StartPeers, Rest, InHand, Bought, AskedRightly, histVars
<1>2. CASE Reload
  BY <1>1, <1>2 DEF Reload, SpendInv, TakenIsHeld, WonIsTaken, InHandIsFresh,
     InHandIsTaken, AdmitsOnce
<1>3. CASE UNCHANGED listVars
  BY <1>1, <1>3 DEF listVars, SpendInv, TakenIsHeld, WonIsTaken, InHandIsFresh,
     InHandIsTaken, AdmitsOnce
<1> QED BY <1>2, <1>3 DEF StartPeers

LEMMA SpendExpires ==
    ASSUME SpendInv, NEW p \in Passes, PassExpires(p)
    PROVE  SpendInv'
<1>1. expired' = expired \cup {p}
      /\ UNCHANGED <<spent, acked, doubt, won, pc, cur, answer>>
  BY DEF PassExpires, Lapse, loopVars, histVars
<1>2. TakenIsHeld' /\ WonIsTaken'
  BY <1>1 DEF SpendInv, TakenIsHeld, WonIsTaken
<1>3. InHandIsFresh'
  BY <1>1 DEF SpendInv, InHandIsFresh, InHand
<1>4. InHandIsTaken'
  BY <1>1 DEF SpendInv, InHandIsTaken, Bought
<1>5. AdmitsOnce'
  BY <1>1 DEF SpendInv, AdmitsOnce
<1>6. AskedRightly'
  BY <1>1 DEF SpendInv, AskedRightly
<1> QED BY <1>2, <1>3, <1>4, <1>5, <1>6 DEF SpendInv

\* The steps of the loop that leave the list alone.
LEMMA SpendLoop ==
    ASSUME SpendInv, NodeTypeOK,
           \/ NodeSave \/ NodeAddPeer \/ UndoPeer \/ UndoLease
           \/ ReapSave \/ ReapPeers \/ Start \/ Stop \/ Crash
    PROVE  SpendInv'
<1> USE DEF AskedRightly
<1>0. Bought /\ PassOf[cur] \in spent => PassOf[cur] \in acked
  BY DEF SpendInv, InHandIsTaken, NodeTypeOK, ListTypeOK
<1>1. CASE NodeSave
  BY <1>0, <1>1, SpendSameList DEF NodeSave, listVars, histVars, InHand, Bought
<1>2. CASE NodeAddPeer
  BY <1>2, SpendSameList DEF NodeAddPeer, Answer, listVars, histVars, InHand, Bought
<1>3. CASE UndoPeer
  BY <1>3, SpendSameList DEF UndoPeer, listVars, histVars, InHand, Bought
<1>4. CASE UndoLease
  BY <1>0, <1>4, SpendSameList DEF UndoLease, listVars, InHand, Bought
<1>5. CASE ReapSave
  BY <1>5, SpendSameList DEF ReapSave, Rest, listVars, histVars, InHand, Bought
<1>6. CASE ReapPeers
  BY <1>6, SpendSameList DEF ReapPeers, Rest, listVars, histVars, InHand, Bought
<1>7. CASE Start
  BY <1>7, SpendSameList DEF Start, listVars, histVars, InHand, Bought
<1>8. CASE Stop
  BY <1>8, SpendSameList DEF Stop, Halt, listVars, InHand, Bought
<1>9. CASE Crash
  BY <1>9, SpendSameList DEF Crash, Halt, listVars, InHand, Bought
<1> QED BY <1>1, <1>2, <1>3, <1>4, <1>5, <1>6, <1>7, <1>8, <1>9

\* The handlers, the operator and the clients touch neither the list nor the
\* loop.
LEMMA OthersLeaveLoop ==
    ASSUME \/ \E r \in Requests : Handler(r)
           \/ Operator
           \/ \E k \in Keys : GoQuiet(k) \/ ComeBack(k)
           \/ UNCHANGED nodeVars
    PROVE  UNCHANGED <<spent, acked, doubt, expired, won, loopVars>>
<1>1. CASE \E r \in Requests : Handler(r)
  BY <1>1 DEF Handler, Check, Send, GiveUp, Drop, Deliver, listVars, loopVars, histVars
<1>2. CASE Operator
  BY <1>2 DEF Operator, OpAdmit, OpRevoke, OpDevice, listVars, loopVars, histVars
<1>3. CASE \E k \in Keys : GoQuiet(k) \/ ComeBack(k)
  BY <1>3 DEF GoQuiet, ComeBack, listVars, loopVars, histVars
<1>4. CASE UNCHANGED nodeVars
  BY <1>4 DEF nodeVars, listVars, loopVars
<1> QED BY <1>1, <1>2, <1>3, <1>4

LEMMA SpendNext ==
    ASSUME SpendInv, NodeTypeOK, [NodeNext]_nodeVars
    PROVE  SpendInv'
<1>1. CASE \/ \E r \in Requests : Handler(r)
           \/ Operator
           \/ \E k \in Keys : GoQuiet(k) \/ ComeBack(k)
           \/ UNCHANGED nodeVars
  BY <1>1, OthersLeaveLoop, SpendStutter DEF spendVars, loopVars
<1>2. CASE Admission
  BY <1>2, SpendTake, SpendUpdate, SpendLoop, SpendUndo, SpendReply DEF Admission
<1>3. CASE Reaper
  BY <1>3, SpendReap, SpendLoop DEF Reaper
<1>4. CASE Start \/ StartPeers
  BY <1>4, SpendStart, SpendLoop
<1>5. CASE Stop \/ Crash
  BY <1>5, SpendLoop
<1>6. CASE \E p \in Passes : PassExpires(p)
  BY <1>6, SpendExpires
<1> QED BY <1>1, <1>2, <1>3, <1>4, <1>5, <1>6 DEF NodeNext, Environment

-----------------------------------------------------------------------------
(* The operators on the lease table and on the device.                     *)

\* admit_as gives the key an address of its own, and touches no other lease.
LEMMA AdmitTable ==
    ASSUME NEW T \in Tables, NEW k \in Keys, NEW src \in Sources,
           T[k] # NoLease \/ has_room(T)
    PROVE  /\ admit_as(T, k, src) \in Tables
           /\ admit_as(T, k, src)[k] \in Lease
           /\ \A j \in Keys : j # k => admit_as(T, k, src)[j] = T[j]
           /\ Distinct(T) => Distinct(admit_as(T, k, src))
<1>1. CASE T[k] # NoLease
  BY <1>1 DEF admit_as, Tables
<1>2. CASE T[k] = NoLease
  <2> DEFINE ip == next_free(T)
             U  == [T EXCEPT ![k] = [ip |-> next_free(T), source |-> src]]
  <2>1. ip \in 1..Hosts /\ ip \notin used(T)
    BY <1>2, NextFree
  <2>2. admit_as(T, k, src) = U
    BY <1>2 DEF admit_as
  <2>3. [ip |-> ip, source |-> src] \in Lease
    BY <2>1 DEF Lease
  <2>4. U \in Tables /\ U[k] = [ip |-> ip, source |-> src]
        /\ \A j \in Keys : j # k => U[j] = T[j]
    BY <2>3 DEF Tables
  <2>5. ASSUME Distinct(T) PROVE Distinct(U)
    <3>1. leased(U) \subseteq leased(T) \cup {k}
      BY <2>4 DEF leased
    <3>2. \A j \in leased(T) : T[j].ip # ip
      BY <2>1 DEF used
    <3> QED BY <2>4, <2>5, <3>1, <3>2, <1>2 DEF Distinct, leased
  <2> QED BY <2>2, <2>3, <2>4, <2>5
<1> QED BY <1>1, <1>2

\* Dropping leases keeps the table a table, and the addresses distinct.
LEMMA DropTable ==
    ASSUME NEW T \in Tables, NEW U \in [Keys -> Lease \cup {NoLease}],
           \A k \in Keys : U[k] \in {T[k], NoLease}
    PROVE  U \in Tables /\ (Distinct(T) => Distinct(U))
<1>1. leased(U) \subseteq leased(T) /\ \A k \in leased(U) : U[k] = T[k]
  BY DEF leased
<1> QED BY <1>1 DEF Distinct, Tables

LEMMA RevokeTable ==
    ASSUME NEW T \in Tables, NEW k \in Keys
    PROVE  /\ revoke(T, k) \in Tables
           /\ \A j \in Keys : revoke(T, k)[j] \in {T[j], NoLease}
           /\ Distinct(T) => Distinct(revoke(T, k))
<1>1. revoke(T, k) \in [Keys -> Lease \cup {NoLease}]
      /\ \A j \in Keys : revoke(T, k)[j] \in {T[j], NoLease}
  BY DEF revoke, Tables
<1> QED BY <1>1, DropTable

LEMMA ExpireTable ==
    ASSUME NEW T \in Tables
    PROVE  /\ expire_idle(T) \in Tables
           /\ \A k \in Keys : expire_idle(T)[k] = IF k \in lapsed(T) THEN NoLease ELSE T[k]
           /\ Distinct(T) => Distinct(expire_idle(T))
<1>1. /\ expire_idle(T) \in [Keys -> Lease \cup {NoLease}]
      /\ \A k \in Keys : expire_idle(T)[k] = IF k \in lapsed(T) THEN NoLease ELSE T[k]
  BY DEF expire_idle, Tables
<1> QED BY <1>1, DropTable

LEMMA PeerTypes ==
    ASSUME NEW P \in [Keys -> 0..Hosts]
    PROVE  /\ \A k \in Keys, ip \in 0..Hosts : add_peer(P, k, ip) \in [Keys -> 0..Hosts]
           /\ \A K \in SUBSET Keys : remove_peers(P, K) \in [Keys -> 0..Hosts]
BY NodeAssumption DEF add_peer, remove_peers

LEMMA EmptyTypes ==
    /\ NoTable \in Tables /\ Distinct(NoTable)
    /\ NoPeers \in [Keys -> 0..Hosts]
    /\ \A T \in Tables, k \in Keys : T[k].ip \in 0..Hosts
<1>1. NoTable \in Tables /\ leased(NoTable) = {}
  BY DEF NoTable, Tables, leased
<1>2. NoPeers \in [Keys -> 0..Hosts]
  BY NodeAssumption DEF NoPeers
<1>3. \A T \in Tables, k \in Keys : T[k].ip \in 0..Hosts
  BY NodeAssumption DEF Tables, Lease, NoLease
<1> QED BY <1>1, <1>2, <1>3 DEF Distinct

-----------------------------------------------------------------------------
(* The types.                                                              *)

LEMMA TypeInit == NodeInit => NodeTypeOK
<1> SUFFICES ASSUME NodeInit PROVE NodeTypeOK
  OBVIOUS
<1>1. ListTypeOK
  BY DEF NodeInit, ListInit, ListTypeOK
<1>2. TablesTypeOK
  BY EmptyTypes, NodeAssumption DEF NodeInit, TablesTypeOK, NoOp
<1>3. LoopTypeOK
  BY DEF NodeInit, LoopTypeOK
<1>4. HandlersTypeOK
  BY DEF NodeInit, HandlersTypeOK
<1>5. CountsTypeOK
  BY DEF NodeInit, CountsTypeOK
<1>6. HistTypeOK
  BY DEF NodeInit, HistTypeOK
<1> QED BY <1>1, <1>2, <1>3, <1>4, <1>5, <1>6 DEF NodeTypeOK

\* Every step is one of these.
LEMMA Steps ==
    ASSUME [NodeNext]_nodeVars
    PROVE  \/ TakeRequest \/ NodeUpdate \/ NodeSave \/ NodeAddPeer
           \/ UndoPeer \/ UndoLease \/ UndoPass \/ Reply
           \/ ReapTick \/ ReapSave \/ ReapPeers
           \/ Start \/ StartPeers \/ Stop \/ Crash
           \/ \E r \in Requests : Check(r) \/ Send(r) \/ GiveUp(r) \/ Drop(r) \/ Deliver(r)
           \/ \E k \in Keys : OpAdmit(k) \/ OpRevoke(k)
           \/ OpDevice
           \/ \E p \in Passes : PassExpires(p)
           \/ \E k \in Keys : GoQuiet(k) \/ ComeBack(k)
           \/ UNCHANGED nodeVars
BY NodeAssumption DEF NodeNext, Admission, Reaper, Handler, Operator, Environment

LEMMA ListType ==
    ASSUME NodeTypeOK, [NodeNext]_nodeVars
    PROVE  ListTypeOK'
<1>1. CASE UNCHANGED listVars
  BY <1>1 DEF listVars, NodeTypeOK, ListTypeOK
<1>2. CASE NodeUpdate
  BY <1>2, <1>1, NodeAssumption DEF NodeUpdate, TakeOk, TakeFails, NodeTypeOK, ListTypeOK,
     LoopTypeOK
<1>3. CASE UndoPass
  BY <1>3, <1>1 DEF UndoPass, GiveBackOk, GiveBackFails, NodeTypeOK, ListTypeOK
<1>4. CASE ReapTick
  BY <1>4 DEF ReapTick, Prune, NodeTypeOK, ListTypeOK
<1>5. CASE StartPeers
  BY <1>5, <1>1 DEF StartPeers, Reload, NodeTypeOK, ListTypeOK
<1>6. CASE \E p \in Passes : PassExpires(p)
  BY <1>6 DEF PassExpires, Lapse, NodeTypeOK, ListTypeOK
<1>7. CASE \/ TakeRequest \/ NodeSave \/ NodeAddPeer \/ UndoPeer \/ UndoLease \/ Reply
           \/ ReapSave \/ ReapPeers \/ Start \/ Stop \/ Crash
  BY <1>7, <1>1 DEF TakeRequest, NodeSave, NodeAddPeer, UndoPeer, UndoLease, Reply,
     ReapSave, ReapPeers, Start, Stop, Crash, Halt
<1>8. CASE \/ \E r \in Requests : Handler(r)
           \/ Operator
           \/ \E k \in Keys : GoQuiet(k) \/ ComeBack(k)
           \/ UNCHANGED nodeVars
  BY <1>8, <1>1, OthersLeaveLoop DEF listVars
<1> QED BY <1>2, <1>3, <1>4, <1>5, <1>6, <1>7, <1>8
     DEF NodeNext, Admission, Reaper, Environment

LEMMA CountsType ==
    ASSUME NodeTypeOK, [NodeNext]_nodeVars
    PROVE  CountsTypeOK'
<1> USE DEF NodeTypeOK, CountsTypeOK, worldVars, Fault
<1>1. CASE \/ TakeRequest \/ NodeUpdate \/ NodeSave \/ NodeAddPeer
           \/ UndoPeer \/ UndoLease \/ UndoPass \/ Reply
  BY <1>1 DEF TakeRequest, NodeUpdate, NodeSave, NodeAddPeer, UndoPeer, UndoLease,
     UndoPass, Reply
<1>2. CASE \/ ReapTick \/ ReapSave \/ ReapPeers \/ Start \/ StartPeers \/ Stop \/ Crash
  BY <1>2 DEF ReapTick, ReapSave, ReapPeers, Start, StartPeers, Stop, Crash, Halt
<1>3. CASE \E r \in Requests : Check(r) \/ Send(r) \/ GiveUp(r) \/ Drop(r) \/ Deliver(r)
  BY <1>3 DEF Check, Send, GiveUp, Drop, Deliver
<1>4. CASE (\E k \in Keys : OpAdmit(k) \/ OpRevoke(k)) \/ OpDevice
  BY <1>4 DEF OpAdmit, OpRevoke, OpDevice
<1>5. CASE \/ \E p \in Passes : PassExpires(p)
           \/ \E k \in Keys : GoQuiet(k) \/ ComeBack(k)
           \/ UNCHANGED nodeVars
  BY <1>5 DEF PassExpires, GoQuiet, ComeBack, nodeVars
<1> QED BY <1>1, <1>2, <1>3, <1>4, <1>5, Steps

LEMMA LoopType ==
    ASSUME NodeTypeOK, [NodeNext]_nodeVars
    PROVE  LoopTypeOK'
<1> USE DEF NodeTypeOK, LoopTypeOK
<1>0. CASE UNCHANGED loopVars
  BY <1>0 DEF loopVars
<1>1. CASE TakeRequest
  <2>1. Head(queue) \in Requests
    BY <1>1 DEF TakeRequest, HandlersTypeOK
  <2> QED BY <1>0, <1>1, <2>1 DEF TakeRequest, Answer
<1>2. CASE NodeUpdate \/ NodeSave \/ NodeAddPeer \/ UndoPeer \/ UndoLease
  BY <1>2 DEF NodeUpdate, NodeSave, NodeAddPeer, UndoPeer, UndoLease, Answer
<1>a. CASE Rest
  BY <1>a DEF Rest
<1>3. CASE UndoPass
  <2>1. CASE \E status \in {503, 409} : Answer(status) /\ UNCHANGED <<cur, late, view, gone>>
    BY <1>3, <2>1 DEF UndoPass, Answer
  <2> QED BY <1>3, <1>a, <2>1 DEF UndoPass
<1>b. CASE Reply
  <2>1. CASE pc' = "undoPeer" /\ late' = TRUE /\ UNCHANGED <<cur, answer, view, gone>>
    BY <1>b, <2>1 DEF Reply
  <2> QED BY <1>b, <1>a, <2>1 DEF Reply
<1>4. CASE ReapTick \/ Start
  BY <1>4 DEF ReapTick, Start
<1>c. CASE ReapSave \/ ReapPeers \/ StartPeers
  BY <1>c, <1>a DEF ReapSave, ReapPeers, StartPeers
<1>e. ASSUME NEW heard, Halt(heard)
      PROVE  LoopTypeOK'
  BY <1>e DEF Halt
<1>d. CASE Stop \/ Crash
  BY <1>d, <1>e DEF Stop, Crash
<1>5. CASE \E r \in Requests : Check(r) \/ Send(r) \/ GiveUp(r) \/ Drop(r) \/ Deliver(r)
  BY <1>0, <1>5 DEF Check, Send, GiveUp, Drop, Deliver
<1>6. CASE (\E k \in Keys : OpAdmit(k) \/ OpRevoke(k)) \/ OpDevice
  BY <1>0, <1>6 DEF OpAdmit, OpRevoke, OpDevice
<1>7. CASE \/ \E p \in Passes : PassExpires(p)
           \/ \E k \in Keys : GoQuiet(k) \/ ComeBack(k)
           \/ UNCHANGED nodeVars
  BY <1>0, <1>7 DEF PassExpires, GoQuiet, ComeBack, nodeVars, loopVars
<1> QED BY <1>1, <1>2, <1>3, <1>4, <1>5, <1>6, <1>7, <1>b, <1>c, <1>d, Steps

LEMMA HandlersType ==
    ASSUME NodeTypeOK, [NodeNext]_nodeVars
    PROVE  HandlersTypeOK'
<1> USE DEF NodeTypeOK, HandlersTypeOK
<1>0. CASE UNCHANGED handlerVars
  BY <1>0 DEF handlerVars
<1>1. CASE TakeRequest
  BY <1>1 DEF TakeRequest
<1>2. CASE \/ NodeUpdate \/ NodeSave \/ NodeAddPeer \/ UndoPeer \/ UndoLease \/ UndoPass
  BY <1>0, <1>2 DEF NodeUpdate, NodeSave, NodeAddPeer, UndoPeer, UndoLease, UndoPass
<1>3. CASE Reply
  BY <1>3 DEF Reply, LoopTypeOK
<1>4. CASE ReapTick \/ ReapSave \/ ReapPeers \/ Start \/ StartPeers
  BY <1>0, <1>4 DEF ReapTick, ReapSave, ReapPeers, Start, StartPeers
<1>5. ASSUME NEW heard, Halt(heard)
      PROVE  HandlersTypeOK'
  <2>1. queue' \in Seq(Requests)
    BY <1>5 DEF Halt
  <2>2. phase' \in [Requests -> {"idle", "checked", "waiting", "got", "told", "lost"}]
    BY <1>5 DEF Halt
  <2>3. code' \in [Requests -> {0, 200, 403, 409, 503}]
    BY <1>5 DEF Halt
  <2> QED BY <2>1, <2>2, <2>3
<1>a. CASE Stop \/ Crash
  BY <1>5, <1>a DEF Stop, Crash
<1>6. CASE \E r \in Requests : Check(r) \/ Send(r) \/ GiveUp(r) \/ Drop(r) \/ Deliver(r)
  <2> SUFFICES ASSUME NEW r \in Requests,
                      Check(r) \/ Send(r) \/ GiveUp(r) \/ Drop(r) \/ Deliver(r)
               PROVE  HandlersTypeOK'
    BY <1>6
  <2>1. CASE Check(r)
    BY <2>1 DEF Check
  <2>2. CASE Send(r)
    BY <2>2 DEF Send
  <2>3. CASE GiveUp(r) \/ Drop(r) \/ Deliver(r)
    BY <2>3 DEF GiveUp, Drop, Deliver
  <2> QED BY <2>1, <2>2, <2>3
<1>7. CASE (\E k \in Keys : OpAdmit(k) \/ OpRevoke(k)) \/ OpDevice
  BY <1>0, <1>7 DEF OpAdmit, OpRevoke, OpDevice
<1>8. CASE \/ \E p \in Passes : PassExpires(p)
           \/ \E k \in Keys : GoQuiet(k) \/ ComeBack(k)
           \/ UNCHANGED nodeVars
  BY <1>0, <1>8 DEF PassExpires, GoQuiet, ComeBack, nodeVars, handlerVars
<1> QED BY <1>1, <1>2, <1>3, <1>4, <1>a, <1>6, <1>7, <1>8, Steps

LEMMA HistType ==
    ASSUME NodeTypeOK, [NodeNext]_nodeVars
    PROVE  HistTypeOK'
<1> USE DEF NodeTypeOK, HistTypeOK
<1>0. CASE UNCHANGED histVars
  BY <1>0 DEF histVars
<1>1. CASE NodeUpdate
  BY <1>1, NodeAssumption DEF NodeUpdate, LoopTypeOK
<1>2. CASE UndoLease
  BY <1>2, NodeAssumption DEF UndoLease, LoopTypeOK
<1>3. CASE Reply
  BY <1>3, NodeAssumption DEF Reply, LoopTypeOK
<1>4. CASE \/ TakeRequest \/ NodeSave \/ NodeAddPeer \/ UndoPeer \/ UndoPass
           \/ ReapTick \/ ReapSave \/ ReapPeers \/ Start \/ StartPeers
  BY <1>0, <1>4 DEF TakeRequest, NodeSave, NodeAddPeer, UndoPeer, UndoPass,
     ReapTick, ReapSave, ReapPeers, Start, StartPeers
<1>5. CASE Stop \/ Crash
  BY <1>5, NodeAssumption DEF Stop, Crash, Halt, LoopTypeOK
<1>6. CASE \E r \in Requests : Check(r) \/ Send(r) \/ GiveUp(r) \/ Drop(r) \/ Deliver(r)
  BY <1>0, <1>6 DEF Check, Send, GiveUp, Drop, Deliver
<1>7. CASE (\E k \in Keys : OpAdmit(k) \/ OpRevoke(k)) \/ OpDevice
  BY <1>0, <1>7 DEF OpAdmit, OpRevoke, OpDevice
<1>8. CASE \/ \E p \in Passes : PassExpires(p)
           \/ \E k \in Keys : GoQuiet(k) \/ ComeBack(k)
           \/ UNCHANGED nodeVars
  BY <1>0, <1>8 DEF PassExpires, GoQuiet, ComeBack, nodeVars, histVars
<1> QED BY <1>1, <1>2, <1>3, <1>4, <1>5, <1>6, <1>7, <1>8, Steps

LEMMA TablesType ==
    ASSUME NodeTypeOK, [NodeNext]_nodeVars
    PROVE  TablesTypeOK'
<1> USE DEF NodeTypeOK
<1> DEFINE tabVars == <<leases, view, peers, gone, op, quiet>>
           OpOK == /\ op \in [kind : {"none", "admit", "revoke"}, key : Keys \cup {NoReq},
                              ip : 0..Hosts]
                   /\ op # NoOp => op.key \in Keys
<1>0. CASE UNCHANGED tabVars
  BY <1>0 DEF TablesTypeOK
<1>t. leases \in Tables /\ view \in Tables /\ peers \in [Keys -> 0..Hosts]
      /\ gone \subseteq Keys /\ quiet \subseteq Keys /\ OpOK
  BY DEF TablesTypeOK
<1>r. Rest => view' \in Tables /\ gone' \subseteq Keys
  BY EmptyTypes DEF Rest
<1>q. OpOK' /\ leases' \in Tables /\ view' \in Tables /\ peers' \in [Keys -> 0..Hosts]
      /\ gone' \subseteq Keys /\ quiet' \subseteq Keys => TablesTypeOK'
  BY DEF TablesTypeOK
<1>o. op' = op => OpOK'
  BY <1>t
<1> HIDE DEF OpOK
<1>1. CASE TakeRequest
  BY <1>0, <1>1 DEF TakeRequest, loopVars, worldVars
<1>2. CASE NodeUpdate
  <2>1. cur \in Requests /\ KeyOf[cur] \in Keys /\ KindOf[cur] \in Sources
    BY <1>2, NodeAssumption DEF NodeUpdate, LoopTypeOK, Sources
  <2>2. UNCHANGED <<leases, peers, gone, op, quiet>>
    BY <1>2 DEF NodeUpdate
  <2>3. ASSUME ~refusal_for_room(leases, cur)
        PROVE  admit_as(leases, KeyOf[cur], KindOf[cur]) \in Tables
    BY <1>t, <2>1, <2>3, AdmitTable DEF refusal_for_room
  <2>4. view' \in Tables
    BY <1>2, <1>t, <2>3 DEF NodeUpdate
  <2> QED BY <1>t, <1>q, <1>o, <2>2, <2>4
<1>3. CASE NodeSave
  BY <1>3, <1>t, <1>q, <1>o DEF NodeSave
<1>4. CASE NodeAddPeer
  <2>1. KeyOf[cur] \in Keys
    BY <1>4, NodeAssumption DEF NodeAddPeer, LoopTypeOK
  <2>2. view[KeyOf[cur]].ip \in 0..Hosts
    BY <1>t, <2>1, EmptyTypes
  <2>3. add_peer(peers, KeyOf[cur], view[KeyOf[cur]].ip) \in [Keys -> 0..Hosts]
    BY <1>t, <2>1, <2>2, PeerTypes
  <2> QED BY <1>4, <1>t, <1>q, <1>o, <2>3 DEF NodeAddPeer
<1>5. CASE UndoPeer
  <2>1. KeyOf[cur] \in Keys
    BY <1>5, NodeAssumption DEF UndoPeer, LoopTypeOK
  <2>2. remove_peers(peers, {KeyOf[cur]}) \in [Keys -> 0..Hosts]
    BY <1>t, <2>1, PeerTypes
  <2> QED BY <1>5, <1>t, <1>q, <1>o, <2>2 DEF UndoPeer
<1>6. CASE UndoLease
  <2>1. KeyOf[cur] \in Keys
    BY <1>6, NodeAssumption DEF UndoLease, LoopTypeOK
  <2>2. revoke(leases, KeyOf[cur]) \in Tables
    BY <1>t, <2>1, RevokeTable
  <2> QED BY <1>6, <1>t, <1>q, <1>o, <2>2 DEF UndoLease
<1>7. CASE UndoPass
  BY <1>7, <1>t, <1>q, <1>o, <1>r DEF UndoPass
<1>8. CASE Reply
  BY <1>8, <1>t, <1>q, <1>o, <1>r DEF Reply, worldVars
<1>9. CASE ReapTick
  <2>1. expire_idle(leases) \in Tables
    BY <1>t, ExpireTable
  <2>2. lapsed(leases) \subseteq Keys
    BY <1>t DEF lapsed
  <2> QED BY <1>9, <1>t, <1>q, <1>o, <2>1, <2>2 DEF ReapTick
<1>a. CASE ReapSave
  BY <1>a, <1>t, <1>q, <1>o, <1>r DEF ReapSave
<1>b. CASE ReapPeers
  <2>1. \A K \in SUBSET gone : remove_peers(peers, K) \in [Keys -> 0..Hosts]
    BY <1>t, PeerTypes
  <2>2. remove_peers(peers, gone) \in [Keys -> 0..Hosts]
    BY <2>1
  <2> QED BY <1>b, <1>t, <1>q, <1>o, <1>r, <2>1, <2>2 DEF ReapPeers
<1>c. CASE Start
  BY <1>c, <1>t, <1>q, <1>o, EmptyTypes DEF Start, worldVars
<1>d. CASE StartPeers
  <2>1. \A k \in Keys : view[k].ip \in 0..Hosts
    BY <1>t, EmptyTypes
  <2>2. [k \in Keys |-> IF view[k] # NoLease THEN view[k].ip
                        ELSE IF peers[k] \in used(view) THEN 0 ELSE peers[k]]
            \in [Keys -> 0..Hosts]
    BY <1>t, <2>1, NodeAssumption
  <2> QED BY <1>d, <1>t, <1>q, <1>o, <1>r, <2>2, EmptyTypes DEF StartPeers
<1>e. ASSUME NEW heard, Halt(heard), peers' \in {peers, NoPeers}
      PROVE  TablesTypeOK'
  BY <1>e, <1>t, <1>q, <1>o, EmptyTypes DEF Halt
<1>f. CASE Stop \/ Crash
  BY <1>e, <1>f DEF Stop, Crash
<1>g. CASE \E r \in Requests : Check(r) \/ Send(r) \/ GiveUp(r) \/ Drop(r) \/ Deliver(r)
  BY <1>0, <1>g DEF Check, Send, GiveUp, Drop, Deliver, loopVars, worldVars
<1>h. ASSUME NEW k \in Keys, OpAdmit(k)
      PROVE  TablesTypeOK'
  <2> DEFINE T == admit_as(leases, k, "manual")
  <2>1. T \in Tables
    BY <1>t, <1>h, AdmitTable DEF OpAdmit, Sources
  <2>2. T[k].ip \in 0..Hosts
    BY <2>1, EmptyTypes
  <2>3. leases' = T /\ op' = [kind |-> "admit", key |-> k, ip |-> T[k].ip]
        /\ UNCHANGED <<view, peers, gone, quiet>>
    BY <1>h DEF OpAdmit, loopVars
  <2>4. OpOK'
    BY <2>2, <2>3 DEF OpOK
  <2> QED BY <1>t, <1>q, <2>1, <2>3, <2>4
<1>i. ASSUME NEW k \in Keys, OpRevoke(k)
      PROVE  TablesTypeOK'
  <2>1. revoke(leases, k) \in Tables
    BY <1>t, RevokeTable
  <2>2. OpOK'
    BY <1>i, NodeAssumption DEF OpRevoke, OpOK
  <2> QED BY <1>t, <1>q, <1>i, <2>1, <2>2 DEF OpRevoke, loopVars
<1>j. CASE OpDevice
  <2>1. op.key \in Keys /\ op.ip \in 0..Hosts
    BY <1>t, <1>j DEF OpDevice, OpOK
  <2>2. add_peer(peers, op.key, op.ip) \in [Keys -> 0..Hosts]
        /\ remove_peers(peers, {op.key}) \in [Keys -> 0..Hosts]
    BY <1>t, <2>1, PeerTypes
  <2>3. OpOK'
    BY <1>j, NodeAssumption DEF OpDevice, OpOK, NoOp
  <2> QED BY <1>j, <1>t, <1>q, <2>2, <2>3 DEF OpDevice, loopVars
<1>k. CASE \E p \in Passes : PassExpires(p)
  BY <1>0, <1>k DEF PassExpires, loopVars, worldVars
<1>l. CASE \E k \in Keys : GoQuiet(k) \/ ComeBack(k)
  BY <1>l, <1>t, <1>q, <1>o DEF GoQuiet, ComeBack, loopVars
<1>m. CASE UNCHANGED nodeVars
  BY <1>0, <1>m DEF nodeVars
<1> QED BY <1>1, <1>2, <1>3, <1>4, <1>5, <1>6, <1>7, <1>8, <1>9, <1>a, <1>b, <1>c, <1>d,
     <1>f, <1>g, <1>h, <1>i, <1>j, <1>k, <1>l, <1>m, Steps

LEMMA TypeNext ==
    ASSUME NodeTypeOK, [NodeNext]_nodeVars
    PROVE  NodeTypeOK'
BY ListType, CountsType, LoopType, HandlersType, HistType, TablesType DEF NodeTypeOK

-----------------------------------------------------------------------------
(* The lease table between the node and the operator.                      *)

LEMMA TableInit == NodeInit => TableInv
BY EmptyTypes DEF NodeInit, TableInv, ViewIsCurrent, Unlocked

\* A step that changes no lease and leaves the lock alone.
LEMMA TableStutter ==
    ASSUME TableInv, UNCHANGED <<leases, view, gone, pc, cur>>
    PROVE  TableInv'
BY DEF TableInv, ViewIsCurrent, Unlocked, Distinct, leased

\* A step after which the lock is free.
LEMMA TableUnlocked ==
    ASSUME pc' \notin {"save", "reapSave"}, Distinct(leases')
    PROVE  TableInv'
BY DEF TableInv, ViewIsCurrent, Unlocked, Distinct, leased

LEMMA TableNext ==
    ASSUME TableInv, NodeTypeOK, [NodeNext]_nodeVars
    PROVE  TableInv'
<1>t. leases \in Tables /\ view \in Tables /\ Distinct(leases)
  BY DEF NodeTypeOK, TablesTypeOK, TableInv
<1>u. leases' = leases => Distinct(leases')
  BY <1>t
<1>1. CASE TakeRequest
  BY <1>1, <1>u, TableUnlocked DEF TakeRequest, Answer, loopVars
<1>2. CASE NodeUpdate
  <2>1. cur \in Requests /\ KeyOf[cur] \in Keys /\ KindOf[cur] \in Sources
    BY <1>2, NodeAssumption DEF NodeUpdate, NodeTypeOK, LoopTypeOK, Sources
  <2>2. leases' = leases /\ cur' = cur
    BY <1>2 DEF NodeUpdate
  <2>3. CASE ~refusal_for_room(leases, cur) /\ pc' = "save"
             /\ view' = admit_as(leases, KeyOf[cur], KindOf[cur])
    <3>1. leases[KeyOf[cur]] # NoLease \/ has_room(leases)
      BY <2>3 DEF refusal_for_room
    <3>2. Distinct(view') /\ \A j \in Keys : j # KeyOf[cur] => view'[j] = leases[j]
      BY <1>t, <2>1, <2>3, <3>1, AdmitTable
    <3> QED BY <1>u, <2>2, <2>3, <3>2 DEF TableInv, ViewIsCurrent, Distinct, leased
  <2>4. CASE pc' \notin {"save", "reapSave"}
    BY <1>u, <2>2, <2>4, TableUnlocked
  <2> QED BY <1>2, <2>3, <2>4 DEF NodeUpdate, Answer
<1>3. CASE NodeSave
  <2>1. Distinct(view)
    BY <1>3 DEF NodeSave, TableInv, Unlocked
  <2>2. Distinct(leases')
    BY <1>3, <1>u, <2>1 DEF NodeSave
  <2> QED BY <1>3, <2>2, TableUnlocked DEF NodeSave
<1>4. CASE NodeAddPeer \/ UndoPeer \/ UndoPass \/ Reply
  BY <1>4, <1>u, TableUnlocked DEF NodeAddPeer, UndoPeer, UndoPass, Reply, Answer, Rest
<1>5. CASE UndoLease
  <2>1. KeyOf[cur] \in Keys
    BY <1>5, NodeAssumption DEF UndoLease, NodeTypeOK, LoopTypeOK
  <2>2. Distinct(revoke(leases, KeyOf[cur]))
    BY <1>t, <2>1, RevokeTable
  <2>3. Distinct(leases')
    BY <1>5, <1>u, <2>2 DEF UndoLease
  <2> QED BY <1>5, <2>3, TableUnlocked DEF UndoLease
<1>6. CASE ReapTick
  <2>1. leases' = leases
    BY <1>6 DEF ReapTick
  <2>2. CASE view' = expire_idle(leases) /\ gone' = lapsed(leases) /\ pc' = "reapSave"
    <3>1. Distinct(view')
          /\ \A k \in Keys : view'[k] = IF k \in gone' THEN NoLease ELSE leases[k]
      BY <1>t, <2>2, ExpireTable
    <3> QED BY <1>u, <2>1, <2>2, <3>1 DEF TableInv, ViewIsCurrent, Distinct, leased
  <2>3. CASE pc' = pc
    BY <1>6, <1>u, <2>1, <2>3, TableUnlocked DEF ReapTick
  <2> QED BY <1>6, <2>2, <2>3 DEF ReapTick
<1>7. CASE ReapSave
  <2>1. Distinct(view)
    BY <1>7 DEF ReapSave, TableInv, Unlocked
  <2>2. Distinct(leases')
    BY <1>7, <1>u, <2>1 DEF ReapSave
  <2> QED BY <1>7, <2>2, TableUnlocked DEF ReapSave, Rest
<1>8. CASE ReapPeers \/ Start \/ StartPeers
  BY <1>8, <1>u, TableUnlocked DEF ReapPeers, Start, StartPeers, Rest
<1>9. CASE Stop \/ Crash
  BY <1>9, <1>u, TableUnlocked DEF Stop, Crash, Halt
<1>a. ASSUME NEW k \in Keys, OpAdmit(k)
      PROVE  TableInv'
  <2>1. Distinct(admit_as(leases, k, "manual"))
    BY <1>a, <1>t, AdmitTable DEF OpAdmit, Sources
  <2>2. Distinct(leases') /\ pc' \notin {"save", "reapSave"}
    BY <1>a, <2>1 DEF OpAdmit, Unlocked, loopVars
  <2> QED BY <2>2, TableUnlocked
<1>b. ASSUME NEW k \in Keys, OpRevoke(k)
      PROVE  TableInv'
  <2>1. Distinct(revoke(leases, k))
    BY <1>t, RevokeTable
  <2>2. Distinct(leases') /\ pc' \notin {"save", "reapSave"}
    BY <1>b, <2>1 DEF OpRevoke, Unlocked, loopVars
  <2> QED BY <2>2, TableUnlocked
<1>c. CASE \/ \E r \in Requests : Check(r) \/ Send(r) \/ GiveUp(r) \/ Drop(r) \/ Deliver(r)
           \/ OpDevice
           \/ \E p \in Passes : PassExpires(p)
           \/ \E k \in Keys : GoQuiet(k) \/ ComeBack(k)
           \/ UNCHANGED nodeVars
  BY <1>c, TableStutter DEF Check, Send, GiveUp, Drop, Deliver, OpDevice, PassExpires,
     GoQuiet, ComeBack, nodeVars, loopVars
<1> QED BY <1>1, <1>2, <1>3, <1>4, <1>5, <1>6, <1>7, <1>8, <1>9, <1>a, <1>b, <1>c, Steps

\* What a step of the node, or of the operator, does to the leases.
LEMMA LeaseSteps ==
    ASSUME TableInv, NodeTypeOK, [NodeNext]_nodeVars, NEW k \in Keys,
           leases'[k] # leases[k]
    PROVE  \/ ops' # ops
           \/ cur # NoReq /\ k = KeyOf[cur]
           \/ pc = "reapSave" /\ k \in gone /\ leases'[k] = NoLease
<1>1. CASE NodeSave
  BY <1>1, NodeAssumption DEF NodeSave, TableInv, ViewIsCurrent, NodeTypeOK, LoopTypeOK
<1>2. CASE UndoLease
  BY <1>2, NodeAssumption DEF UndoLease, revoke, NodeTypeOK, LoopTypeOK, TablesTypeOK, Tables
<1>3. CASE ReapSave
  BY <1>3 DEF ReapSave, TableInv, ViewIsCurrent
<1>4. CASE \E j \in Keys : OpAdmit(j) \/ OpRevoke(j)
  BY <1>4 DEF OpAdmit, OpRevoke, NodeTypeOK, CountsTypeOK
<1>5. CASE leases' = leases
  BY <1>5
<1>6. CASE \/ TakeRequest \/ NodeUpdate \/ NodeAddPeer \/ UndoPeer \/ UndoPass \/ Reply
           \/ ReapTick \/ ReapPeers \/ Start \/ StartPeers \/ Stop \/ Crash
  BY <1>5, <1>6 DEF TakeRequest, NodeUpdate, NodeAddPeer, UndoPeer, UndoPass, Reply,
     ReapTick, ReapPeers, Start, StartPeers, Stop, Crash, Halt
<1>7. CASE \/ \E r \in Requests : Check(r) \/ Send(r) \/ GiveUp(r) \/ Drop(r) \/ Deliver(r)
           \/ OpDevice
           \/ \E p \in Passes : PassExpires(p)
           \/ \E j \in Keys : GoQuiet(j) \/ ComeBack(j)
           \/ UNCHANGED nodeVars
  BY <1>5, <1>7 DEF Check, Send, GiveUp, Drop, Deliver, OpDevice, PassExpires,
     GoQuiet, ComeBack, nodeVars
<1> QED BY <1>1, <1>2, <1>3, <1>4, <1>6, <1>7, Steps

-----------------------------------------------------------------------------
(* The node as a caller of the list.                                       *)

LEMMA ListStep ==
    ASSUME SpendInv, NodeTypeOK, [NodeNext]_nodeVars
    PROVE  [ListNext]_listVars
<1>1. CASE NodeUpdate
  <2>1. cur \in Requests /\ PassOf[cur] \in Passes \cup {NoPass} /\ PassOf[cur] \notin spent
    BY <1>1, NodeAssumption DEF NodeUpdate, NodeTypeOK, LoopTypeOK, SpendInv, AskedRightly
  <2> QED BY <1>1, <2>1, Zenon DEF NodeUpdate, ListNext
<1>2. CASE UndoPass
  <2>1. PassOf[cur] \in spent => PassOf[cur] \in acked /\ PassOf[cur] \in Passes
    BY <1>2 DEF UndoPass, NodeTypeOK, ListTypeOK, SpendInv, AskedRightly
  <2> QED BY <1>2, <2>1 DEF UndoPass, GiveBackOk, GiveBackFails, ListNext
<1>3. CASE ReapTick
  BY <1>3 DEF ReapTick, ListNext
<1>4. CASE StartPeers
  BY <1>4 DEF StartPeers, ListNext
<1>5. CASE \E p \in Passes : PassExpires(p)
  BY <1>5 DEF PassExpires, ListNext
<1>6. CASE \/ TakeRequest \/ NodeSave \/ NodeAddPeer \/ UndoPeer \/ UndoLease \/ Reply
           \/ ReapSave \/ ReapPeers \/ Start \/ Stop \/ Crash
  BY <1>6 DEF TakeRequest, NodeSave, NodeAddPeer, UndoPeer, UndoLease, Reply,
     ReapSave, ReapPeers, Start, Stop, Crash, Halt
<1>7. CASE \/ \E r \in Requests : Handler(r)
           \/ Operator
           \/ \E k \in Keys : GoQuiet(k) \/ ComeBack(k)
           \/ UNCHANGED nodeVars
  BY <1>7, OthersLeaveLoop DEF listVars
<1> QED BY <1>1, <1>2, <1>3, <1>4, <1>5, <1>6, <1>7
     DEF NodeNext, Admission, Reaper, Environment

-----------------------------------------------------------------------------
(* A pass that is used up has done some good.                              *)

\* A step that leaves the list alone, and what is in hand.
LEMMA GoodStutter ==
    ASSUME GoodInv, UNCHANGED <<spent, acked, doubt, won, pc, cur, answer>>, cut \subseteq cut'
    PROVE  GoodInv'
BY DEF GoodInv, HandsEmpty, Served, Untaken, Bought

\* A step after which nothing is in hand, and every pass is accounted for.
LEMMA GoodAtRest ==
    ASSUME cur' = NoReq, pc' \in {"down", "start", "select", "reapSave", "reapPeers"},
           \A p \in Passes : Served(p)'
    PROVE  GoodInv'
BY DEF GoodInv, HandsEmpty, Untaken, Bought

\* A step that keeps the request in hand, and may take its pass.
LEMMA GoodInHand ==
    ASSUME GoodInv, NodeTypeOK, cur \in Requests, cur' = cur,
           \A q \in Passes \ {PassOf[cur]} :
              q \in (spent' \cup acked') \ (doubt' \cup cut') =>
                 q \in (spent \cup acked) \ (doubt \cup cut),
           won' = won, pc' \notin {"down", "start", "select", "reapSave", "reapPeers"},
           Untaken' /\ PassOf[cur] \in Passes => Served(PassOf[cur])',
           Bought' /\ PassOf[cur] \in Passes => PassOf[cur] \in spent'
    PROVE  GoodInv'
BY NodeAssumption DEF GoodInv, HandsEmpty, Served

LEMMA GoodInit == NodeInit => GoodInv
BY DEF NodeInit, ListInit, GoodInv, HandsEmpty, Served, Untaken, Bought

LEMMA GoodNext ==
    ASSUME GoodInv, SpendInv, NodeTypeOK, [NodeNext]_nodeVars
    PROVE  GoodInv'
<1>r. cur = NoReq => \A p \in Passes : Served(p)
  BY DEF GoodInv
<1>i. pc \in {"update", "save", "peer", "undoPeer", "undoLease", "undoPass", "reply"}
        => cur \in Requests
  BY DEF NodeTypeOK, LoopTypeOK
<1>n. NoReq \notin Requests /\ NoPass \notin Passes /\ PassOf \in [Requests -> Passes \cup {NoPass}]
  BY NodeAssumption
<1>1. CASE TakeRequest
  <2>1. cur = NoReq /\ UNCHANGED <<spent, acked, doubt, won, cut>>
    BY <1>1 DEF TakeRequest, GoodInv, HandsEmpty, listVars, histVars
  <2>2. \A p \in Passes : Served(p)'
    BY <1>r, <2>1 DEF Served
  <2>3. CASE UNCHANGED loopVars
    BY <2>1, <2>3, GoodStutter DEF loopVars
  <2>4. CASE pc' \in {"reply", "update"} /\ cur' \in Requests /\ (pc' = "reply" => answer' = 409)
    <3>1. HandsEmpty' /\ ~Bought'
      BY <2>4 DEF HandsEmpty, Bought
    <3> QED BY <2>2, <3>1 DEF GoodInv
  <2>5. queue # <<>> => Head(queue) \in Requests
    BY DEF NodeTypeOK, HandlersTypeOK
  <2> QED BY <1>1, <2>3, <2>4, <2>5 DEF TakeRequest, Answer
<1>2. CASE NodeUpdate
  <2>1. cur \in Requests /\ cur' = cur /\ won' = won /\ cut' = cut /\ pc = "update"
    BY <1>2, <1>i DEF NodeUpdate
  <2> DEFINE p == PassOf[cur]
  <2>2. p \in Passes => Served(p)
    BY <2>1 DEF GoodInv, Untaken
  <2>3. CASE UNCHANGED listVars /\ (pc' = "save" => p = NoPass)
             /\ (pc' \in {"undoPass", "save"} \/ (pc' = "reply" /\ answer' = 503))
    BY <1>n, <2>1, <2>2, <2>3, GoodInHand DEF listVars, Served, Bought
  <2>4. CASE TakeOk(p) /\ pc' = "save"
    BY <2>1, <2>4, GoodInHand DEF TakeOk, Untaken
  <2>5. CASE TakeFails(p) /\ pc' = "reply" /\ answer' = 503
    BY <2>1, <2>5, GoodInHand DEF TakeFails, Served, Bought
  <2> QED BY <1>2, <2>3, <2>4, <2>5, Zenon DEF NodeUpdate, Answer
<1>3. CASE NodeSave \/ NodeAddPeer \/ UndoPeer \/ UndoLease
  <2>1. /\ cur \in Requests /\ cur' = cur /\ UNCHANGED <<spent, acked, doubt, won, cut>>
        /\ pc' \in {"peer", "undoPass", "reply", "undoPeer", "undoLease"}
        /\ pc' = "reply" => answer' = 200
        /\ Bought
    BY <1>3, <1>i DEF NodeSave, NodeAddPeer, UndoPeer, UndoLease, listVars, histVars, Answer,
       Bought
  <2>2. PassOf[cur] \in Passes => PassOf[cur] \in spent
    BY <2>1 DEF GoodInv
  <2> QED BY <2>1, <2>2, GoodInHand DEF Untaken
<1>4. CASE UndoPass
  <2>1. cur \in Requests /\ won' = won /\ cut' = cut /\ pc = "undoPass"
        /\ \/ Rest
           \/ cur' = cur /\ pc' = "reply" /\ answer' \in {503, 409}
    BY <1>4, <1>i DEF UndoPass, histVars, Answer
  <2> DEFINE p == PassOf[cur]
  <2>2. /\ \A q \in Passes : q = p => Served(q)'
        /\ \A q \in Passes \ {p} :
              q \in (spent' \cup acked') \ (doubt' \cup cut') =>
                 q \in (spent \cup acked) \ (doubt \cup cut)
    <3>1. CASE p \notin spent /\ UNCHANGED listVars
      BY <2>1, <3>1 DEF listVars, GoodInv, Untaken, Served
    <3>2. CASE GiveBackOk(p) \/ GiveBackFails(p)
      BY <2>1, <3>2 DEF GiveBackOk, GiveBackFails, Served
    <3> QED BY <1>4, <3>1, <3>2 DEF UndoPass
  <2>3. CASE Rest
    <3>1. \A q \in Passes : Served(q)'
      BY <2>1, <2>2 DEF GoodInv, Served
    <3> QED BY <2>3, <3>1, GoodAtRest DEF Rest
  <2>4. CASE cur' = cur /\ pc' = "reply" /\ answer' \in {503, 409}
    <3>1. p \in Passes => Served(PassOf[cur])'
      BY <2>2, <2>4 DEF Served
    <3> QED BY <2>1, <2>2, <2>4, <3>1, GoodInHand DEF Bought
  <2> QED BY <2>1, <2>3, <2>4
<1>5. CASE Reply
  <2>1. cur \in Requests /\ UNCHANGED <<spent, acked, doubt, cut>> /\ pc = "reply"
    BY <1>5, <1>i DEF Reply, listVars
  <2> DEFINE p == PassOf[cur]
  <2>2. CASE Rest /\ won' = IF answer = 200 /\ p # NoPass
                            THEN [won EXCEPT ![p] = @ \cup {cur}] ELSE won
    BY <2>1, <2>2, <1>n, GoodAtRest DEF Rest, Served, GoodInv, Untaken, NodeTypeOK, HistTypeOK
  <2>3. CASE Rest /\ won' = won /\ ~(answer = 200 /\ p # NoPass)
    BY <2>1, <2>3, <1>n, GoodAtRest DEF Rest, Served, GoodInv, Untaken
  <2>4. CASE pc' = "undoPeer" /\ cur' = cur /\ won' = won /\ answer = 200
    <3>1. PassOf[cur] \in Passes => PassOf[cur] \in spent
      BY <2>1, <2>4 DEF GoodInv, Bought
    <3> QED BY <2>1, <2>4, <3>1, GoodInHand DEF Untaken
  <2> QED BY <1>5, <2>2, <2>3, <2>4 DEF Reply
<1>6. CASE ReapTick
  <2>1. /\ cur' = NoReq /\ cur = NoReq /\ UNCHANGED <<acked, doubt, won, cut>>
        /\ spent' \subseteq spent /\ pc' \in {"select", "reapSave"}
    BY <1>6 DEF ReapTick, Prune, histVars, GoodInv, HandsEmpty
  <2> QED BY <1>r, <2>1, GoodAtRest DEF Served
<1>7. CASE ReapSave \/ ReapPeers \/ Start
  <2>1. /\ cur' = NoReq /\ cur = NoReq /\ UNCHANGED <<spent, acked, doubt, won, cut>>
        /\ pc' \in {"select", "reapPeers", "start"}
    BY <1>7 DEF ReapSave, ReapPeers, Start, histVars, listVars, GoodInv, HandsEmpty, Rest
  <2> QED BY <1>r, <2>1, GoodAtRest DEF Served
<1>8. CASE StartPeers
  <2>1. /\ cur' = NoReq /\ cur = NoReq /\ UNCHANGED <<acked, doubt, won, cut>>
        /\ spent' \subseteq spent \cup acked \cup doubt /\ pc' \in {"select", "down"}
    BY <1>8 DEF StartPeers, Reload, histVars, listVars, GoodInv, HandsEmpty, Rest
  <2> QED BY <1>r, <2>1, GoodAtRest DEF Served
<1>9. CASE Stop
  <2>1. /\ cur' = NoReq /\ cur = NoReq /\ UNCHANGED <<spent, acked, doubt, won, cut>> /\ pc' = "down"
    BY <1>9 DEF Stop, Halt, listVars, GoodInv, HandsEmpty
  <2> QED BY <1>r, <2>1, GoodAtRest DEF Served
<1>a. CASE Crash
  <2>1. /\ cur' = NoReq /\ UNCHANGED <<spent, acked, doubt, won>> /\ pc' = "down"
        /\ cut' = IF cur # NoReq /\ PassOf[cur] # NoPass THEN cut \cup {PassOf[cur]} ELSE cut
    BY <1>a DEF Crash, Halt, listVars
  <2>2. \A p \in Passes : Served(p)'
    BY <2>1, <1>n DEF Served, GoodInv
  <2> QED BY <2>1, <2>2, GoodAtRest
<1>b. CASE \E p \in Passes : PassExpires(p)
  BY <1>b, GoodStutter DEF PassExpires, Lapse, loopVars, histVars
<1>c. CASE \/ \E r \in Requests : Handler(r)
           \/ Operator
           \/ \E k \in Keys : GoQuiet(k) \/ ComeBack(k)
           \/ UNCHANGED nodeVars
  <2>1. UNCHANGED cut
    BY <1>c DEF Handler, Check, Send, GiveUp, Drop, Deliver, Operator, OpAdmit, OpRevoke,
       OpDevice, GoQuiet, ComeBack, nodeVars, histVars
  <2> QED BY <1>c, <2>1, OthersLeaveLoop, GoodStutter DEF loopVars
<1> QED BY <1>1, <1>2, <1>3, <1>4, <1>5, <1>6, <1>7, <1>8, <1>9, <1>a, <1>b, <1>c
     DEF NodeNext, Admission, Reaper, Environment

-----------------------------------------------------------------------------
(* A lease bought with a pass is paid for.                                 *)

\* A step that makes no lease, and takes no pass back.
LEMMA PaidKept ==
    ASSUME PaidInv, UNCHANGED paid, leaked \subseteq leaked', expired \subseteq expired',
           acked \cup expired \subseteq acked' \cup expired',
           \A k \in Keys : leases'[k].source = "pass" => leases'[k] = leases[k]
    PROVE  LeaseIsPaidFor'
BY DEF PaidInv, LeaseIsPaidFor

\* Such a step, after which the loop holds no pass's fate.
LEMMA PaidAtRest ==
    ASSUME LeaseIsPaidFor', pc' # "save", ~InHand'
    PROVE  PaidInv'
BY DEF PaidInv

\* Such a step, with what the loop holds still in its hands.
LEMMA PaidInHand ==
    ASSUME PaidInv, NodeTypeOK, LeaseIsPaidFor', InHand, cur' = cur, pc' # "save", UNCHANGED paid,
           leaked \subseteq leaked', expired \subseteq expired',
           \A k \in Keys : k # KeyOf[cur] \/ pc' \notin {"peer", "undoPeer", "undoLease", "reply"} =>
              (leases'[k].source = "pass" /\ k \notin leaked' =>
                 leases'[k] = leases[k] /\ (k # KeyOf[cur] \/ pc \in {"update", "save", "undoPass"}))
    PROVE  PaidInv'
BY DEF PaidInv

LEMMA PaidInit == NodeInit => PaidInv
BY DEF NodeInit, PaidInv, LeaseIsPaidFor, NoTable, NoLease, InHand

LEMMA PaidNext ==
    ASSUME PaidInv, GoodInv, SpendInv, TableInv, NodeTypeOK, [NodeNext]_nodeVars
    PROVE  PaidInv'
<1>t. leases \in Tables /\ view \in Tables /\ NoLease.source # "pass"
  BY DEF NodeTypeOK, TablesTypeOK, NoLease
<1>i. pc \in {"update", "save", "peer", "undoPeer", "undoLease", "undoPass", "reply"}
        => cur \in Requests /\ KeyOf[cur] \in Keys
  BY NodeAssumption DEF NodeTypeOK, LoopTypeOK
<1>1. CASE TakeRequest
  <2>1. UNCHANGED <<leases, paid, leaked, acked, expired, spent>> /\ LeaseIsPaidFor'
    BY <1>1, PaidKept DEF TakeRequest, listVars, histVars
  <2>2. CASE ~InHand' /\ pc' # "save"
    BY <2>1, <2>2, PaidAtRest
  <2>3. CASE pc' = "update" /\ PassOf[cur'] \notin spent
    <3>1. PassOf[cur'] \notin acked \ expired
      BY <2>3 DEF SpendInv, TakenIsHeld
    <3> QED BY <2>1, <2>3, <3>1 DEF PaidInv, LeaseIsPaidFor
  <2> QED BY <1>1, <2>2, <2>3 DEF TakeRequest, Answer, loopVars, InHand
<1>2. CASE NodeUpdate
  <2>1. /\ pc = "update" /\ cur' = cur /\ cur \in Requests /\ KeyOf[cur] \in Keys
        /\ UNCHANGED <<leases, leaked>> /\ InHand
    BY <1>2, <1>i DEF NodeUpdate, InHand
  <2> DEFINE p == PassOf[cur]
             key == KeyOf[cur]
             T == admit_as(leases, key, KindOf[cur])
  <2>2. CASE UNCHANGED <<paid, acked, expired>> /\ pc' \in {"undoPass", "reply"}
             /\ (pc' = "reply" => answer' = 503)
    <3>1. LeaseIsPaidFor'
      BY <2>1, <2>2, PaidKept
    <3>2. CASE pc' = "undoPass"
      BY <2>1, <2>2, <3>1, <3>2, PaidInHand
    <3>3. CASE pc' = "reply"
      BY <2>2, <3>1, <3>3, PaidAtRest DEF InHand
    <3> QED BY <2>2, <3>2, <3>3
  <2>3. CASE /\ IF p = NoPass THEN UNCHANGED listVars ELSE TakeOk(p)
             /\ view' = T /\ pc' = "save"
             /\ paid' = IF leases[key] = NoLease THEN [paid EXCEPT ![key] = p] ELSE paid
    <3>1. acked \subseteq acked' /\ expired' = expired /\ (p \in Passes => p \in acked')
      BY <2>1, <2>3, NodeAssumption DEF listVars, TakeOk
    <3>2. \A k \in Keys : leases[k].source = "pass" => paid'[k] = paid[k]
      BY <1>t, <2>1, <2>3 DEF NodeTypeOK, HistTypeOK
    <3>3. LeaseIsPaidFor'
      BY <2>1, <3>1, <3>2 DEF PaidInv, LeaseIsPaidFor
    <3>4. PaidIn(view, KeyOf[cur])'
      <4>1. CASE leases[key] = NoLease
        <5>1. T[key].source = KindOf[cur] /\ paid'[key] = p
          BY <1>t, <2>1, <2>3, <4>1 DEF admit_as, Tables, NodeTypeOK, HistTypeOK
        <5>2. KindOf[cur] = "pass" => p \in Passes
          BY <2>1, NodeAssumption
        <5> QED BY <2>1, <2>3, <3>1, <5>1, <5>2 DEF PaidIn
      <4>2. CASE leases[key] # NoLease
        BY <2>1, <2>3, <3>3, <4>2 DEF admit_as, PaidIn, LeaseIsPaidFor
      <4> QED BY <4>1, <4>2
    <3> QED BY <2>1, <2>3, <3>1, <3>2, <3>3, <3>4 DEF PaidInv
  <2>4. CASE TakeFails(p) /\ pc' = "reply" /\ answer' = 503 /\ paid' = paid
    BY <2>2, <2>4 DEF TakeFails
  <2> QED BY <1>2, <2>2, <2>3, <2>4, Zenon DEF NodeUpdate, Answer, listVars
<1>3. CASE NodeSave
  <2>1. /\ pc = "save" /\ cur' = cur /\ KeyOf[cur] \in Keys /\ InHand
        /\ UNCHANGED <<paid, leaked, acked, expired>>
    BY <1>3, <1>i DEF NodeSave, InHand, listVars, histVars
  <2>2. CASE leases' = view /\ pc' = "peer"
    <3>1. \A k \in Keys \ {KeyOf[cur]} : view[k] = leases[k]
      BY <2>1 DEF TableInv, ViewIsCurrent
    <3>2. LeaseIsPaidFor'
      BY <2>1, <2>2, <3>1 DEF PaidInv, PaidIn, LeaseIsPaidFor
    <3> QED BY <2>1, <2>2, <3>1, <3>2, PaidInHand
  <2>3. CASE leases' = leases /\ pc' = "undoPass"
    <3>1. LeaseIsPaidFor'
      BY <2>1, <2>3, PaidKept
    <3> QED BY <2>1, <2>3, <3>1, PaidInHand
  <2> QED BY <1>3, <2>2, <2>3 DEF NodeSave
<1>4. CASE NodeAddPeer \/ UndoPeer
  <2>1. /\ pc \in {"peer", "undoPeer"} /\ cur' = cur /\ KeyOf[cur] \in Keys /\ InHand
        /\ UNCHANGED <<leases, paid, leaked, acked, expired>>
        /\ pc' \in {"reply", "undoPeer", "undoLease"}
    BY <1>4, <1>i DEF NodeAddPeer, UndoPeer, InHand, listVars, histVars, Answer
  <2>2. LeaseIsPaidFor'
    BY <2>1, PaidKept
  <2> QED BY <2>1, <2>2, PaidInHand
<1>5. CASE UndoLease
  <2>1. /\ pc = "undoLease" /\ cur' = cur /\ KeyOf[cur] \in Keys /\ InHand /\ pc' = "undoPass"
        /\ UNCHANGED <<paid, acked, expired>> /\ leaked \subseteq leaked'
    BY <1>5, <1>i DEF UndoLease, InHand, listVars
  <2>2. \A k \in Keys : /\ leases'[k].source = "pass" => leases'[k] = leases[k]
                        /\ k = KeyOf[cur] => leases'[k].source # "pass" \/ k \in leaked'
    BY <1>5, <1>t, <2>1 DEF UndoLease, revoke, Tables
  <2>3. LeaseIsPaidFor'
    BY <2>1, <2>2, PaidKept
  <2> QED BY <2>1, <2>2, <2>3, PaidInHand
<1>6. CASE UndoPass
  <2>1. /\ pc = "undoPass" /\ InHand /\ UNCHANGED <<leases, paid, leaked, expired>>
        /\ pc' # "save" /\ ~InHand'
    BY <1>6 DEF UndoPass, InHand, histVars, Rest, Answer, listVars, GiveBackOk, GiveBackFails
  <2>2. acked' = acked \/ (acked' = acked \ {PassOf[cur]} /\ PassOf[cur] \in Passes)
    BY <1>6 DEF UndoPass, listVars, GiveBackOk, GiveBackFails, NodeTypeOK, ListTypeOK
  <2>3. LeaseIsPaidFor'
    BY <2>1, <2>2 DEF PaidInv, LeaseIsPaidFor
  <2> QED BY <2>1, <2>3, PaidAtRest
<1>7. CASE Reply
  <2>1. UNCHANGED <<leases, paid, leaked, acked, expired>> /\ LeaseIsPaidFor'
    BY <1>7, PaidKept DEF Reply, listVars
  <2>2. CASE Rest
    BY <2>1, <2>2, PaidAtRest DEF Rest, InHand
  <2>3. CASE pc' = "undoPeer" /\ answer = 200 /\ cur' = cur
    BY <1>7, <2>1, <2>3, PaidInHand DEF Reply, InHand
  <2> QED BY <1>7, <2>2, <2>3 DEF Reply
<1>8. CASE ReapSave
  <2>1. /\ UNCHANGED <<paid, leaked, acked, expired>> /\ pc' # "save" /\ ~InHand'
        /\ leases' \in {leases, view}
    BY <1>8 DEF ReapSave, listVars, histVars, Rest, InHand
  <2>2. \A k \in Keys : leases'[k].source = "pass" => leases'[k] = leases[k]
    BY <1>8, <1>t, <2>1 DEF ReapSave, TableInv, ViewIsCurrent
  <2> QED BY <2>1, <2>2, PaidKept, PaidAtRest
<1>9. CASE ReapTick \/ ReapPeers \/ Start \/ StartPeers \/ Stop \/ Crash
  <2>1. UNCHANGED <<leases, paid, leaked, acked, expired>> /\ pc' # "save" /\ ~InHand'
    BY <1>9 DEF ReapTick, ReapPeers, Start, StartPeers, Stop, Crash, Halt, Prune, Reload,
       listVars, histVars, Rest, InHand
  <2> QED BY <2>1, PaidKept, PaidAtRest
<1>a. ASSUME NEW k \in Keys, OpAdmit(k) \/ OpRevoke(k) PROVE PaidInv'
  <2>1. /\ UNCHANGED <<paid, leaked, acked, expired, pc, cur, answer>> /\ pc # "save"
    BY <1>a DEF OpAdmit, OpRevoke, Unlocked, listVars, histVars, loopVars
  <2>2. \A j \in Keys : leases'[j].source = "pass" => leases'[j] = leases[j]
    BY <1>a, <1>t DEF OpAdmit, OpRevoke, admit_as, revoke, Tables
  <2>3. LeaseIsPaidFor'
    BY <2>1, <2>2, PaidKept
  <2> QED BY <2>1, <2>2, <2>3 DEF PaidInv, InHand
<1>b. ASSUME NEW p \in Passes, PassExpires(p) PROVE PaidInv'
  <2>1. /\ UNCHANGED <<leases, view, paid, leaked, acked, pc, cur, answer>>
        /\ expired \subseteq expired'
    BY <1>b DEF PassExpires, Lapse, loopVars, histVars
  <2>2. LeaseIsPaidFor'
    BY <2>1, PaidKept
  <2> QED BY <2>1, <2>2 DEF PaidInv, PaidIn, InHand
<1>c. CASE \/ \E r \in Requests : Check(r) \/ Send(r) \/ GiveUp(r) \/ Drop(r) \/ Deliver(r)
           \/ OpDevice
           \/ \E k \in Keys : GoQuiet(k) \/ ComeBack(k)
           \/ UNCHANGED nodeVars
  <2>1. UNCHANGED <<leases, view, paid, leaked, acked, expired, pc, cur, answer>>
    BY <1>c DEF Check, Send, GiveUp, Drop, Deliver, OpDevice, GoQuiet, ComeBack, nodeVars,
       loopVars, histVars, listVars
  <2> QED BY <2>1 DEF PaidInv, PaidIn, LeaseIsPaidFor, InHand
<1> QED BY <1>1, <1>2, <1>3, <1>4, <1>5, <1>6, <1>7, <1>8, <1>9, <1>a, <1>b, <1>c, Steps, Zenon

-----------------------------------------------------------------------------
(* The device holds the leases.                                            *)

LEMMA DeviceInit == NodeInit => DeviceInv
BY DEF NodeInit, DeviceInv, NoTable, NoPeers, NoLease

\* After a step that some write or call failed in, or with the operator about,
\* nothing is claimed of the device.
LEMMA DeviceExcused ==
    ASSUME DeviceInv, faults' # 0 \/ ops' # 0, ops' = 0 => op' = NoOp,
           ops' = 0 /\ pc' \in {"peer", "start"} => view' = leases',
           ops' = 0 /\ pc' = "start" => peers' = NoPeers,
           pc' # "save"
    PROVE  DeviceInv'
BY DEF DeviceInv

\* A step after which the device and the table agree, with no task half done.
LEMMA DeviceAgrees ==
    ASSUME DeviceInv, UNCHANGED <<op, ops>>,
           pc' \in {"select", "update", "undoPeer", "undoPass", "reply", "reapSave", "down"},
           faults' = 0 /\ ops = 0 /\ pc' # "down" => \A k \in Keys : peers'[k] = leases'[k].ip
    PROVE  DeviceInv'
BY DEF DeviceInv

LEMMA DeviceNext ==
    ASSUME DeviceInv, TableInv, NodeTypeOK, [NodeNext]_nodeVars
    PROVE  DeviceInv'
<1>t. /\ leases \in Tables /\ view \in Tables /\ peers \in [Keys -> 0..Hosts]
      /\ NoLease.ip = 0 /\ \A l \in Lease : l.ip # 0
      /\ faults \in Nat /\ ops \in Nat /\ MaxFaults \in Nat
  BY NodeAssumption DEF NodeTypeOK, TablesTypeOK, NoLease, Lease, CountsTypeOK
<1>i. pc \in {"update", "save", "peer", "undoPeer", "undoLease", "undoPass", "reply"}
        => cur \in Requests /\ KeyOf[cur] \in Keys
  BY NodeAssumption DEF NodeTypeOK, LoopTypeOK
<1>f. Fault => faults' # 0
  BY <1>t DEF Fault
<1>s. pc \notin {"down", "start", "peer", "undoLease", "reapPeers"} /\ faults = 0 /\ ops = 0
        => \A k \in Keys : peers[k] = leases[k].ip
  BY DEF DeviceInv
<1>1. CASE TakeRequest
  <2>1. /\ UNCHANGED <<leases, peers, op, ops, faults>> /\ pc = "select"
        /\ pc' \in {"select", "update", "reply"}
    BY <1>1 DEF TakeRequest, loopVars, worldVars, Answer
  <2> QED BY <2>1, <1>s, DeviceAgrees
<1>2. CASE NodeUpdate
  <2>1. /\ UNCHANGED <<leases, peers, op, ops, cur>> /\ pc = "update"
        /\ cur \in Requests /\ KeyOf[cur] \in Keys /\ KindOf[cur] \in Sources
    BY <1>2, <1>i, NodeAssumption DEF NodeUpdate, Sources
  <2>2. CASE pc' \in {"undoPass", "reply"} /\ (Fault \/ faults' = faults)
    BY <1>f, <1>s, <2>1, <2>2, DeviceAgrees
  <2>3. CASE /\ view' = admit_as(leases, KeyOf[cur], KindOf[cur]) /\ pc' = "save"
             /\ ~refusal_for_room(leases, cur) /\ faults' = faults
    <3>1. leases[KeyOf[cur]] # NoLease \/ has_room(leases)
      BY <2>3 DEF refusal_for_room
    <3>2. view'[KeyOf[cur]] \in Lease
      BY <1>t, <2>1, <2>3, <3>1, AdmitTable
    <3>3. NoLease \notin Lease
      BY <1>t
    <3>4. leases[KeyOf[cur]] \in {NoLease, view'[KeyOf[cur]]}
      BY <2>3 DEF admit_as
    <3>5. faults = 0 /\ ops = 0 => \A k \in Keys : peers[k] = leases[k].ip
      BY <1>s, <2>1
    <3> QED BY <2>1, <2>3, <3>2, <3>3, <3>4, <3>5 DEF DeviceInv
  <2> QED BY <1>2, <2>2, <2>3, Zenon DEF NodeUpdate, Answer
<1>3. CASE NodeSave
  <2>1. /\ UNCHANGED <<peers, view, op, ops, cur>> /\ pc = "save" /\ KeyOf[cur] \in Keys
    BY <1>3, <1>i DEF NodeSave
  <2>2. CASE leases' = view /\ pc' = "peer" /\ faults' = faults
    <3>1. \A k \in Keys \ {KeyOf[cur]} : view[k] = leases[k]
      BY <2>1 DEF TableInv, ViewIsCurrent
    <3>2. view[KeyOf[cur]] # NoLease /\ leases[KeyOf[cur]] \in {NoLease, view[KeyOf[cur]]}
      BY <2>1 DEF DeviceInv
    <3>3. faults = 0 /\ ops = 0 => \A k \in Keys : peers[k] = leases[k].ip
      BY <1>s, <2>1
    <3> QED BY <1>t, <2>1, <2>2, <3>1, <3>2, <3>3 DEF DeviceInv
  <2>3. CASE Fault /\ pc' = "undoPass"
    BY <1>f, <2>1, <2>3, DeviceAgrees
  <2> QED BY <1>3, <2>2, <2>3 DEF NodeSave
<1>4. CASE NodeAddPeer
  <2>1. /\ UNCHANGED <<leases, op, ops, cur>> /\ pc = "peer" /\ KeyOf[cur] \in Keys
    BY <1>4, <1>i DEF NodeAddPeer
  <2>2. CASE /\ peers' = add_peer(peers, KeyOf[cur], view[KeyOf[cur]].ip)
             /\ pc' = "reply" /\ faults' = faults
    <3>1. ASSUME faults = 0, ops = 0, NEW k \in Keys PROVE peers'[k] = leases[k].ip
      <4>1. view = leases /\ leases[KeyOf[cur]] \in Lease
        BY <1>t, <2>1, <3>1 DEF DeviceInv, Tables
      <4>2. k # KeyOf[cur] => peers[k] = leases[k].ip
        BY <2>1, <3>1 DEF DeviceInv
      <4>3. k # KeyOf[cur] => leases[k].ip # leases[KeyOf[cur]].ip
        <5>1. leases[k] # NoLease => leases[k].ip # leases[KeyOf[cur]].ip \/ k = KeyOf[cur]
          BY <1>t, <2>1, <4>1 DEF TableInv, Distinct, leased
        <5> QED BY <1>t, <4>1, <5>1
      <4> QED BY <2>2, <4>1, <4>2, <4>3 DEF add_peer
    <3> QED BY <2>1, <2>2, <3>1, DeviceAgrees
  <2>3. CASE Fault /\ pc' = "undoPeer"
    BY <1>f, <2>1, <2>3, DeviceAgrees
  <2> QED BY <1>4, <2>2, <2>3 DEF NodeAddPeer, Answer
<1>5. CASE UndoPeer
  <2>1. /\ UNCHANGED <<leases, view, op, ops, cur>> /\ pc = "undoPeer" /\ pc' = "undoLease"
        /\ KeyOf[cur] \in Keys
    BY <1>5, <1>i DEF UndoPeer, loopVars
  <2>2. CASE peers' = remove_peers(peers, {KeyOf[cur]}) /\ faults' = faults
    <3>1. faults = 0 /\ ops = 0 => \A k \in Keys : peers[k] = leases[k].ip
      BY <1>s, <2>1
    <3>2. \A k \in Keys : peers'[k] = IF k = KeyOf[cur] THEN 0 ELSE peers[k]
      BY <2>2 DEF remove_peers
    <3> QED BY <2>1, <2>2, <3>1, <3>2 DEF DeviceInv
  <2>3. CASE Fault
    BY <1>f, <2>1, <2>3, DeviceExcused DEF DeviceInv
  <2> QED BY <1>5, <2>2, <2>3 DEF UndoPeer
<1>6. CASE UndoLease
  <2>1. /\ UNCHANGED <<peers, op, ops, cur>> /\ pc = "undoLease" /\ pc' = "undoPass"
        /\ KeyOf[cur] \in Keys
    BY <1>6, <1>i DEF UndoLease, loopVars
  <2>2. CASE leases' = revoke(leases, KeyOf[cur]) /\ faults' = faults
    <3>1. faults = 0 /\ ops = 0 =>
            /\ peers[KeyOf[cur]] = 0
            /\ \A k \in Keys : k # KeyOf[cur] => peers[k] = leases[k].ip
      BY <2>1 DEF DeviceInv
    <3>2. \A k \in Keys : leases'[k] = IF k = KeyOf[cur] THEN NoLease ELSE leases[k]
      BY <1>t, <2>2 DEF revoke, Tables
    <3> QED BY <1>t, <2>1, <2>2, <3>1, <3>2, DeviceAgrees
  <2>3. CASE Fault
    BY <1>f, <2>1, <2>3, DeviceAgrees
  <2> QED BY <1>6, <2>2, <2>3 DEF UndoLease
<1>7. CASE UndoPass \/ Reply
  <2>1. /\ UNCHANGED <<leases, peers, op, ops>> /\ pc \in {"undoPass", "reply"}
        /\ pc' \in {"select", "reply", "undoPeer"} /\ (Fault \/ faults' = faults)
    BY <1>7 DEF UndoPass, Reply, Rest, Answer, worldVars
  <2> QED BY <1>f, <1>s, <2>1, DeviceAgrees
<1>8. CASE ReapTick
  <2>1. /\ UNCHANGED <<leases, peers, op, ops>> /\ pc = "select"
        /\ pc' \in {"select", "reapSave"} /\ (Fault \/ faults' = faults)
    BY <1>8 DEF ReapTick
  <2> QED BY <1>f, <1>s, <2>1, DeviceAgrees
<1>9. CASE ReapSave
  <2>1. UNCHANGED <<peers, op, ops>> /\ pc = "reapSave"
    BY <1>9 DEF ReapSave
  <2>2. CASE leases' = view /\ pc' = "reapPeers" /\ UNCHANGED <<gone, faults>>
    <3>1. \A k \in Keys : view[k] = IF k \in gone THEN NoLease ELSE leases[k]
      BY <2>1 DEF TableInv, ViewIsCurrent
    <3>2. faults = 0 /\ ops = 0 => \A k \in Keys : peers[k] = leases[k].ip
      BY <1>s, <2>1
    <3>3. gone \subseteq Keys
      BY DEF NodeTypeOK, TablesTypeOK
    <3> QED BY <2>1, <2>2, <3>1, <3>2, <3>3 DEF DeviceInv
  <2>3. CASE Fault /\ pc' = "select"
    BY <1>f, <2>1, <2>3, DeviceAgrees
  <2> QED BY <1>9, <2>2, <2>3 DEF ReapSave, Rest
<1>a. CASE ReapPeers
  <2>1. UNCHANGED <<leases, op, ops>> /\ pc = "reapPeers" /\ pc' = "select"
    BY <1>a DEF ReapPeers, Rest
  <2>2. CASE peers' = remove_peers(peers, gone) /\ faults' = faults
    <3>1. faults = 0 /\ ops = 0 => /\ \A k \in Keys \ gone : peers[k] = leases[k].ip
                                   /\ \A k \in gone : leases[k] = NoLease
      BY <2>1 DEF DeviceInv
    <3>2. \A k \in Keys : peers'[k] = IF k \in gone THEN 0 ELSE peers[k]
      BY <2>2 DEF remove_peers
    <3>3. faults = 0 /\ ops = 0 => \A k \in Keys : peers'[k] = leases[k].ip
      BY <1>t, <3>1, <3>2
    <3> QED BY <2>1, <2>2, <3>3, DeviceAgrees
  <2>3. CASE Fault
    BY <1>f, <2>1, <2>3, DeviceAgrees
  <2> QED BY <1>a, <2>2, <2>3 DEF ReapPeers
<1>b. CASE Start
  BY <1>b DEF Start, DeviceInv, worldVars
<1>c. CASE StartPeers
  <2>1. UNCHANGED <<leases, op, ops>> /\ pc = "start"
    BY <1>c DEF StartPeers
  <2>2. CASE /\ peers' = [k \in Keys |-> IF view[k] # NoLease THEN view[k].ip
                                      ELSE IF peers[k] \in used(view) THEN 0 ELSE peers[k]]
             /\ pc' = "select" /\ faults' = faults
    <3>1. ops = 0 => view = leases /\ peers = NoPeers
      BY <2>1 DEF DeviceInv
    <3>2. ops = 0 => \A k \in Keys : peers'[k] = leases[k].ip
      BY <1>t, <2>2, <3>1 DEF NoPeers
    <3> QED BY <2>1, <2>2, <3>2, DeviceAgrees
  <2>3. CASE Fault /\ pc' = "down"
    BY <1>f, <2>1, <2>3, DeviceAgrees
  <2> QED BY <1>c, <2>2, <2>3 DEF StartPeers, Rest
<1>d. CASE Stop \/ Crash
  <2>1. UNCHANGED <<leases, op, ops>> /\ pc' = "down"
    BY <1>d DEF Stop, Crash, Halt
  <2> QED BY <2>1, DeviceAgrees
<1>e. ASSUME NEW k \in Keys, OpAdmit(k) \/ OpRevoke(k) PROVE DeviceInv'
  <2>1. ops' # 0 /\ pc' = pc /\ pc # "save"
    BY <1>e, <1>t DEF OpAdmit, OpRevoke, Unlocked, loopVars
  <2> QED BY <2>1, DeviceExcused
<1>g. CASE OpDevice
  <2>1. ops' = ops /\ ops # 0 /\ UNCHANGED <<pc, view, leases, cur>> /\ op' = NoOp
    BY <1>g DEF OpDevice, DeviceInv, loopVars
  <2> QED BY <2>1 DEF DeviceInv
<1>h. CASE \/ \E r \in Requests : Check(r) \/ Send(r) \/ GiveUp(r) \/ Drop(r) \/ Deliver(r)
           \/ \E p \in Passes : PassExpires(p)
           \/ \E k \in Keys : GoQuiet(k) \/ ComeBack(k)
           \/ UNCHANGED nodeVars
  <2>1. UNCHANGED <<leases, view, peers, pc, cur, gone, op, ops, faults>>
    BY <1>h DEF Check, Send, GiveUp, Drop, Deliver, PassExpires, GoQuiet, ComeBack, nodeVars,
       loopVars, worldVars
  <2> QED BY <2>1 DEF DeviceInv
<1> QED BY <1>1, <1>2, <1>3, <1>4, <1>5, <1>6, <1>7, <1>8, <1>9, <1>a, <1>b, <1>c, <1>d,
           <1>e, <1>g, <1>h, Steps, Zenon

-----------------------------------------------------------------------------
(* The theorems.                                                           *)

LEMMA NodeInvHolds == NodeSpec => []NodeInv
<1>1. NodeInit => NodeInv
  BY TypeInit, SpendInit, TableInit DEF NodeInv
<1>2. NodeInv /\ [NodeNext]_nodeVars => NodeInv'
  BY TypeNext, SpendNext, TableNext DEF NodeInv
<1> QED BY <1>1, <1>2, PTL DEF NodeSpec

\* The state of the node is always well formed: in particular every lease has
\* an address of the subnet and a source, so next_free never runs out under
\* the room checks of main.rs and leases.rs.
THEOREM NodeTypes == NodeSpec => []NodeTypeOK
<1>1. NodeInv => NodeTypeOK
  BY DEF NodeInv
<1> QED BY <1>1, NodeInvHolds, PTL

\* A valid pass is handed at most one invite, whatever is repeated, late, cut
\* off by a crash or not written (main.rs, the admission branch of run).
THEOREM PassAdmitsOnce == NodeSpec => []AdmitsOnce
<1>1. NodeInv => AdmitsOnce
  BY DEF NodeInv, SpendInv
<1> QED BY <1>1, NodeInvHolds, PTL

\* No two leases share an address, with the node, its reaper and the operator
\* all changing the table (leases.rs, update and next_free).
THEOREM LeasesAreDistinct == NodeSpec => []AddressesDistinct
<1>1. NodeInv => AddressesDistinct
  BY DEF NodeInv, TableInv, AddressesDistinct
<1> QED BY <1>1, NodeInvHolds, PTL

\* The node never overwrites what the operator wrote about another key while
\* it was changing the table (leases.rs, update: read, change and write under
\* one lock).
THEOREM OperatorsLeasesKept == NodeSpec => OthersLeasesKept
<1> DEFINE Kept == \A k \in Keys : leases'[k] # leases[k] =>
                      \/ ops' # ops
                      \/ cur # NoReq /\ k = KeyOf[cur]
                      \/ pc = "reapSave" /\ k \in gone /\ leases'[k] = NoLease
<1>1. NodeInv /\ [NodeNext]_nodeVars => [Kept]_nodeVars
  BY LeaseSteps DEF NodeInv
<1>2. OthersLeasesKept <=> [][Kept]_nodeVars
  BY DEF OthersLeasesKept
<1> HIDE DEF Kept
<1> QED BY <1>1, <1>2, NodeInvHolds, PTL DEF NodeSpec

\* The node is a caller SpentList allows, so what SpentPasses is proved to
\* implement is what the node runs on (main.rs, run and undo_admission).
THEOREM NodeUsesListRightly == NodeSpec => UsesListRightly
<1>1. NodeInit => ListInit
  BY DEF NodeInit
<1>2. NodeInv /\ [NodeNext]_nodeVars => [ListNext]_listVars
  BY ListStep DEF NodeInv
<1> QED BY <1>1, <1>2, NodeInvHolds, PTL DEF NodeSpec, UsesListRightly, ListSpec

\* All four invariants together.
LEMMA RestHolds == NodeSpec => [](NodeInv /\ GoodInv /\ PaidInv /\ DeviceInv)
<1> DEFINE Rests == GoodInv /\ PaidInv /\ DeviceInv
<1>1. NodeInit => Rests
  BY GoodInit, PaidInit, DeviceInit
<1>2. NodeInv /\ Rests /\ [NodeNext]_nodeVars => Rests'
  BY GoodNext, PaidNext, DeviceNext DEF NodeInv
<1> HIDE DEF Rests
<1>3. NodeSpec => []Rests
  BY <1>1, <1>2, NodeInvHolds, PTL DEF NodeSpec
<1>4. NodeSpec => [](NodeInv /\ Rests)
  BY <1>3, NodeInvHolds, PTL
<1> QED BY <1>4 DEF Rests

\* A lease bought with a pass is on disk only while its pass is spent there,
\* and a pass held as spent was handed an invite, is in the loop's hands, was
\* cut off by a crash or failed to be written: whatever fails, the pass is
\* spent before the lease is saved, and given back when the lease is not
\* (main.rs, run and undo_admission; leases.rs, SpentPasses).
THEOREM PassStandsForLease == NodeSpec => []PassForLease
<1>1. ASSUME NodeInv, GoodInv, PaidInv PROVE PassForLease
  <2>1. LeaseIsPaidFor
    BY <1>1 DEF PaidInv
  <2>2. ASSUME NEW p \in spent \ (doubt \cup cut), ~(cur # NoReq /\ PassOf[cur] = p)
        PROVE  won[p] # {}
    <3>1. p \in Passes
      BY <1>1, <2>2 DEF NodeInv, NodeTypeOK, ListTypeOK
    <3>2. Served(p)
      BY <1>1, <2>2, <3>1 DEF GoodInv
    <3> QED BY <2>2, <3>2 DEF Served
  <2> QED BY <2>1, <2>2 DEF PassForLease, SpentForSomething
<1> QED BY <1>1, RestHolds, PTL

\* Whenever the loop is between two tasks, nothing failed and the operator kept
\* away, the device lets in the leases of the table at their addresses, and
\* no one else (main.rs, run: the admission branch, undo_admission, the reaper
\* and the start).
THEOREM DeviceHoldsLeases == NodeSpec => []DeviceMatchesLeases
<1>1. DeviceInv => DeviceMatchesLeases
  BY DEF DeviceInv, DeviceMatchesLeases
<1> QED BY <1>1, RestHolds, PTL
=============================================================================
