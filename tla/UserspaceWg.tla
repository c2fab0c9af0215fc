---------------------------- MODULE UserspaceWg ----------------------------
(* WireGuard in userspace on a node: the control socket's set requests, which  *)
(* add, replace and remove peers, against the loops that carry packets. Both   *)
(* loops take a peer out of the table and use it after the table's lock is     *)
(* gone, while a set may remove it or give its key another one.                *)
EXTENDS Naturals, FiniteSets

CONSTANTS WgKeys, WgAddrs, WgPlaces,   \* peers' keys, addresses in the tunnel, places on the network
          NoPlace,
          MaxPeers                     \* a bound of the runs: peers ever made

VARIABLES by_index,      \* index -> peer, for the peers in the table
          by_key,     \* key -> index
          next_index,
          peer_of,    \* peer made -> its key, index, allowed addresses
          place_of,   \* peer made -> its endpoint
          session,    \* peer made -> whether its key has shaken hands with this very peer
          down, upward   \* what the tun loop and the udp loop have in hand

wgVars == <<by_index, by_key, next_index, peer_of, place_of, session, down, upward>>

Idle0 == [peer |-> 0, addr |-> "", key |-> ""]
WgInit ==
    /\ by_index = <<>> /\ by_key = <<>> /\ next_index = 1 /\ peer_of = <<>> /\ place_of = <<>> /\ session = {}
    /\ down = Idle0 /\ upward = Idle0

NewPeer == Cardinality(DOMAIN peer_of) + 1
with(f, k, v) == [x \in DOMAIN f \cup {k} |-> IF x = k THEN v ELSE f[x]]
less(f, S) == [x \in DOMAIN f \ S |-> f[x]]

----------------------------------------------------------------------------
(* A bug: a key set again is given the next index, and the old peer stays. *)
MutIndexFor(k) == next_index

(* A key that is in the table keeps its index. *)
index_for(k) == IF k \in DOMAIN by_key THEN by_key[k] ELSE next_index

(* apply_set, one section: a peer is made anew, tunnel and all, with the index,  *)
(* the endpoint and (unless they are replaced) the addresses its key had. The    *)
(* node gives an address to one key at a time.                                   *)
SetPeer(k, a, replace) ==
    /\ NewPeer <= MaxPeers
    /\ LET had == k \in DOMAIN by_key
           old == by_index[by_key[k]]
           i == index_for(k)
           kept_addrs == IF had /\ ~replace THEN peer_of[old].allowed ELSE {} IN
         /\ \A j \in DOMAIN by_index : peer_of[by_index[j]].key # k => a \notin peer_of[by_index[j]].allowed
         /\ peer_of' = with(peer_of, NewPeer, [key |-> k, index |-> i, allowed |-> kept_addrs \cup {a}])
         /\ place_of' = with(place_of, NewPeer, IF had THEN place_of[old] ELSE NoPlace)
         /\ by_index' = with(by_index, i, NewPeer) /\ by_key' = with(by_key, k, i)
         /\ next_index' = (IF i = next_index THEN next_index + 1 ELSE next_index)
    /\ UNCHANGED <<session, down, upward>>
RemovePeer(k) ==
    /\ k \in DOMAIN by_key
    /\ by_index' = less(by_index, {by_key[k]}) /\ by_key' = less(by_key, {k})
    /\ UNCHANGED <<next_index, peer_of, place_of, session, down, upward>>
ReplacePeers ==
    /\ DOMAIN by_key # {} /\ by_index' = <<>> /\ by_key' = <<>>
    /\ UNCHANGED <<next_index, peer_of, place_of, session, down, upward>>

----------------------------------------------------------------------------
(* udp_loop: a handshake is found by the key it names, any other packet by the  *)
(* index it carries, which is that of the peer its sender shook hands with.     *)
UdpTakes(k, i) ==
    /\ upward = Idle0 /\ i \in DOMAIN by_index
    /\ upward' = [peer |-> by_index[i], addr |-> "", key |-> k]
    /\ UNCHANGED <<by_index, by_key, next_index, peer_of, place_of, session, down>>
(* It is authentic when the peer is the sender's and, but for a handshake, has a *)
(* session; then its place is noted, and only its own addresses may send.        *)
UdpHandshake(src) ==
    /\ upward.peer # 0 /\ peer_of[upward.peer].key = upward.key
    /\ session' = session \cup {upward.peer} /\ place_of' = [place_of EXCEPT ![upward.peer] = src]
    /\ upward' = Idle0 /\ UNCHANGED <<by_index, by_key, next_index, peer_of, down>>
UdpData(src, from) ==
    /\ upward.peer \in session /\ peer_of[upward.peer].key = upward.key /\ upward.addr = ""
    /\ place_of' = [place_of EXCEPT ![upward.peer] = src]
    /\ upward' = (IF from \in peer_of[upward.peer].allowed THEN [upward EXCEPT !.addr = from] ELSE Idle0)
    /\ UNCHANGED <<by_index, by_key, next_index, peer_of, session, down>>
UdpDone ==   \* written to the tunnel, or not authentic and dropped
    /\ upward # Idle0 /\ upward' = Idle0
    /\ UNCHANGED <<by_index, by_key, next_index, peer_of, place_of, session, down>>

(* tun_loop: the peer that has the address, then its endpoint and tunnel. *)
TunTakes(a) ==
    /\ down = Idle0
    /\ \E i \in DOMAIN by_index : a \in peer_of[by_index[i]].allowed
                               /\ down' = [peer |-> by_index[i], addr |-> a, key |-> peer_of[by_index[i]].key]
    /\ UNCHANGED <<by_index, by_key, next_index, peer_of, place_of, session, upward>>
TunSends ==   \* sent where the peer was last heard from, or dropped with no endpoint
    /\ down # Idle0 /\ down' = Idle0
    /\ UNCHANGED <<by_index, by_key, next_index, peer_of, place_of, session, upward>>

WgNext ==
    \/ \E k \in WgKeys : RemovePeer(k) \/ \E a \in WgAddrs, r \in BOOLEAN : SetPeer(k, a, r)
    \/ ReplacePeers \/ UdpDone \/ TunSends
    \/ \E k \in WgKeys, i \in 1..MaxPeers : UdpTakes(k, i)
    \/ \E p \in WgPlaces : UdpHandshake(p) \/ \E a \in WgAddrs : UdpData(p, a)
    \/ \E a \in WgAddrs : TunTakes(a)

WgSpec == WgInit /\ [][WgNext]_wgVars

----------------------------------------------------------------------------
(* Whatever sets, removals and packets come between each other: the two indexes  *)
(* agree, no key has two peers and no address two owners; and what comes out of  *)
(* the tunnel has an address its sender was given, though its peer be replaced.  *)
WgSound ==
    /\ \A k \in DOMAIN by_key : by_key[k] \in DOMAIN by_index /\ peer_of[by_index[by_key[k]]].key = k
    /\ \A i \in DOMAIN by_index : /\ peer_of[by_index[i]].index = i /\ i < next_index
                               /\ peer_of[by_index[i]].key \in DOMAIN by_key /\ by_key[peer_of[by_index[i]].key] = i
    /\ \A i, j \in DOMAIN by_index : i # j => peer_of[by_index[i]].allowed \cap peer_of[by_index[j]].allowed = {}
    /\ upward.addr # "" => upward.addr \in peer_of[upward.peer].allowed /\ peer_of[upward.peer].key = upward.key

----------------------------------------------------------------------------
(* What it rests on: a peer once made is never unmade, only taken out of the     *)
(* table, so what a loop has in hand is a peer still; the next is a new one.     *)
PeersCounted == DOMAIN peer_of = 1..Cardinality(DOMAIN peer_of) /\ IsFiniteSet(DOMAIN peer_of)
PeersMade ==
    /\ PeersCounted
    /\ next_index \in Nat /\ DOMAIN by_index \subseteq Nat
    /\ \A i \in DOMAIN by_index : by_index[i] \in DOMAIN peer_of
    /\ session \subseteq DOMAIN peer_of
    /\ upward \in [peer : {0} \cup DOMAIN peer_of, addr : WgAddrs \cup {""}, key : WgKeys \cup {""}]
    /\ upward.addr # "" => upward.peer \in DOMAIN peer_of
WgInv == PeersMade /\ WgSound
=============================================================================
