---------------------------- MODULE DhtServices ----------------------------
(* The service descriptors a DHT node holds: its own, republished while it   *)
(* runs and withdrawn when a site goes; the ones it looked up; and the ones  *)
(* other nodes push to it, under a quota and with a full store to share.     *)
(* A descriptor is its service and its revision, the signer's clock.         *)
EXTENDS Naturals, Sequences, FiniteSets

CONSTANTS OwnSvcs, OtherSvcs,   \* services whose key this node holds, and the rest
          Pushers,              \* other nodes, which push descriptors
          MAX_STORED_SERVICES, DESCRIPTOR_TTL_SECS, MAX_CLOCK_SKEW_SECS, MAX_NEW_PER_PUSHER_PER_HOUR,
          HOUR, MAX_DELIVERERS, LOCAL_DESCRIPTOR_FRESH_SECS,
          LastSec, MaxSigned, LookedUp  \* bounds of the runs: the clock, the descriptors signed elsewhere, the services looked up

ASSUME ServicesConstants ==
    /\ {"own", "fetched"} \cap Pushers = {} /\ OwnSvcs \cap OtherSvcs = {}
    /\ LookedUp \subseteq OwnSvcs \cup OtherSvcs
    /\ {DESCRIPTOR_TTL_SECS, MAX_CLOCK_SKEW_SECS, MAX_NEW_PER_PUSHER_PER_HOUR, HOUR, LastSec} \subseteq Nat

VARIABLES clock,
          entries,      \* service -> revision, origin ("own", "fetched" or the pusher), delivered_by
          introduced,   \* pusher -> when it introduced each new address
          own_services, \* what the republisher announces
          cycle,        \* what this republishing cycle has still to look at
          signing,      \* <<service, revision>> signed here and not in the store yet
          looking,      \* the service being looked up, with the copy held and the time when the lookup began
          signed,       \* every descriptor signed so far
          own_kept      \* own descriptors put in the store and not withdrawn

svVars == <<clock, entries, introduced, own_services, cycle, signing, looking, signed, own_kept>>
Svcs == OwnSvcs \cup OtherSvcs
NoRev == 0

SvInit ==
    /\ clock = 1 /\ entries = [s \in {} |-> 0] /\ introduced = [p \in {} |-> <<>>] /\ own_services = {} /\ cycle = {} /\ signing = {}
    /\ looking = [s \in {} |-> 0] /\ signed = {} /\ own_kept = [s \in OwnSvcs |-> NoRev]

----------------------------------------------------------------------------
expired(rev, now) == rev + DESCRIPTOR_TTL_SECS <= now
held(s) == s \in DOMAIN entries
get(s, now) == held(s) /\ ~expired(entries[s].rev, now)
future(rev, now) == rev > now + MAX_CLOCK_SKEW_SECS

note_delivery(by, origin) ==
    IF origin \in Pushers /\ Cardinality(by) < MAX_DELIVERERS THEN by \cup {origin} ELSE by

(* An update keeps the stronger origin, and the first pusher's name. *)
merged_origin(old, new) ==
    CASE old = "own" \/ new = "own" -> "own"
      [] old \in Pushers /\ new \in Pushers -> old
      [] old = "fetched" /\ new \in Pushers -> "fetched"
      [] OTHER -> new

(* The window of a pusher's new addresses: those older than an hour leave it from the front. *)
times_of(by) == IF by \in DOMAIN introduced THEN introduced[by] ELSE <<>>
stale(w, now) == CHOOSE n \in 0..Len(w) : /\ \A i \in 1..n : w[i] + HOUR <= now
                                          /\ n < Len(w) => w[n + 1] + HOUR > now
window(by, now) == LET w == times_of(by) IN SubSeq(w, stale(w, now) + 1, Len(w))
windows_with(by, w) == [p \in DOMAIN introduced \cup {by} |-> IF p = by THEN w ELSE introduced[p]]
without(gone) == [s \in DOMAIN entries \ gone |-> entries[s]]

(* evict_one: every expired entry; else the oldest looked-up copy; else the  *)
(* oldest entry only the heaviest pusher delivered, unless it is the comer.  *)
sole(s, p) == entries[s].origin = p /\ Cardinality(entries[s].by) <= 1
share_of(p) == {s \in DOMAIN entries : sole(s, p)}
oldest(set) == {s \in set : \A t \in set : entries[s].rev <= entries[t].rev}
heaviest == {p \in Pushers : share_of(p) # {} /\ \A q \in Pushers : Cardinality(share_of(q)) <= Cardinality(share_of(p))}

(* A bug: with nothing expired, the oldest entry goes, whosever it is. *)
MutEvictOne(origin, now) ==
    LET dead == {s \in DOMAIN entries : expired(entries[s].rev, now)}
    IN  IF dead # {} THEN {dead} ELSE {{s} : s \in oldest(DOMAIN entries)}

(* The sets of entries that may go, by which of several equals is met first. *)
evict_one(origin, now) ==
    LET dead == {s \in DOMAIN entries : expired(entries[s].rev, now)}
        fetched == {s \in DOMAIN entries : entries[s].origin = "fetched"}
    IN  CASE dead # {} -> {dead}
          [] dead = {} /\ fetched # {} -> {{s} : s \in oldest(fetched)}
          [] OTHER -> UNION {{{s} : s \in oldest(share_of(p))} : p \in heaviest \ {origin}}

(* A new address introduced by a pusher counts against its hour. *)
introduce(s, rev, origin, gone, now) ==
    /\ entries' = [t \in (DOMAIN entries \ gone) \cup {s} |->
                     IF t = s THEN [rev |-> rev, origin |-> origin, by |-> note_delivery({}, origin)] ELSE entries[t]]
    /\ introduced' = IF origin \in Pushers THEN windows_with(origin, Append(window(origin, now), now)) ELSE introduced

(* ServiceStore::put of a descriptor the service signed. Asking for a        *)
(* pusher's window makes one for it, so the map of windows is never trimmed: *)
(* the pusher is always in it by the time its size is looked at.             *)
put(s, rev, origin, now) ==
    LET over == origin \in Pushers /\ Len(window(origin, now)) >= MAX_NEW_PER_PUSHER_PER_HOUR
        looked == IF origin \in Pushers THEN windows_with(origin, window(origin, now)) ELSE introduced
        full == Cardinality(DOMAIN entries) >= MAX_STORED_SERVICES
    IN  IF future(rev, now) \/ expired(rev, now) THEN UNCHANGED <<entries, introduced>>
        ELSE IF get(s, now) /\ entries[s].rev >= rev
        THEN LET again == entries[s].rev = rev
             IN  /\ entries' = IF again THEN [entries EXCEPT ![s].by = note_delivery(@, origin)] ELSE entries
                 /\ UNCHANGED introduced
        ELSE IF held(s)
        THEN LET stronger == merged_origin(entries[s].origin, origin)
             IN  /\ entries' = [entries EXCEPT ![s] = [rev |-> rev, origin |-> stronger,
                                                       by |-> note_delivery(@.by, stronger)]]
                 /\ UNCHANGED introduced
        ELSE \/ ~over /\ ~full /\ introduce(s, rev, origin, {}, now)
             \/ ~over /\ full /\ \E gone \in evict_one(origin, now) : introduce(s, rev, origin, gone, now)
             \/ (over \/ (full /\ evict_one(origin, now) = {})) /\ introduced' = looked /\ UNCHANGED entries

----------------------------------------------------------------------------
(* A service of another node signs a descriptor, its clock a little or too far ahead. *)
SignElsewhere(s, ahead) ==
    /\ Cardinality({d \in signed : d[1] \in OtherSvcs}) < MaxSigned
    /\ <<s, clock + ahead>> \notin signed
    /\ signed' = signed \cup {<<s, clock + ahead>>}
    /\ UNCHANGED <<clock, entries, introduced, own_services, cycle, signing, looking, own_kept>>

(* ANNOUNCE_SERVICE arrives, for a service this node is near: any descriptor, new or replayed. *)
Pushed(by, d) ==
    /\ put(d[1], d[2], by, clock)
    /\ UNCHANGED <<clock, own_services, cycle, signing, looking, signed, own_kept>>

(* announce_signed_service, once per service (a bound): signed, listed for the republisher, then put and sent. *)
AnnounceOwn(s) ==
    /\ signing = {} /\ \A d \in signed : d[1] # s
    /\ own_services' = own_services \cup {s} /\ signing' = signing \cup {<<s, clock>>}
    /\ signed' = signed \cup {<<s, clock>>}
    /\ UNCHANGED <<clock, entries, introduced, cycle, looking, own_kept>>

(* announce: the store first; the result of the put is not looked at. *)
PutOwn(d) ==
    /\ d \in signing /\ signing' = signing \ {d}
    /\ put(d[1], d[2], "own", clock)
    /\ own_kept' = IF d[1] \in own_services /\ d[1] \in DOMAIN entries' /\ entries'[d[1]].rev >= d[2]
                  /\ entries'[d[1]].origin = "own"
               THEN [own_kept EXCEPT ![d[1]] = entries'[d[1]].rev] ELSE own_kept
    /\ UNCHANGED <<clock, own_services, cycle, looking, signed>>

(* Every fifteen minutes the list is copied, and each service looked at again before it is signed. *)
Republish == cycle = {} /\ own_services # {} /\ cycle' = own_services
             /\ UNCHANGED <<clock, entries, introduced, own_services, signing, looking, signed, own_kept>>
RepublishOne(s) ==
    /\ s \in cycle /\ signing = {} /\ cycle' = cycle \ {s}
    /\ signing' = IF s \in own_services THEN signing \cup {<<s, clock>>} ELSE signing
    /\ signed' = IF s \in own_services THEN signed \cup {<<s, clock>>} ELSE signed
    /\ UNCHANGED <<clock, entries, introduced, own_services, looking, own_kept>>

(* withdraw_service and forget_own. *)
WithdrawService(s) ==
    /\ s \in own_services /\ own_services' = own_services \ {s}
    /\ entries' = IF held(s) /\ entries[s].origin = "own" THEN without({s}) ELSE entries
    /\ own_kept' = [own_kept EXCEPT ![s] = NoRev]
    /\ UNCHANGED <<clock, introduced, cycle, signing, looking, signed>>

(* lookup_service: a fresh copy of our own is the answer, else the network is asked (one lookup at a time, a bound). *)
mine(s) == get(s, clock) /\ entries[s].origin \in {"own", "fetched"}
           /\ clock < entries[s].rev + LOCAL_DESCRIPTOR_FRESH_SECS
LookupBegins(s) ==
    /\ DOMAIN looking = {} /\ ~mine(s)
    /\ looking' = [t \in {s} |-> [rev |-> IF get(s, clock) THEN entries[s].rev ELSE NoRev, since |-> clock]]
    /\ UNCHANGED <<clock, entries, introduced, own_services, cycle, signing, signed, own_kept>>

(* The answers: any the service signed, current when the lookup began, and the *)
(* copy we had; the newest is kept, by the clock of the lookup's beginning.    *)
LookupEnds(s, answers) ==
    /\ s \in DOMAIN looking
    /\ looking' = [t \in DOMAIN looking \ {s} |-> looking[t]]
    /\ LET had == looking[s].rev
           now == looking[s].since
           found == {had} \cup {r \in {d[2] : d \in answers} : ~(future(r, now) \/ expired(r, now))}
       IN  \E best \in found :
             /\ \A r \in found : r <= best
             /\ IF best = NoRev THEN UNCHANGED <<entries, introduced>> ELSE put(s, best, "fetched", now)
    /\ UNCHANGED <<clock, own_services, cycle, signing, signed, own_kept>>

SecondPasses ==
    /\ clock < LastSec /\ clock' = clock + 1
    /\ UNCHANGED <<entries, introduced, own_services, cycle, signing, looking, signed, own_kept>>

SvNext ==
    \/ \E s \in OtherSvcs, ahead \in {0, MAX_CLOCK_SKEW_SECS + 1} : SignElsewhere(s, ahead)
    \/ \E by \in Pushers, d \in signed : Pushed(by, d)
    \/ \E s \in OwnSvcs : AnnounceOwn(s) \/ RepublishOne(s) \/ WithdrawService(s)
    \/ \E d \in signing : PutOwn(d)
    \/ Republish
    \/ \E s \in LookedUp : LookupBegins(s)
    \/ \E s \in LookedUp : \E answers \in SUBSET {d \in signed : d[1] = s} : LookupEnds(s, answers)
    \/ SecondPasses

SvSpec == SvInit /\ [][SvNext]_svVars
----------------------------------------------------------------------------
(* A service this node publishes stays in its store until it is withdrawn or *)
(* its descriptor expires, and never goes back to an older one: whatever     *)
(* others push, however full the store (put's order of eviction).            *)
OwnStays == \A s \in OwnSvcs : own_kept[s] # NoRev /\ ~expired(own_kept[s], clock) => held(s) /\ entries[s].rev >= own_kept[s]

(* What a pusher introduced in the last hour is within its quota. *)
PushQuota == \A p \in Pushers : Len(window(p, clock)) <= MAX_NEW_PER_PUSHER_PER_HOUR

(* The store's promise to both sides: own services are never evicted, and a  *)
(* pusher introduces no more than its quota (the rules of ServiceStore).     *)
StoreKeepsItsRules == OwnStays /\ PushQuota

(* What they rest on: an own descriptor that is still to be kept is held as  *)
(* this node's own, and the windows hold no more than they may.              *)
SvTyped ==
    /\ clock \in Nat
    /\ DOMAIN entries \subseteq Svcs
    /\ entries \in [DOMAIN entries -> [rev : Nat, origin : Pushers \cup {"own", "fetched"}, by : SUBSET Pushers]]
    /\ signed \subseteq Svcs \X Nat /\ signing \subseteq OwnSvcs \X Nat /\ own_services \subseteq OwnSvcs
    /\ own_kept \in [OwnSvcs -> Nat]
    /\ \A s \in DOMAIN looking : looking[s].rev \in Nat /\ looking[s].since \in Nat /\ looking[s].since <= clock
OwnHeldAsOwn == \A s \in OwnSvcs : own_kept[s] # NoRev /\ ~expired(own_kept[s], clock) =>
                    held(s) /\ entries[s].rev >= own_kept[s] /\ entries[s].origin = "own"
WindowsWithin == \A p \in DOMAIN introduced :
                    introduced[p] \in Seq(Nat) /\ Len(introduced[p]) <= MAX_NEW_PER_PUSHER_PER_HOUR
SvInv == SvTyped /\ OwnHeldAsOwn /\ WindowsWithin

(* A withdrawn service is not this node's to publish any more. *)
WithdrawnGone == \A s \in OwnSvcs \ own_services : get(s, clock) => entries[s].origin # "own"
============================================================================
