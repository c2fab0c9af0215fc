----------------------------- MODULE ForumRules -----------------------------
(* The forum's rules, kept by the relay: what ForumPolicy lets a publish do   *)
(* to the retained store, the store's own accounts (bytes, counts, ids, names *)
(* per key), the shares they are held to, and the sweep of names the          *)
(* registrar did not take. prepare has verified every signature before these  *)
(* steps, so a publish is a fact and the key that signed it; each step is one *)
(* hold of the relay's lock.                                                  *)
EXTENDS Integers, FiniteSets, Functions, Sums

CONSTANTS FKeys,              \* signing keys
          FNames,             \* normalised names
          Ids, Threads,       \* post ids, and the threads a reply may be put under
          NoOne,              \* no key
          MAX_RETAINED_BYTES, RETAINED_RESERVE_BYTES, MAX_BYTES_PER_AUTHOR, MAX_RETAINED_MESSAGES,
          MAX_CLAIMS, MAX_POSTS, MAX_HIDES, MAX_REPORTS,
          NEW_NAMES_BURST, UNLISTED_NAME_GRACE,
          MaxSeq, LastTick    \* bounds of the runs

ASSUME ForumConstants ==
    /\ {MAX_RETAINED_BYTES, RETAINED_RESERVE_BYTES, MAX_BYTES_PER_AUTHOR} \subseteq Nat
    /\ 2 * RETAINED_RESERVE_BYTES <= MAX_RETAINED_BYTES /\ NoOne \notin FKeys

VARIABLES kv,         \* topic -> what is kept there
          bytes, counts, ids, by_author, claims_by_pk,   \* Retained's accounts
          meter,      \* tokens of the meter on new names
          now,
          firstKey    \* post topic -> the key of the first post kept there

frVars == <<kv, bytes, counts, ids, by_author, claims_by_pk, meter, now, firstKey>>

----------------------------------------------------------------------------
(* Topics by their kind: hforum/u/<name>, hforum/t/<id> and hforum/r/<thread>/<id>, *)
(* hforum/mod/<id>, hforum/rep/<id>, hforum/admin, hforum/registry.                 *)
Topic(k, a, b) == [class |-> k, id |-> a, under |-> b]
NameTopic(n) == Topic("u", n, "")
PostTopics == {Topic("t", i, "") : i \in Ids} \cup {Topic("r", i, th) : i \in Ids, th \in Threads}
Admin == Topic("admin", "", "")
Registry == Topic("registry", "", "")
AllTopics == {NameTopic(n) : n \in FNames} \cup PostTopics \cup {Topic(k, i, "") : k \in {"mod", "rep"}, i \in Ids}
                 \cup {Admin, Registry}
Classes == {"u", "t", "r", "mod", "rep", "admin", "registry"}

(* The post id a topic names, if it is a post's or a reply's. *)
post_id(t) == IF t.class \in {"t", "r"} THEN {t.id} ELSE {}

FrInit ==
    /\ kv = <<>> /\ bytes = 0 /\ counts = [k \in Classes |-> 0] /\ ids = <<>>
    /\ by_author = [k \in FKeys |-> 0] /\ claims_by_pk = [k \in FKeys |-> 0]
    /\ meter = NEW_NAMES_BURST /\ now = 0 /\ firstKey = <<>>

kept_at(t) == t \in DOMAIN kv
pk_of(t) == IF kept_at(t) THEN kv[t].pk ELSE NoOne

----------------------------------------------------------------------------
(* byte_limit_for: moderation may use the whole store, names all but the last  *)
(* reserve, the rest all but two.                                              *)
byte_limit_for(t) ==
    CASE t.class \in {"registry", "mod", "admin"} -> MAX_RETAINED_BYTES
      [] t.class = "u" -> MAX_RETAINED_BYTES - RETAINED_RESERVE_BYTES
      [] OTHER -> MAX_RETAINED_BYTES - 2 * RETAINED_RESERVE_BYTES

refuse_room(t, e) ==
    LET old_len == IF kept_at(t) THEN kv[t].len ELSE 0
        mine == IF pk_of(t) = e.pk THEN old_len ELSE 0 IN
    \/ ~kept_at(t) /\ Cardinality(DOMAIN kv) >= MAX_RETAINED_MESSAGES
    \/ bytes - old_len + e.len > byte_limit_for(t)
    \/ e.pk # NoOne /\ by_author[e.pk] - mine + e.len > MAX_BYTES_PER_AUTHOR

(* insert_at begins with remove: the accounts lose what the topic held, then    *)
(* gain what it holds now.                                                     *)
minus(f, k, n) == IF k \in DOMAIN f THEN [f EXCEPT ![k] = @ - n] ELSE f
plus(f, k, n) == IF k \in DOMAIN f THEN [f EXCEPT ![k] = @ + n] ELSE f
removed(t) ==
    [kv |-> Restrict(kv, DOMAIN kv \ {t}), bytes |-> bytes - kv[t].len, counts |-> minus(counts, t.class, 1),
     ids |-> Restrict(ids, {i \in DOMAIN ids : ids[i] # t}),
     by_author |-> minus(by_author, kv[t].pk, kv[t].len),
     claims |-> IF t.class = "u" THEN minus(claims_by_pk, kv[t].pk, 1) ELSE claims_by_pk]
standing == [kv |-> kv, bytes |-> bytes, counts |-> counts, ids |-> ids, by_author |-> by_author, claims |-> claims_by_pk]

(* A bug: a payload put over another is not taken off the accounts first. *)
MutWithout(t) == standing

without_topic(t) == IF kept_at(t) THEN removed(t) ELSE standing

put_one(f, k, v) == [x \in DOMAIN f \cup {k} |-> IF x = k THEN v ELSE f[x]]
insert_at(t, e) ==
    LET r == without_topic(t) IN
    /\ kv' = put_one(r.kv, t, e) /\ bytes' = r.bytes + e.len /\ counts' = plus(r.counts, t.class, 1)
    /\ ids' = (IF post_id(t) = {} THEN r.ids ELSE put_one(r.ids, t.id, t))
    /\ by_author' = plus(r.by_author, e.pk, e.len)
    /\ claims_by_pk' = (IF t.class = "u" THEN plus(r.claims, e.pk, 1) ELSE r.claims)
takes_off(t) ==
    LET r == without_topic(t) IN
    /\ kv' = r.kv /\ bytes' = r.bytes /\ counts' = r.counts /\ ids' = r.ids
    /\ by_author' = r.by_author /\ claims_by_pk' = r.claims

----------------------------------------------------------------------------
(* What the kept list says of names and of the moderator. *)
Listed == IF kept_at(Registry) THEN kv[Registry].names ELSE <<>>
owner_in_list(n) == IF n \in DOMAIN Listed THEN Listed[n] ELSE NoOne
name_owner(n) == IF owner_in_list(n) # NoOne THEN owner_in_list(n) ELSE pk_of(NameTopic(n))
named_moderator == IF kept_at(Registry) THEN kv[Registry].admin ELSE NoOne
moderator_key == IF named_moderator # NoOne THEN named_moderator ELSE pk_of(Admin)

Entry(pk, len, tomb, seq, names, admin) ==
    [pk |-> pk, len |-> len, tombstone |-> tomb, seq |-> seq, since |-> now, names |-> names, admin |-> admin]
Said(pk, len) == Entry(pk, len, FALSE, 0, <<>>, NoOne)

(* publish: room first, then the rules, then the store. The very bytes that are  *)
(* kept are refused; a key that says the same again signs another time.         *)
keeps(t, e) == ~refuse_room(t, e) /\ insert_at(t, e)

(* Fact::Claim: the registrar's word first; else a free name, within the caps,  *)
(* one name to a key, and the meter.                                           *)
Claim(n, pk) ==
    LET t == NameTopic(n) IN
    /\ \/ owner_in_list(n) = pk /\ UNCHANGED meter
       \/ owner_in_list(n) = NoOne /\ pk_of(t) = pk /\ UNCHANGED meter
       \/ /\ owner_in_list(n) = NoOne /\ ~kept_at(t)
          /\ counts["u"] < MAX_CLAIMS /\ claims_by_pk[pk] < 1
          /\ meter >= 1 /\ meter' = meter - 1
    /\ keeps(t, Said(pk, 1)) /\ UNCHANGED <<now, firstKey>>

(* A bug: a post is let through whoever holds its place. *)
MutPlaceIs(t, pk) == ~(kept_at(t) /\ kv[t].tombstone)

(* A place that is free, or holds a post of the same key that was not deleted. *)
place_is(t, pk) == kept_at(t) => ~kv[t].tombstone /\ pk_of(t) \in {pk, NoOne}

(* Fact::Post: not over a tombstone, not over another key's, the id not under   *)
(* another topic, the caps, and a nickname its key holds.                      *)
Post(t, pk, nick, len) ==
    /\ place_is(t, pk)
    /\ (t.id \in DOMAIN ids => ids[t.id] = t)
    /\ ~kept_at(t) => counts["t"] + counts["r"] < MAX_POSTS
    /\ name_owner(nick) = pk
    /\ keeps(t, Said(pk, len)) /\ firstKey' = (IF t \in DOMAIN firstKey THEN firstKey ELSE put_one(firstKey, t, pk))
    /\ UNCHANGED <<meter, now>>
Tombstone(t, pk) ==
    /\ pk_of(t) = pk
    /\ keeps(t, Entry(pk, 1, TRUE, 0, <<>>, NoOne)) /\ UNCHANGED <<meter, now, firstKey>>

Hide(i, pk) ==
    /\ moderator_key = pk
    /\ ~kept_at(Topic("mod", i, "")) => counts["mod"] < MAX_HIDES
    /\ keeps(Topic("mod", i, ""), Said(pk, 1)) /\ UNCHANGED <<meter, now, firstKey>>
AdminClaim(pk) ==
    /\ IF named_moderator # NoOne THEN named_moderator = pk ELSE pk_of(Admin) \in {pk, NoOne}
    /\ keeps(Admin, Said(pk, 1)) /\ UNCHANGED <<meter, now, firstKey>>

(* Fact::Report is not signed; an empty one takes it off again. *)
Report(i) ==
    /\ kept_at(Topic("rep", i, "")) \/ counts["rep"] < MAX_REPORTS
    /\ ~kept_at(Topic("rep", i, "")) /\ keeps(Topic("rep", i, ""), Said(NoOne, 1)) /\ UNCHANGED <<meter, now, firstKey>>
Unreport(i) ==
    /\ kept_at(Topic("rep", i, "")) /\ takes_off(Topic("rep", i, "")) /\ UNCHANGED <<meter, now, firstKey>>

(* Fact::Registry: a list is kept only over an older one. *)
RegistryList(seq, names, admin) ==
    /\ kept_at(Registry) => kv[Registry].seq < seq
    /\ keeps(Registry, Entry(NoOne, 1, FALSE, seq, names, admin)) /\ UNCHANGED <<meter, now, firstKey>>

(* sweep: names the list does not give their key, once a list came well after them. *)
swept_names ==
    {t \in DOMAIN kv : /\ t.class = "u" /\ kept_at(Registry)
                       /\ owner_in_list(t.id) # pk_of(t)
                       /\ kv[Registry].since > kv[t].since + UNLISTED_NAME_GRACE}
SweepName(t) == t \in swept_names /\ takes_off(t) /\ UNCHANGED <<meter, now, firstKey>>

(* NameMeter.take gives back a token with time. *)
ForumTick ==
    /\ now < LastTick /\ now' = now + 1 /\ meter' = (IF meter < NEW_NAMES_BURST THEN meter + 1 ELSE meter)
    /\ UNCHANGED <<kv, bytes, counts, ids, by_author, claims_by_pk, firstKey>>

(* Store.open: every row is kept again, as of now, and the meter starts full. *)
ForumRestart ==
    /\ kv' = [t \in DOMAIN kv |-> [kv[t] EXCEPT !.since = now]] /\ meter' = NEW_NAMES_BURST
    /\ UNCHANGED <<bytes, counts, ids, by_author, claims_by_pk, now, firstKey>>

Lists == UNION {[S -> FKeys] : S \in SUBSET FNames}
FrNext ==
    \/ \E pk \in FKeys :
         \/ \E n \in FNames : Claim(n, pk)
         \/ \E t \in PostTopics : Tombstone(t, pk) \/ \E n \in FNames, len \in 1..2 : Post(t, pk, n, len)
         \/ \E i \in Ids : Hide(i, pk)
         \/ AdminClaim(pk)
    \/ \E i \in Ids : Report(i) \/ Unreport(i)
    \/ \E s \in 1..MaxSeq, l \in Lists, a \in FKeys \cup {NoOne} : RegistryList(s, l, a)
    \/ \E t \in AllTopics : SweepName(t)
    \/ ForumTick \/ ForumRestart

----------------------------------------------------------------------------
FrSpec == FrInit /\ [][FrNext]_frVars

----------------------------------------------------------------------------
lens == [t \in DOMAIN kv |-> kv[t].len]
OfKind(S) == {t \in DOMAIN kv : t.class \in S}
OfKey(k) == {t \in DOMAIN kv : kv[t].pk = k}

(* The accounts are what the store holds: bytes in all and per key, counts per  *)
(* kind, names per key, and each kept post's id under its own topic.            *)
AccountsExact ==
    /\ bytes = SumOf(lens, DOMAIN kv)
    /\ \A k \in Classes : counts[k] = Cardinality(OfKind({k}))
    /\ \A k \in FKeys : by_author[k] = SumOf(lens, OfKey(k)) /\ claims_by_pk[k] = Cardinality(OfKind({"u"}) \cap OfKey(k))
    /\ \A t \in DOMAIN kv \cap PostTopics : t.id \in DOMAIN ids /\ ids[t.id] = t

(* A store full of posts still has the room kept for names and for moderation:  *)
(* each kind stays in its share, and no key is over its own.                   *)
SharesKept ==
    /\ bytes <= MAX_RETAINED_BYTES
    /\ SumOf(lens, OfKind({"t", "r", "rep"})) <= MAX_RETAINED_BYTES - 2 * RETAINED_RESERVE_BYTES
    /\ SumOf(lens, OfKind({"t", "r", "rep", "u"})) <= MAX_RETAINED_BYTES - RETAINED_RESERVE_BYTES
    /\ \A k \in FKeys : by_author[k] <= MAX_BYTES_PER_AUTHOR

(* A post belongs to the key that first put it there, deleted or not, and an id *)
(* is never under two topics.                                                  *)
PostsStayTheirs ==
    /\ \A t \in DOMAIN kv \cap PostTopics : kv[t].pk = firstKey[t]
    /\ \A t, u \in DOMAIN kv \cap PostTopics : t.id = u.id => t = u

(* The relay's store keeps the forum's rules. *)
ForumSound == AccountsExact /\ SharesKept /\ PostsStayTheirs

----------------------------------------------------------------------------
(* What it rests on: a post is signed, and once there its place is never empty. *)
AnyEntry == [pk : FKeys \cup {NoOne}, len : Nat, tombstone : BOOLEAN, seq : Int, since : Int,
             names : Lists \cup {<<>>}, admin : FKeys \cup {NoOne}]
ForumTyped ==
    /\ IsFiniteSet(DOMAIN kv) /\ \A t \in DOMAIN kv : kv[t] \in AnyEntry
    /\ bytes \in Int /\ counts \in [Classes -> Int] /\ now \in Int
    /\ by_author \in [FKeys -> Int] /\ claims_by_pk \in [FKeys -> Int]
ForumInv ==
    /\ ForumTyped /\ AccountsExact /\ SharesKept /\ PostsStayTheirs
    /\ \A t \in DOMAIN kv \cap PostTopics : kv[t].pk \in FKeys
    /\ DOMAIN firstKey = DOMAIN kv \cap PostTopics
=============================================================================
