---------------------------- MODULE SiteManager ----------------------------
(* SevenNine: sites made, edited and deleted by requests that run side by    *)
(* side, kept in memory and on disk, and announced to the DHT through a      *)
(* queue; the program may stop anywhere and start again from its files.      *)
EXTENDS Naturals, Sequences, FiniteSets

CONSTANTS Reqs, SiteNames,
          DHT_QUEUE,             \* room of the queue to the DHT
          NoReq, MaxReqs, MaxCrashes   \* bounds of the runs

ASSUME SitesConstants == "" \notin SiteNames /\ NoReq \notin Reqs /\ DHT_QUEUE \in Nat

VARIABLES sites,      \* the manager's map: name -> key
          dirs,       \* folders: name -> the state of its meta file and its key
          loading,    \* what was read at the start and the task has not put in the map yet
          boot,       \* "off", "announce", "serving"
          dht_tx,     \* queue of announcements: <<"publish" or "withdraw", key>>
          published,  \* keys the DHT republishes
          req,        \* request -> operation, name, step, key
          wlock,      \* the request that writes the map while it writes a file
          keyNo,      \* number of keys made so far
          made,       \* sites whose creation was answered and whose deletion was not asked: name -> key
          unsent,     \* keys not announced because the queue was full or the map not loaded yet
          raced,      \* names two requests were at together, or asked for anew before they were loaded
          torn,       \* names whose meta file a stop caught half written
          asked, stops

smVars == <<sites, dirs, loading, boot, dht_tx, published, req, wlock, keyNo, made, unsent, raced, torn, asked, stops>>

NoKey == 0
Idle7 == [op |-> "none", name |-> "", at |-> "", key |-> NoKey]
NoSites == [n \in {} |-> NoKey]

SmInit ==
    /\ sites = NoSites /\ dirs = NoSites /\ loading = NoSites /\ boot = "off" /\ dht_tx = <<>> /\ published = {}
    /\ req = [r \in Reqs |-> Idle7] /\ wlock = NoReq /\ keyNo = 0 /\ made = NoSites /\ unsent = {} /\ raced = {} /\ torn = {}
    /\ asked = 0 /\ stops = 0

without_n(f, n) == [x \in DOMAIN f \ {n} |-> f[x]]
with_n(f, n, v) == [x \in DOMAIN f \cup {n} |-> IF x = n THEN v ELSE f[x]]
to_load == DOMAIN loading # {}
at_step(r, op, step) == boot = "serving" /\ req[r].op = op /\ req[r].at = step
goes(r, step) == req' = [req EXCEPT ![r].at = step]
ends(r) == req' = [req EXCEPT ![r] = Idle7]
at_work(n) == {r \in Reqs : req[r].name = n}
room == Len(dht_tx) < DHT_QUEUE
fileVars == <<loading, boot, keyNo, stops>>
ghostVars == <<made, unsent, raced, torn>>

----------------------------------------------------------------------------
(* _init: the folders with a readable meta file, and the key beside it or none; *)
(* a task of its own puts them in the map.                                      *)
Start ==
    /\ boot = "off" /\ boot' = "announce"
    /\ loading' = LET readable == {n \in DOMAIN dirs : dirs[n].meta = "ok"}
                  IN  [n \in readable |-> dirs[n].key]
    /\ UNCHANGED <<sites, dirs, dht_tx, published, req, wlock, keyNo, ghostVars, asked, stops>>

(* The task, if there is anything to load, replaces the whole map, with whatever was made in it meanwhile. *)
LoadTask ==
    /\ to_load /\ wlock = NoReq
    /\ sites' = loading /\ loading' = NoSites
    /\ UNCHANGED <<dirs, boot, dht_tx, published, req, wlock, keyNo, ghostVars, asked, stops>>

(* announce_all_sites: as many of the map's sites with a key as the queue has room for, in any order. *)
AnnounceAllSites(sent) ==
    LET keyed == {sites[n] : n \in DOMAIN sites} \ {NoKey}
    IN  /\ boot = "announce" /\ boot' = "serving"
        /\ sent \subseteq keyed
        /\ IF Cardinality(keyed) <= DHT_QUEUE - Len(dht_tx) THEN sent = keyed
                                                            ELSE Cardinality(sent) = DHT_QUEUE - Len(dht_tx)
        /\ \E order \in [1..Cardinality(sent) -> sent] :
             /\ \A k \in sent : \E i \in DOMAIN order : order[i] = k
             /\ dht_tx' = dht_tx \o [i \in DOMAIN order |-> <<"publish", order[i]>>]
        /\ unsent' = unsent \cup (keyed \ sent) \cup {loading[n] : n \in DOMAIN loading}
        /\ UNCHANGED <<sites, dirs, loading, published, req, wlock, keyNo, made, raced, torn, asked, stops>>

(* The DHT's side of the queue: announce_signed_service or withdraw_service. *)
DhtTakes ==
    /\ dht_tx # <<>> /\ dht_tx' = Tail(dht_tx)
    /\ published' = IF Head(dht_tx)[1] = "publish" THEN published \cup {Head(dht_tx)[2]}
                                                   ELSE published \ {Head(dht_tx)[2]}
    /\ UNCHANGED <<sites, dirs, req, wlock, fileVars, ghostVars, asked>>

----------------------------------------------------------------------------
(* handle_connection: a request for a name. *)
Request(r, op, n) ==
    /\ boot = "serving" /\ req[r] = Idle7 /\ asked < MaxReqs /\ asked' = asked + 1
    /\ req' = [req EXCEPT ![r] = [op |-> op, name |-> n, at |-> "begin", key |-> NoKey]]
    /\ raced' = IF at_work(n) # {} \/ (op = "create" /\ to_load) THEN raced \cup {n} ELSE raced
    /\ made' = IF op = "delete" THEN without_n(made, n) ELSE made
    /\ UNCHANGED <<sites, dirs, loading, boot, dht_tx, published, wlock, keyNo, unsent, torn, stops>>

(* create_site: a name not in the map gets a key; the folder and its meta file, then the key's file. *)
CreateBegin(r) ==
    /\ at_step(r, "create", "begin") /\ wlock = NoReq
    /\ IF req[r].name \in DOMAIN sites
       THEN ends(r) /\ UNCHANGED <<dirs, keyNo>>
       ELSE /\ keyNo' = keyNo + 1 /\ req' = [req EXCEPT ![r].at = "key", ![r].key = keyNo']
            /\ dirs' = with_n(dirs, req[r].name, [meta |-> "ok", key |-> IF req[r].name \in DOMAIN dirs
                                                                         THEN dirs[req[r].name].key ELSE NoKey])
    /\ UNCHANGED <<sites, loading, boot, dht_tx, published, wlock, ghostVars, asked, stops>>

(* A write into a folder that was removed meanwhile is lost. *)
CreateKey(r) ==
    /\ at_step(r, "create", "key") /\ goes(r, "insert")
    /\ dirs' = IF req[r].name \in DOMAIN dirs THEN [dirs EXCEPT ![req[r].name].key = req[r].key] ELSE dirs
    /\ UNCHANGED <<sites, dht_tx, published, wlock, fileVars, ghostVars, asked>>

CreateInsert(r) ==
    /\ at_step(r, "create", "insert") /\ wlock = NoReq /\ goes(r, "publish")
    /\ sites' = with_n(sites, req[r].name, req[r].key)
    /\ UNCHANGED <<dirs, dht_tx, published, wlock, fileVars, ghostVars, asked>>

(* try_send: a full queue loses the announcement; the answer says the site was made. *)
CreatePublish(r) ==
    /\ at_step(r, "create", "publish") /\ ends(r)
    /\ dht_tx' = IF room THEN Append(dht_tx, <<"publish", req[r].key>>) ELSE dht_tx
    /\ unsent' = IF room THEN unsent ELSE unsent \cup {req[r].key}
    /\ made' = with_n(made, req[r].name, req[r].key)
    /\ UNCHANGED <<sites, dirs, published, wlock, fileVars, raced, torn, asked>>

(* upload_file, save_page, publish_site: pages into a folder that is there, then, *)
(* holding the map, its meta file written anew from the record.                   *)
EditBegin(r) ==
    /\ at_step(r, "edit", "begin")
    /\ IF req[r].name \in DOMAIN dirs THEN goes(r, "meta") ELSE ends(r)
    /\ UNCHANGED <<sites, dirs, dht_tx, published, wlock, fileVars, ghostVars, asked>>

EditMeta(r) ==
    /\ at_step(r, "edit", "meta") /\ wlock = NoReq
    /\ IF req[r].name \in DOMAIN sites
       THEN /\ wlock' = r /\ goes(r, "writing")
            /\ dirs' = IF req[r].name \in DOMAIN dirs THEN [dirs EXCEPT ![req[r].name].meta = "half"] ELSE dirs
       ELSE ends(r) /\ UNCHANGED <<dirs, wlock>>
    /\ UNCHANGED <<sites, dht_tx, published, fileVars, ghostVars, asked>>

EditDone(r) ==
    /\ at_step(r, "edit", "writing") /\ wlock = r /\ wlock' = NoReq /\ ends(r)
    /\ dirs' = IF req[r].name \in DOMAIN dirs THEN [dirs EXCEPT ![req[r].name].meta = "ok"] ELSE dirs
    /\ UNCHANGED <<sites, dht_tx, published, fileVars, ghostVars, asked>>

(* delete_site: out of the map; the DHT is told, waiting for room; the folder goes. *)
DeleteBegin(r) ==
    /\ at_step(r, "delete", "begin") /\ wlock = NoReq
    /\ LET n == req[r].name
           k == IF n \in DOMAIN sites THEN sites[n] ELSE NoKey
       IN  /\ sites' = without_n(sites, n)
           /\ req' = [req EXCEPT ![r].at = IF k = NoKey THEN "folder" ELSE "withdraw", ![r].key = k]
    /\ UNCHANGED <<dirs, dht_tx, published, wlock, fileVars, ghostVars, asked>>

(* A bug: the withdrawal too is dropped when the queue is full. *)
MutDeleteWithdraw(r) ==
    /\ at_step(r, "delete", "withdraw") /\ goes(r, "folder")
    /\ dht_tx' = IF room THEN Append(dht_tx, <<"withdraw", req[r].key>>) ELSE dht_tx
    /\ UNCHANGED <<sites, dirs, published, wlock, fileVars, ghostVars, asked>>

DeleteWithdraw(r) ==
    /\ at_step(r, "delete", "withdraw") /\ room /\ goes(r, "folder")
    /\ dht_tx' = Append(dht_tx, <<"withdraw", req[r].key>>)
    /\ UNCHANGED <<sites, dirs, published, wlock, fileVars, ghostVars, asked>>

DeleteFolder(r) ==
    /\ at_step(r, "delete", "folder") /\ ends(r)
    /\ dirs' = without_n(dirs, req[r].name)
    /\ UNCHANGED <<sites, dht_tx, published, wlock, fileVars, ghostVars, asked>>

(* The program stops: only the folders stay, a file being written half there. *)
Stop ==
    /\ boot # "off" /\ stops < MaxCrashes /\ stops' = stops + 1 /\ boot' = "off"
    /\ sites' = NoSites /\ loading' = NoSites /\ dht_tx' = <<>> /\ published' = {} /\ wlock' = NoReq
    /\ req' = [r \in Reqs |-> Idle7] /\ unsent' = {}
    /\ torn' = torn \cup {n \in DOMAIN dirs : dirs[n].meta = "half"}
    /\ UNCHANGED <<dirs, keyNo, made, raced, asked>>

SmNext ==
    \/ Start \/ LoadTask \/ DhtTakes \/ Stop
    \/ \E sent \in SUBSET (1..keyNo) : AnnounceAllSites(sent)
    \/ \E r \in Reqs, op \in {"create", "edit", "delete"}, n \in SiteNames : Request(r, op, n)
    \/ \E r \in Reqs : CreateBegin(r) \/ CreateKey(r) \/ CreateInsert(r) \/ CreatePublish(r)
                       \/ EditBegin(r) \/ EditMeta(r) \/ EditDone(r)
                       \/ DeleteBegin(r) \/ DeleteWithdraw(r) \/ DeleteFolder(r)

SmSpec == SmInit /\ [][SmNext]_smVars

----------------------------------------------------------------------------
(* A site whose creation was answered is in the map, in its folder and in    *)
(* the DHT under the one key, after any stop and restart, until its deletion *)
(* is asked; a key nobody has a site for any more is not republished. The    *)
(* exceptions are those `raced`, `torn` and `unsent` name, and no other.     *)
settled(n) == boot = "serving" /\ ~to_load /\ at_work(n) = {} /\ n \notin raced \cup torn
SitesSound ==
    /\ \A n \in SiteNames : settled(n) /\ n \in DOMAIN made =>
          /\ n \in DOMAIN sites /\ sites[n] = made[n]
          /\ n \in DOMAIN dirs /\ dirs[n] = [meta |-> "ok", key |-> made[n]]
          /\ dht_tx = <<>> => made[n] \in published \cup unsent
    /\ (\A n \in SiteNames : settled(n)) /\ dht_tx = <<>> =>
          published \subseteq {sites[n] : n \in DOMAIN sites}

----------------------------------------------------------------------------
(* What it rests on. *)
announcing == {dht_tx[i] : i \in 1..Len(dht_tx)}
AnyReq == [op : {"none", "create", "edit", "delete"}, name : SiteNames \cup {""}, key : 0..keyNo,
           at : {"", "begin", "key", "insert", "publish", "meta", "writing", "withdraw", "folder"}]
SmTyped ==
    /\ keyNo \in Nat /\ boot \in {"off", "announce", "serving"} /\ raced \subseteq SiteNames
    /\ DOMAIN sites \subseteq SiteNames /\ sites \in [DOMAIN sites -> 0..keyNo]
    /\ DOMAIN loading \subseteq SiteNames /\ loading \in [DOMAIN loading -> 0..keyNo]
    /\ DOMAIN dirs \subseteq SiteNames /\ dirs \in [DOMAIN dirs -> [meta : {"ok", "half"}, key : 0..keyNo]]
    /\ DOMAIN made \subseteq SiteNames /\ made \in [DOMAIN made -> 1..keyNo]
    /\ dht_tx \in Seq({"publish", "withdraw"} \X (1..keyNo)) /\ published \subseteq 1..keyNo
    /\ req \in [Reqs -> AnyReq] /\ \A r \in Reqs : (req[r].name = "" <=> req[r].op = "none")

(* Nothing is served, announced or loaded before its time. *)
BootInOrder ==
    /\ boot = "off" => DOMAIN sites = {} /\ DOMAIN loading = {}
    /\ boot # "serving" => dht_tx = <<>> /\ published = {} /\ \A r \in Reqs : req[r] = Idle7
    /\ to_load => DOMAIN sites \subseteq raced

(* A request has the name it is at to itself, and what it did so far is in place. *)
OneAtATime == \A r, q \in Reqs : req[r].name = req[q].name /\ req[r].name \in SiteNames \ raced => r = q
create_in_order(n, k, at) ==
    /\ ~to_load /\ at \in {"begin", "key", "insert", "publish"}
    /\ at # "begin" => /\ <<"withdraw", k>> \notin announcing
                       /\ n \notin DOMAIN made \ torn /\ n \in DOMAIN dirs /\ dirs[n].meta = "ok"
    /\ at \in {"key", "insert"} => n \notin DOMAIN sites
    /\ at \in {"insert", "publish"} => dirs[n].key = k
    /\ at = "publish" => n \in DOMAIN sites /\ sites[n] = k
CreatesInOrder == \A r \in Reqs : req[r].op = "create" /\ req[r].name \notin raced =>
                     create_in_order(req[r].name, req[r].key, req[r].at)
DeletesInOrder == \A r \in Reqs : req[r].op = "delete" /\ req[r].name \notin raced => req[r].name \notin DOMAIN made
key_in_hand(op, at) == (op = "create" /\ at # "begin") \/ (op = "delete" /\ at = "withdraw")
KeyInHand == \A r \in Reqs : key_in_hand(req[r].op, req[r].at) => req[r].key # NoKey
HalfIsWriting == \A n \in DOMAIN dirs \ (raced \cup torn) : dirs[n].meta = "half" =>
    \E r \in Reqs : req[r].name = n /\ req[r].op = "edit" /\ req[r].at = "writing"

(* A key is of one name. *)
keys_of(n) == {k \in 1..keyNo : \/ n \in DOMAIN sites /\ sites[n] = k
                                \/ n \in DOMAIN loading /\ loading[n] = k
                                \/ n \in DOMAIN dirs /\ dirs[n].key = k
                                \/ n \in DOMAIN made /\ made[n] = k
                                \/ \E r \in Reqs : req[r].name = n /\ req[r].key = k}
KeysApart == \A n, m \in SiteNames : n # m => keys_of(n) \cap keys_of(m) = {}

(* A site that was made is on disk, in the map or about to be, and announced or known not to be. *)
made_held(n, k) ==
    /\ n \in DOMAIN dirs /\ dirs[n].key = k
    /\ boot # "off" => \/ n \in DOMAIN sites /\ sites[n] = k
                       \/ n \in DOMAIN loading /\ loading[n] = k
    /\ boot = "serving" => k \in published \cup unsent \/ <<"publish", k>> \in announcing
    /\ <<"withdraw", k>> \notin announcing
MadeHeld == \A n \in DOMAIN made \ (raced \cup torn) : made_held(n, made[n])

(* A key the DHT republishes, or will, has a site or a withdrawal behind it. *)
due(k) == k \in published \/ <<"publish", k>> \in announcing
leaving(k) == \E r \in Reqs : req[r].op = "delete" /\ req[r].at = "withdraw" /\ req[r].key = k
DueHeld == raced = {} =>
    /\ \A k \in 1..keyNo : due(k) => (\E n \in DOMAIN sites : sites[n] = k) \/ leaving(k) \/ <<"withdraw", k>> \in announcing
    /\ \A i, j \in 1..Len(dht_tx) : i < j /\ dht_tx[i][1] = "withdraw" /\ dht_tx[j][1] = "publish" => dht_tx[i][2] # dht_tx[j][2]

SmInv == /\ SmTyped /\ BootInOrder /\ OneAtATime /\ CreatesInOrder /\ DeletesInOrder /\ KeyInHand /\ HalfIsWriting
         /\ KeysApart /\ MadeHeld /\ DueHeld
============================================================================
