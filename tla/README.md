# HidraNet: a verification project

TLA+ models of the parts of HidraNet that keep state, the TLC runs that check
them on small instances, and TLAPS proofs for every size of instance.

## 1. The system and its parts

The repository holds two programs that share little code. **HidraVPN**
(`hidravpn/`) sells and gives access to WireGuard nodes; **HidraNet**
(`hidra-node/`) is an onion network with a DHT, relays and applications. A
browser, a monitor and a landing page are front ends.

| Part | State | Operations | Interacts with |
|---|---|---|---|
| Spent list (`hidravpn-node/leases.rs`, `SpentPasses`) | tags in memory, `spent.json`, `spent.log` | `record`, `forget`, `prune`, `save`, `load` | the node's main loop calls it |
| Lease table (`leases.rs`, `Leases`) | `peers.json` under `peers.lock` | `admit_as`, `revoke`, `expire_idle`, `note_*`, `update` | main loop, reaper and the operator's process |
| Node main loop (`hidravpn-node/main.rs`, `run`) | the request in hand, the device's peers | one admission, its undo, the reaper, start and stop | a 64-place channel from the handlers, a oneshot reply to each |
| Admission service (`hidravpn-node/admission.rs`) | connections, rate windows, session keys | `POST /admit`, `POST /redeem` | the main loop; clients over HTTP |
| Operator commands (`Cmd::Admit`, `Cmd::Revoke`) | none of their own | change the table, then the device | lease table, device |
| WireGuard device (`wg.rs`) | allowed address of each peer | `add_peer`, `remove_peer`, `bring_up` | the kernel |
| Issuer's orders (`hidravpn-issuer/main.rs`, `Orders`) | open and paid orders, used transactions, a second file of lapsed records, an index in memory | `POST /quote`, `POST /claim`, `order credit` | the chain's explorers, the accounts, the operator's process |
| Issuer's accounts | balance or quota of each token | `issue` (charge, sign, refund), `credit` | the orders credit it |
| Session limiter (`admission.rs`, `RateLimiter`, `OpenPerIp`) | sliding windows, connections, `held` | look, check work, take a place, give it back | handlers, main loop, reaper |
| Userspace WireGuard (`userspace.rs`) | peers by index and by key | `set` requests, packet loops | the node's device calls |
| Rate, price and chain (`payment.rs`, issuer) | the rate, the bucket of quotes | fetch feeds, quote, ask the RPCs | the orders |
| Client's orders and tokens (service `passes.rs`) | `pass.token`, tokens kept, `order.json` | `passes buy`, `claim`, `token` | issuer; command line and service write the same files |
| Wallet and passes (`hidravpn-core/pass.rs`, service `passes.rs`) | passes held, passes taken by a build | ask the issuer, redeem at a node, put back | issuer and node |
| Client daemon (`hidravpn-service/daemon.rs`) | the circuit, the build, three locks | connect, rotate, passes, refill, join, down, shutdown | node, operating system, control channel |
| Control channel (`ipc.rs`, `seal.rs`) | token and key of the run, connections | hello, sealed request and answer | command line, browser; another program on the same name |
| Directory and pocket (`hidravpn-core`) | signed lists, invites by key and name | import, join, add, remove, choose hops | circuit building |
| Kill switch (`killswitch/`) | rule sets in nftables or WFP | install for a circuit, for a hold, remove | the daemon; every packet |
| Network plan (`netcfg/`) | routes, `resolv.conf`, its copy, the plan file | apply, revert, recover | the daemon; crashes and reboots |
| DHT (`hidra-node/p2p`) | k-buckets, descriptors, lookups | ping back, store, republish, find, expire | peers |
| Links and circuits (`network`, `onion`, `relay`, `client`, `crypto/handshake.rs`) | layers and their counts, pool, relays' tables | handshake, extend, relay cells, tear down | peers |
| Hidden services (`main.rs`, `relay/router.rs`, `service_auth.rs`) | registrations, sessions | register, hello, answer, sealed pieces | relays, local servers |
| Applications (`hidra-node/apps`) | sites, mail, retained messages, forum accounts, rooms | HTTP and MQTT handlers | the DHT, the pages |

What is hard in this code is in `PROJECT.json` under `hazards`, each at its
line: writes that fail halfway, power cuts between two files, a handler that
gives up while the main loop works for it, a process of the operator that
changes the same file, a device changed outside the lock, a claim that uses an
old reading of the clock, a circuit built while a `down` comes, rules whose
order decides, places in a window or a semaphore that several paths give back,
a read dropped in the middle of a frame, a message published while a page loads.

What makes each part correct: a pass admits once and is not used up for nothing;
an address is leased once; a transaction pays once and an order is credited
once; an order somebody may have paid is not lost, nor its token; a quota is not
exceeded; no traffic leaves outside the tunnel, and nothing sent ties the two
hops together; a DHT seat is earned and an own record is not pushed out; a
circuit's bytes come out in order; two clients' sessions do not mix; what the
relay keeps is what its readers see.

## 2. Modules

| Module | Models | Built on |
|---|---|---|
| `SpentList` | what the spent list promises its caller | |
| `SpentPasses` | the spent list with its two files and every state a failed write leaves | implements `SpentList` |
| `AdmissionNode` | the node: handlers, main loop, reaper, leases, device, operator, crashes | extends `SpentList` |
| `AdmissionNodeProofs` | proofs about `AdmissionNode` | |
| `OrderBook` | the issuer's orders: quotes, claims, the operator's `order credit`, both files, the index, failures, crashes | |
| `OrderBookProofs` | proofs about `OrderBook` | |
| `ClientDaemon` | the service: requests, locks, circuit, kill switch, passes | |
| `NodePocket` | the pocket and the signed lists | |
| `ControlChannel` | token, key and connections of the service | |
| `PassOrders` | account tokens and orders on the client | |
| `PassAccounts` | the issuer's accounts, and machines that fetch passes | |
| `SessionLimiter` | the open node's windows and connections | |
| `PassSales`, `PaymentCheck` | rate and quotes; what the chain's RPCs say | |
| `Sales` | the two side by side: what the issuer sells at, to whom, for what | `PassSales`, `PaymentCheck` |
| `PassProofs` | proofs about `SpentPasses` and `Sales` | `SumTheorems` |
| `KillSwitch`, `NetPlan` | the firewall's rules; routes and name servers | |
| `Host` | the two side by side: what the client changes on its machine | `KillSwitch`, `NetPlan` |
| `UserspaceWg` | the node's own WireGuard | |
| `VpnPartsProofs` | proofs about `NodePocket`, `ControlChannel`, `UserspaceWg`, `PassOrders`, `PassAccounts`, `SessionLimiter`, `Host` | `SumTheorems` |
| `DhtContacts`, `DhtServices`, `DhtLookup` | routing table, descriptor store, lookups | |
| `NoiseHandshake`, `CircuitCells`, `CircuitPool` | handshake, cells of a stream, circuits kept ready | |
| `NetworkProofs` | proofs about `DhtLookup`, `DhtContacts`, `CircuitPool` | |
| `IntroPoint` | hidden services behind a relay | |
| `SiteManager`, `HidraMail`, `RelayBroker`, `ForumRules`, `HidraChat` | the applications | |
| `AppsProofs` | proofs about `IntroPoint`, `SiteManager`, `HidraMail`, `ForumRules`, `HidraChat` | `SumTheorems` |
| `ServiceProofs` | proofs about `ClientDaemon` and `RelayBroker` | `SumTheorems` |
| `Sums`, `SumTheorems` | sums over a finite set, and how they change | |
| `MCSpentPasses`, `MCAdmissionNode`, `MCOrderBook`, `MCClientDaemon` | instances for TLC | |
| `MCVpnParts`, `MCNetwork`, `MCApps` | the parts that share no state, one to a behaviour | the modules above |

**SpentPasses.** `tags`, `journal` and `journal_torn` are the struct's fields;
`spent_json`, `log_lines`, `log_cut` and `log_tail` are the files: the snapshot,
the whole lines of the journal, whether it ends without a newline, and what that
end reads as. `short` holds the passes with a copy whose date lost digits as it
was written: such a line still reads as one, with a date long past, and `prune`
drops it. A failed `write_all` or `sync` leaves nothing, part or all of the
line; a failed `save` leaves the old files, the new snapshot with the old
journal, or both new. A power cut inside an operation is a failed write
followed by `LoadSpent`. A `rename` is taken as durable once `save` goes on
(its directory flush is ignored by the code; see the hazard at that line).
`acked` and `doubt` record what callers were told.

**SpentList** is what callers may count on: a pass taken with success, not
given back and still valid is held; nothing is held but such passes and those
whose last operation failed; a failed `record` holds its pass only when an
earlier operation failed too (the torn journal).

**AdmissionNode.** `pc` is where the main loop is, one value per point where
another process can act or a crash can fall: before the table is locked
(`update`), before it is written (`save`), before the device (`peer`), each step
of `undo_admission`, before `reply.send`. The lock on `peers.lock` is held in
`save` and `reapSave`; the operator's commands wait for it (`Unlocked`) and
change the device afterwards, in a step of their own (`OpDevice`). Handlers go
`idle`, `checked`, `waiting`, `got`, `told`, or `lost` when their connection
ends. A pass is signed over its client's key, so a pass names its key
(`PassOf`, `KeyOf`). Time is abstracted to its effects: `PassExpires`,
`GoQuiet`, `GiveUp`. `won`, `cut`, `leaked` and `paid` are history.

Left out of it: the invite's content (building it can fail, as part of
`NodeAddPeer`), the count `held` and the session window, which are
`SessionLimiter`'s, NAT and DNS.

**OrderBook.** `orders`, `used` and `lapsed_pruned` are the orders file,
`lapsed_file` the records of orders that lapsed unpaid, `index` the `Index` in
memory, kept as the orders it was made from (it is a function of them). Every
change to the file is a function from a loaded `book` to the one to be saved
(`prune`, `hold`, `tried`, `unmark`, ...); `Saved` writes it, `NotSaved` leaves
what a failure leaves: some of the lapsed records appended, or all of them and
the old ones dropped, with the orders file as it was. The file's own lock makes
each change one step. The issuer's lock is held over two steps only, between
marking an order and crediting the account (`lock`), so a crash, or the
operator's process, which does not take it, can come in between. A claim's `pc`
names the next call it makes: `hold`, `pace`, `chain` (no lock held), `mark`,
`credit`, `unmark`. Each task reads the clock once and keeps that reading;
`Delay` bounds how old it gets, and `Tick` waits for a task that is as old. The
chain is `chain`: what each transaction paid and when; a lookup that finds no
majority is the answer "undecided". An amount stands for the price of the pack
plus its tag. `credited` and `served` record what was credited, by transaction
and by order. `HandWithin` bounds how old a payment the operator credits.

The accounts appear only as those two histories: `PassAccounts` has the account
itself, `PassSales` the price and the bucket of quotes, `PaymentCheck` what
stands behind `chain`. Pacing of a token is a claim that may be turned away at
any time: that bucket's level is left out.

**ClientDaemon.** One action per stretch of a request between two awaits. `req`
is where each request is: waiting for `pocket_lock`, the file lock, the state's
lock (`LockState`), or done; the holder of the last builds in `build`, hop by
hop (`CheckHops`, the redemption of a pass, the tunnel, the plan), and a `down`
may cancel it meanwhile through `connecting`. `ks` is open, on hold or armed. A
pass goes from `wallet` to the build's hands and back (`after`) or to `spent`.
`sent`, `shown` and `token_sent` record what left this machine and how, `ended`
what a finished `down` had stopped. A crash falls between any two actions and
the service starts again from its files.

**NodePocket.** `merge_into`, `refresh`, `learn`, `add`, `replace_invite` on the
pocket as a record, and the commands that call them; `pool` is the circuit asked for last, which writes back what it won
with invites it read earlier. A list is one whose signature holds.

**ControlChannel.** A run of the service writes its token, then its key; a
client reads both files, at any time, and another program may hold the name,
keep what it is sent, pass it on and answer. Sealed lines open only for the key
they are sealed to.

**PassOrders.** A command holds the lock beside the pocket and takes several
steps, any of which may be its last; `SvcToken` is the daemon's `keep_token`,
which takes no such lock. `issued_orders` is the issuer, from how it is used.

**PassAccounts.** `IssueCharge`, `IssueSign`, `IssueRefund` are apart; top-ups, the end of the
day, a stop, other machines come between. A machine asks chunk by chunk and
keeps what came.

**SessionLimiter.** A handler looks at the window (`refusal_now`), checks the
work, takes a place, waits for the loop, gives it back when refused; its
connection may be dropped at any wait. The queue of sessions is kept as when
each key took its place, a window as the places in it; both slide from the
front. `granted` records the places allowed.

**PassSales, PaymentCheck.** `read_rate`, `agreed`, the largest change and its
confirmation, the bucket, the caps on orders over time. Each RPC answers, fails,
is behind or lies; `need` is the majority. `received_by` adds account by account
what the wallet gained, less what the accounts held that are gone. An open order
is its tag, when it was made and whether a claim reached it; a quote keeps the
time it read first, as the code does, and opens its order at that time.

**KillSwitch.** The rules of both systems match fields of a packet, and `Passes`
applies them the way each system does, first match or heaviest, to every packet of the instance: the property is over packets, not over rules.

**NetPlan.** Each call of the system that may fail or be the last before a crash
is a step; a reboot loses the routes and keeps the files. `cut` and `torn` name
the two cases that cannot be put back.

**UserspaceWg.** Set requests against the loops, which hold a peer after the
table's lock is gone (`down`, `upward`). A session opens only for the peer made
with the key that shook hands.

**DhtContacts, DhtServices, DhtLookup.** The first has `Checks` with its counts
per host and network, the semaphore, the backoff, the table with its shares and
the maintenance, against nodes that move, go silent or answer from elsewhere.
The second has `put`, `evict_one`, withdrawal, the republisher with signatures
made before they are stored, and a lookup that ends after the store changed. The third has paths that claim, ask, release and sleep on one
another over any graph of three nodes.

**NoiseHandshake, CircuitCells, CircuitPool.** A hash or a key is the pair of
the one before and of what was mixed in; altered fields and messages of another
session are tried everywhere. `Links` puts the first two side by side.
Cells are pieces on links, each layer counts its direction, a reader that loses
a race keeps what it read. The pool ages against the guard's and the relays'
idle limits, with tables that are full.

**IntroPoint.** Runs of a service register in turn, the relay's handler bridges
one client at a time, hellos are answered with a signature over the client's
part, pieces carry session and number, and the relay may repeat any of them.

**SiteManager, HidraMail, RelayBroker, ForumRules, HidraChat.** Requests are
tasks with a step per await; files may be caught half written. `RelayBroker` has
the entry's `loading` flag on one side and the connection's belief on the other,
deferred frames, the writer thread with its batch and retries. `ForumRules` is
one action per fact that `ForumPolicy` lets in, each one hold of the relay's
lock, with the accounts kept beside the messages. `HidraChat` has leaving and
forgetting a room as two steps.

## 3. Runs

| Run | Instance | Shows |
|---|---|---|
| `spent_passes` | 3 passes, compaction after 2 lines, 3 failed writes | `AckedIsSpent`, `TearIsRepaired`, the refinement |
| `node_retry` | one pass redeemed twice, 3 failures, 2 stops or crashes | `AdmitsOnce`, `PassForLease`, `UsesListRightly`, `QuietLeaseLapses` |
| `node_operator` | open node, a session key and a lasting one, an operator with 2 commands, a failure, a stop | `AddressesDistinct`, `OthersLeasesKept`, `DeviceMatchesLeases` |
| `order_claims` | one order, two transactions, two claims and the operator; the accounts file fails or the command is cut off | `FirstClaimAnswered`, `CreditsExact` |
| `order_faults` | two orders, one transaction, two claims and the operator, any one failure of six kinds | `TxPaysOnce`, `AmountsDistinct`, `BookSound` |
| `order_by_hand` | two orders, a claim and the operator, time past the week a record is kept, a failed change | `OrderKept` |
| `client_daemon` | 3 requests at once of a user or root, two entries, an exit, two passes, a failure or a crash (1.26 M states) | `ProtectedAsAsked`, `NothingLinked`, `NoPassLost`, `NobodyStuck`, `OwnersCircuitKept` |
| `hidravpn_parts` | the ten parts of `MCVpnParts` (611 k states) | `PocketSound`, `ChannelTrusted`, `PaidTokenKept`, `AccountExact`, `ShareKept`, `SalesSound`, `HostSound`, `WgSound` |
| `hidranet_network` | the six parts of `MCNetwork` (617 k states, after symmetry) | `ContactsSound`, `StoreKeepsItsRules`, `LookupSound`, `PoolSound`, `LinksSound` |
| `hidranet_apps` | the six parts of `MCApps` (1.3 M states) | `SessionsApart`, `SitesSound`, `MailKept`, `RelaySound`, `ForumSound`, `ChatSound` |

`CreditsExact` is `AlreadyMeansCredited` and `OrderCreditedOnce`, `PassForLease`
is `LeaseIsPaidFor` and `SpentForSomething`, `BookSound` is `CapsKept` and
`IndexSound`; the names ending in `Sound` are likewise the conjunction of the
named parts of their modules.

The last three runs each hold several parts that share no state. `which` names
the part a behaviour is of; the other parts stay in one initial state, so the
reachable states are the sum of the parts' and not their product, and a property
of one part is checked over exactly the behaviours of that part. In
`MCVpnParts` three values are of `PassOrders`: "commands" (the service sets no
token), "service token" (it sets one while no command runs) and "token race"
(neither bound), which only `token_lost` has; "rates" and "quotes" are the two
halves of `PassSales`, one with the clock nearly still and one with one rate.
`FewFaultsOnceStopped` in `MCApps` keeps the relay's failed writes and second
subscriptions before its first restart. `Alike` in `MCNetwork` permutes pushers
and services of other nodes, which the module never tells apart.

Bounds. Two redemptions of one pass are enough for a replay, a retry and a
race; the third pass in `spent_passes` lets a journal hold a line before and
after the one that fails. Three failures let a write fail, its repair fail and
a later write fail again; `MaxStops` allows a crash during recovery from a
crash. `Hosts = 2` with three keys makes the subnet run out. Counters (`faults`,
`stops`, `ops`) are bounded in their guards. Requests are finite, so these
instances come to rest: their configurations turn the deadlock check off.

The parts: two nodes and three lists, the last withdrawing one, are enough for a
rename that meets another's old name. Two starts of the service make an old
token and key. Two machines with a quota of one race for it. Limits are one or
two, with one more client than they let in, so that each is reached: connections,
seats of a network, ping-backs, stored services, relays' tables, queues to a
slow reader, members of a room. Clocks go one tick past the last limit. Three
requests are a holder of a lock, a waiter and a `down`. Three RPCs with one liar
are a majority that one answer decides. Two hops, two cells a way and one
tampering reach every count that may slip. Instances come to rest when requests,
faults and time are used up, hence `CHECK_DEADLOCK FALSE`; that nobody waits for
ever is `NobodyStuck`, `SleepsForSomeone` and `FirstClaimAnswered` instead.

In `OrderBook` time is counted in the life of an unclaimed order: an order a
claim has reached lives twice that, a paid one is remembered for two lives more,
a lapsed record for six, in the order the code's constants have. One order is
enough to be credited twice, two for an amount used twice and for the caps; a
held cap of one and an open cap of two are both reached. One failure at any step
of any task already reaches every half-done change but a failed `unmark`, which
takes a failed credit first (section 4 says what that one costs). `order_claims`
and `order_by_hand` leave out the failures that refute their properties (the
exceptions of section 4). `FirstClaimAnswered` names one
claim of two: they differ in nothing, and the other is what it waits for.

Fairness. The main loop runs what it has begun (weak fairness of its steps);
`select!` picks among ready branches at random, so a tick that is ready again
and again is taken (strong fairness of `ReapTick`); the service manager starts
a stopped node. In `OrderBook` a claim under way goes on: the issuer's lock is a
tokio mutex, handed on in turn, a lookup on the chain is given up after a
timeout, and a file is written or fails. `SpentPasses` assumes only that the reaper keeps ticking.
Failures are bounded, so liveness says what happens once writes work again.

Two runs show a disagreement between the code and its own comments or docs
(`findings` in `PROJECT.json`):

- `claim_cut_short`: a crash between marking an order and crediting its account;
  the claim repeated is answered "already claimed" and never credited.
- `token_lost`: the service keeps a token with no lock while `passes buy` makes
  one and orders with it; the new token, which may have been paid for, is written
  over. `hidravpn_parts` shows that nothing else loses one.

Also seen in the models. Where a definition is named, it states what a reader
might expect and TLC refutes it, under the run's constants or with one of them
one larger:

- *Node.* A client told to keep its pass finds it spent, since the undo of a
  late answer may fail with nobody to be told (`KeptPassWorks`, `main.rs:807`);
  a 5xx for a pass whose key keeps its lease (`RefusedIsNotAdmitted`, `:504`); a
  revoke between the table's write and the device is undone in the device
  (`OperatorNeverUndone`, `:784`); a pass checked just before it expires is
  admitted again after its tag was pruned (`leases.rs:568`); a failed admission
  revokes a lease given by hand (`main.rs:504`).
- *Limiter.* A place may be held for a key nobody waits for
  (`PlaceIsForSomeone`).
- *Orders.* `order credit` takes a record out of the lapsed file before the
  orders file is saved, and a failure between loses it (issuer
  `main.rs:2315`); a used transaction is forgotten after two days, records are
  kept seven (`:2049`), so the operator can credit one twice when an amount was
  quoted again; `mark_paid` may mark a later order than the one compared with
  (`:2199`); a failed save leaves a lapsed order in both files (`:2003`);
  `read_lapsed` keeps the first of two records, perhaps the shorter (`:1781`).
- *Accounts.* A request that read the day before midnight and charges after one
  of the new day turns the account back to the old day, and the new day's quota
  begins again (`QuotaKept`).
- *Client.* An order replaced by a later one cannot be claimed from this machine
  again. A pass may reach its node by both ways (`NeverSentBothWays`); what a
  tunnel shows never does. A withdrawn node comes back when a circuit planned
  before writes to the pocket (`WithdrawnStaysOut`). A route is in the plan only
  after it was made; a `resolv.conf` cut while empty is put back by nobody.
- *Kill switch.* On Windows the "allow LAN" permit names no interface, and on
  Linux the DHCP rule names no remote address: `MayLeave` has both.
- *Userspace WireGuard.* An address allowed to a peer is not taken from another
  as the kernel does; setting an existing peer drops its session.
- *DHT.* `MAX_TRACKED_PUSHERS` is not enforced; a descriptor withdrawn while one
  is being signed comes back (`WithdrawnGone`); the maintenance keeps a stale
  node when another answers at its address.
- *Circuits.* A client's build has no timeout of its own, so `maintain` can wait
  on a relay that keeps its link open.
- *Hidden services.* A piece that finds no local connection opens one, so after
  one that failed or ended the server reads a session from its middle
  (`OneConnection`); the end of an old registration's handler
  takes the newer registration out with it (`NewestStays`).
- *Sites.* Concurrent creations of one name, a deletion beside a publication, a
  full queue and a stop between meta file and key are what `raced`, `unsent` and
  `torn` except. `raced` has a fourth case, which the proof brought out and two
  stops show: a creation asked for before the start's load task has run writes
  its own key over the one on disk.
- *Mail.* A lost answer makes the sender send again, and the mail is there twice.
- *Relay.* A publish acknowledged after the stop took the store is not written;
  a store that broke leaves memory ahead of the disk; the sweep tells nobody.
  A restart refills the meter of names and the grace of unlisted ones.
- *Chat.* Messages between the welcome and the subscription are missed
  (`NoneMissed`).

## 4. Proofs

All for any sets of passes, keys and requests, any limits and any number of
failures, stops and commands (`SpentPasses` needs a finite set of passes).

`PassProofs`, the spent list: the inductive invariant `SpentInv` adds to the properties
that only an end without a newline reads as a pass by itself, that a torn
journal goes back to an operation that failed, and that no valid pass that was
taken has a copy with its date cut short (`TailInv`). Without the last, the
reaper could drop a taken pass. From it: `TakenPassesStaySpent`,
`TearsAreKnown`, `NothingInvented`, and `SpentPassesImplementsSpentList` (every
operation, failed write and restart maps to a step of `SpentList`).

`PassProofs`, sales: `SalesAreSound`, from the three parts of `SalesSound`.
- `NeverFullHolds`: `QuotesInv` says that what the bucket let through since any
  time, as orders no claim reached or as quotes about to open one, with what is
  left in it, is at most a burst for each start and what the bucket was filled
  by since (`Paced`). Orders older than their life aside, what is open is then
  within the bound of the code's compile-time assertion. One thing that
  assertion leaves out: an order is made at the time its quote read first, so a
  quote that waits is measured against the orders of that time, of which fewer
  have lapsed. The theorem takes how long a quote waits at most (`Prompt(w)`)
  and asks for room for what the bucket lets through in that time too
  (`RoomFor(w)`); the code's constants leave room for waits of more than twelve
  minutes.
- `RateFollowsHolds`: `RateInv` says which fetched rate is believed and how many
  fetches in a row have said the one held back.
- `ConfirmedHolds`: `CheckInv` says that a payment an honest RPC told of is the
  one on the chain. A majority is not made of liars (`MajorityIsHonest`), so
  what a majority says is on the chain; and the sum over the accounts is the
  difference of the wallet's totals (`GainsAddUp`), whichever accounts a
  transaction opens or closes. The proof showed what to count: an RPC listed
  twice has two votes, so it is the entries of the list of which fewer than half
  may be liars' (`RpcAssumption`).

`AdmissionNodeProofs`: `NodeInv` is the types, `SpendInv` and `TableInv`.
`SpendInv` says that a pass for which an invite went out is in the list until it
expires (`WonIsTaken`), that the pass in the loop's hands is one for which none
went out (`InHandIsFresh`) and, once its lease may be saved, is in the list
(`InHandIsTaken`), and that the list is asked rightly (`AskedRightly`).
`TableInv` says that while the loop holds the lock its copy is the table but for
what it is about to change. From it: `NodeTypes`, `PassAdmitsOnce`,
`LeasesAreDistinct`, `OperatorsLeasesKept`, `NodeUsesListRightly`. The last
closes the argument: the node takes only steps `SpentList` allows its caller,
and under those steps `SpentPasses` implements `SpentList`.

`OrderBookProofs`: `TxPaysOnceHolds` and `AmountsDistinctHolds`, for any tokens,
amounts, transactions, claims and caps, with every failure and crash, from
`Timely`: twice `Delay` is at most an order's life, and twice `Delay` plus
`HandWithin` is at most `KEEP_PAID`. With the code's constants that is half a
day for a task and a day for a payment credited by hand; section 3 says what
happens without it. `OrderInv` needs three things beside the properties.
`Memory`: a transaction that was credited, marks an order or is held by a claim
or by the operator is in `used`, or is so old that it may be forgotten. `Times`:
readings of the clock are young, and a claim about to mark holds an order that
was open at its time and a payment no older than that order. The two together
say that a transaction found unused is nobody's. `Holders`: whoever holds a
transaction holds it alone and a claim's is on one order only, so that `unmark`
and `put_back` free nothing that somebody else counts on, and an unmarked order
gets its amount back with no other order at it.

`AlreadyMeansCreditedHolds` says that whoever is told "already claimed" finds
the transaction credited, if nothing crashes and every mark of a failed credit
can be undone: `claim_cut_short` shows why the crash is excepted, and a mark
left over from a credit that failed leaves the same state behind. Its
`AlreadyInv`: a marked order's transaction is credited, or in the hands of the
claim that marked it.

A second invariant of the same module, `BookInv`, says where an order is until
its pack is credited (`Owed`): it stands in the orders file, where an order that
a claim marked counts as it was before (`Standing`), or has a record in the
lapsed file, or its record is in the operator's hand. Its parts: numbers are
given once (`Numbered`), what a claim marked is in the file with the mark
(`MarkStands`), the caps bound what stands and not only what is open
(`CapsOf`), an order is in one place at most and only while its pack was not
credited (`Once`), in one place at least (`Kept`), and the index, like the file
a crediting claim will note in it, is open at every later time exactly where
`Standing` is (`IndexRight`). `Loaded` says the same of a file in memory between
loading and saving, so that `prune`, `hold` and `tried` are treated once for
all tasks. From it:

- `CreditsExactHolds`: a pack is credited once and "already claimed" is true,
  whatever credits fail and wherever the operator is cut off. A failed save of
  the orders, by the issuer or by the operator, is excepted: the lapsed records
  are written before the orders file, so the order is then in both.
- `OrderKeptHolds`: no order is lost, whatever saves of the issuer and credits
  fail. Excepted is what stops between two steps: a crash after the mark, an
  unmark that fails, the operator's command cut off or failing with a record
  taken.
- `BookSoundHolds`: the caps and the index, with every failure and crash but a
  failed `unmark`, after which the file has the order paid and the index not.

Each exception is needed: with the failure let in, two failures at most and
three ticks of time, TLC refutes the property.

`AdmissionNodeProofs`, second part: `PassStandsForLease` from `PaidInv` (a lease
about to be saved is paid for too, and no lease but the one in hand stands on
the pass that may yet be given back) and `GoodInv` (of every pass but the one in
hand it is known what came of it; the one in hand was not taken, or is spent),
and `DeviceHoldsLeases` from `DeviceInv` (the device differs from the table only
at the key whose peer the loop is about to change). Both rest on `NodeInv`.

`ServiceProofs`, first part: one invariant, `ClientInv`, for all five properties
of the run of `ClientDaemon`. `Locking` ties each of the three locks to the step its holder is at, a
build to the state lock, and what can be stopped to requests for a circuit.
`HandsCovered`: the wallet a build works on holds every pass not used up, so
writing it back at the end loses none. `AskedSafely`: whoever is about to send
the token has held the lock file since a moment with no two hops.
`WonOneWay`: a pass was won, or is about to be shown, in one way only.
`HeldThroughBuild`: a build whose failure would open the machine found it
open. `StaysEnded`: what a `down` stopped is done or will not be built, and
no build has it as the circuit to fall back to. `SomebodyGoesOn` needs
`Locking` alone: the locks are taken in one order. `OwnersCircuitIsKept` is an
action property, shown step by step from the same invariant.

`ServiceProofs`, second part: `RelayIsSound`, for any pages, topics, filters and
limits of the queues. `RbSound` says of each connection (`LineSound`) what may
wait for it where it is in its life (`LineShape`: the entry's `loading` and the
connection's belief agree; a page that is not loading has nothing but its queue),
what will come of every topic it asked for, and that nothing is on its way of a
topic it did not ask for (`LineTold`): when it subscribes, it starts from
nothing. That a frame moved from one queue to the next is told at the same place
is `AfterBoth` (what is known after two stretches of frames), that a SUBSCRIBE
names everything it owes in whatever order is `OrderNamesAll`, and the disk
follows memory because a batch and the log behind it are two such stretches too
(`WrittenBoth`).

`VpnPartsProofs`:
- `PocketIsSound`. `PocketInv` adds that whatever is in the pocket, or with a
  circuit, is an invite of its shape. Taking in a list is a fold over its
  records (`MergeIsFold`, `MergeExists`); each record keeps who is admitted
  (`RecordKeeps`: a role that leaves one slot puts the invite in the other), so
  there is no smallest part of the list after which somebody is lost
  (`MergeKeeps`).
- `ChannelIsTrusted`. `ChannelInv` adds that the token file is written after the
  key file (`TokenAfterKey`), that what travels is what some client asked, with
  the token it read (`LinesAsAsked`), and that answers signed by a run are that
  run's (`AnswersTruthful`).
- `WgIsSound`. `WgInv` adds that both indexes and the packet on its way up name
  peers that were made.
- `PaidTokenIsKept`. `OrdersInv` adds that only the holder of the file lock is
  between two steps (`Alone`), that what it read is still so (`ReadsAreFresh`),
  and that every order's token is kept under its name or is the account token.
  `keep_token` takes no lock, so this is proved of `OrdersInTurn`, in which it
  runs between the commands; the run `token_lost` shows the other case.
- `AccountIsExact`. `AccountInv` adds that a request that was charged has an
  account to give back to. Each step moves passes between the balance, one
  machine's request and the history, and the sum over the machines with it.
- `ShareIsKept`. `LimInv` adds that every place allowed to an address since a
  time that its window still reaches back to is counted in that window
  (`PlacesCounted`): a refusal gives back a place of its own address and time.
- `HostIsSound`, from the two halves of `HostSound`. For the kill switch
  (`KillSwitchHolds`) the invariant `KsInv` says that the rules in force are
  those of a configuration one of the three callers makes, and on Windows that
  its tunnels were up when they were installed (`Filters`); no more is left of
  the past. The rest is about rules: which rule of a chain decides when two
  chains stand one after the other (`ChainBoth`), what each piece of the Linux
  tables hits and accepts first (`Piece`), and that the heaviest filter that
  matches decides (`HeaviestPermits`, `HeaviestBlocks`), for every packet and
  any nodes, ports and addresses. For the network (`PutBackHolds`) the invariant
  `NetInv` follows `apply` and `revert` step by step: what the plan in memory
  and the plan file name of what is in the system (`RoutesInv`), and between
  which steps the copy is the machine's own (`DnsInv`, `PlanInv`).

`NetworkProofs`:
- `LookupIsSound`. `LookupInv` adds that what is asked is claimed, what answered
  a path is answered, and a path that ended in time left nothing in its window.
  That some claimed node is being asked is why nobody sleeps for ever.
- `PoolIsSound`. `PoolInv` adds that what the guard and the relays keep of a
  pooled circuit was last used when it joined the pool or later, and that a
  session has one circuit at any time, not only an open one.
- `ContactsAreSound`. `ContactsInv` adds that seats and requests are finitely
  many and that a host has one check at a time, so that a check that ends gives
  back its own place.
- `StoreRulesHold`. `SvInv` adds that what this node publishes is held as its
  own, whoever pushes it back (`OwnHeldAsOwn`), and that a pusher's window holds
  no more than was counted in it (`WindowsWithin`).
- `LinksAreSound`, for any number of hops, cells, sessions and relays that
  tamper. `NhInv` adds that every end's transcript is what its own steps mix in
  (`EndsWhole`, `EndsInStep`) and that a message in the air was written by an
  end past it, from what that end had heard (`AirIsWritten`). A shared secret
  names whom it was encapsulated for, so two ends with one transcript name each
  other. `CcInv` adds that the far end's count on a cell is the cell's number
  (`CountsFollow`), that pieces lie on a link in the order they were put there
  (`InOrder`) and that, until somebody tampers, a link holds exactly the pieces
  put on it and not used yet (`InTurn`).

`AppsProofs`:
- `MailIsKept`. `MailInv` adds that whoever runs or sends has its own key whole
  on disk, that the key a mail is sealed to is the recipient's (`KeysWhole`), and
  that a mail stored but not acknowledged yet is there (`StoredIsThere`).
- `ChatIsSound`. `ChatInv` adds that no two names lead to one room, and that a
  room in the map is under the name by which whoever is in it, or has it to
  forget, joined it (`RoomsOfOneName`).
- `SessionsStayApart`. `HsInv` adds that what a local connection got is of the
  session the service is on, in order and all before the next piece it expects
  (`LocalsInTurn`), that no two clients are answered with, or have, one session
  number (`NumbersApart`), and that what is sealed under a number is of that
  session (`RepliesOwn`).
- `ForumIsSound`. `ForumInv` adds the accounts' types, that every post in the
  store was signed, and that first keys are noted of exactly the posts kept.
- `SitesStaySound`. `SmInv` adds that the start loads before it serves
  (`BootInOrder`), that a name is in one task's hands at a time (`OneAtATime`),
  how far a creation or a deletion has come by what is on disk
  (`CreatesInOrder`, `DeletesInOrder`), that a half-written file has its writer
  (`HalfIsWriting`), and that keys of two creations differ (`KeysApart`). The
  exceptions are those of the property, not more.

`SumTheorems` has what the accounts need: a sum over a finite set changes by as
much as its one changed member, a sum of parts is at most the whole, a count is
a sum of ones, and some numbers up to a bound have a greatest. The library's sum
is a fold that takes the elements one by one, and the library's induction
theorems take an operator the provers cannot be given; so each lemma is proved
by the smallest set it would fail for (`SmallestSet`, from the least number).

What is assumed of constants is named where they are declared, and TLC checks
it on each run. Most only keep names apart (`"none"` is no caller, `Pool` no
session, `RolesApart`, `SitesConstants`, `NetConstants`) or say that a limit is a number
(`LimiterConstants`, `ServicesConstants`, `SalesConstants`, `RelayConstants`), that lists hold records (`PocketConstants`) or that hops stand in a row
(`HopsInRow`). Those with content:

| Assumption | Module | Justified by |
|---|---|---|
| `Timely` (a theorem's own) | `OrderBookProofs` | see above |
| `Faults` without `"crash"`, `"unmark"` (`AlreadyMeansCreditedHolds`) | `OrderBookProofs` | not the code: without it the theorem is false (`claim_cut_short`) |
| `Faults` within `"accounts"`, `"cut"` (`CreditsExactHolds`), within `"orders"`, `"accounts"` (`OrderKeptHolds`), without `"unmark"` (`BookSoundHolds`) | `OrderBookProofs` | not the code: TLC refutes each with any other failure let in (above) |
| `POOL_TTL` at most `BUILT_CIRCUIT_IDLE` and `RELAY_TTL` | `CircuitPool` | `CIRCUIT_TTL` of `circuit_pool.rs:14` is 300 s; `router.rs:448` and `:467` say 330 s |
| the exit's two endpoints are of IPv4 (`KsConstants`) | `KillSwitch` | `outer_peer` and `Bridge::to` are `SocketAddrV4` (`killswitch/mod.rs:75`, `:94`) |
| `SalesAssumption`, and `RoomFor`, `Prompt` (a theorem's own) | `PassSales`, `PassProofs` | the assertion at `main.rs:1123` of the issuer; with the constants of `main.rs:1096` and the two hours of `UNCLAIMED_LIFETIME` a quote may wait 769 s with one restart |
| fewer than half of the RPCs lie (`RpcAssumption`) | `PaymentCheck` | the setting the quorum is made for: "no single RPC -- lying or broken -- decides it" |
| a transaction's balances name an account once (`TxAssumption`) | `PaymentCheck` | not in `src/`: the chain gives one balance per account before and one after |
| two reserves within `MAX_RETAINED_BYTES` | `ForumRules` | `hidrarelay.rs:77`: 32 MiB, `:81`: 4 MiB |
| finitely many machines, circuits, passes | `PassAccounts`, `CircuitPool`, `SpentPasses` | a machine's memory |

Model-checked only:
- liveness: `TearIsRepaired`, `QuietLeaseLapses`, `FirstClaimAnswered`, out of
  the proof system's reach.

## 5. Plan

Modelled in this order: the spent list, the node, the issuer's orders, the
client's daemon, the other parts of HidraVPN, the network, the applications.
What is left:

1. *Composition*: the command line's `up` as a second process beside the daemon
   on the same pocket; `PassAccounts` under `OrderBook`; an abstract ledger that
   both implement; `ForumRules` under `RelayBroker`.
2. *Liveness* of the daemon (a request is answered) and of the relay's store.

## 6. Not modelled

Cryptographic primitives (perfect here, but for whom a key belongs to);
encodings, HTTP, MQTT and SOCKS parsing; NAT rules, set once at start; the DNS
forwarder, which keeps nothing; relay selection, metrics, analytics, search and
the local API; the browser, the monitor and the landing page; the release
checker and the signer. They hold no protocol state of their own, or are out of
a model checker's reach. Of the modelled parts, `components` in `PROJECT.json`
says what is left out. A file system that loses an acknowledged rename is not
modelled (the hazard at `leases.rs:537`).
