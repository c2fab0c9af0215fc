---------------------------- MODULE RelayBroker ----------------------------
(* HidraRelay, the MQTT broker of the chat and forum pages: connections that  *)
(* subscribe and publish, one queue to each client's writer, the last message  *)
(* kept per topic in memory, and a thread that writes them to SQLite. A new    *)
(* subscription is sent what is kept while other connections publish; a client *)
(* that does not read is dropped. The policy's verdict on a publish, and the   *)
(* room left, are ForumRules'; here a publish may be refused at any time.      *)
EXTENDS Naturals, Sequences, SequencesExt, FiniteSets

CONSTANTS RbClients,        \* connections
          Topics, Filters,  \* topics, and filters as the sets of topics they match
          MAX_SUBSCRIBES_PER_CONNECTION,
          OUTBOUND_QUEUE,   \* frames that wait for a client's writer
          MAX_DEFERRED,     \* frames held for a client while it loads
          STORE_QUEUE, STORE_BATCH, STORE_RETRIES,
          MaxPublishes, MaxStarts   \* bounds of the runs

ASSUME RelayConstants ==
    /\ {MAX_SUBSCRIBES_PER_CONNECTION, OUTBOUND_QUEUE, MAX_DEFERRED, STORE_QUEUE, STORE_BATCH,
        STORE_RETRIES, MaxPublishes, MaxStarts} \subseteq Nat
    /\ IsFiniteSet(Topics) /\ "" \notin Topics

Nothing == 0            \* an empty payload: the topic holds nothing
Live == MaxPublishes + 1   \* a payload that is not retained

VARIABLES retained,   \* topic -> the payload kept, or Nothing
          onDisk,     \* topic -> the payload in SQLite
          writes, batch, attempts,   \* the queue to the writer thread, its batch, its failed attempts
          store,      \* "open", "broken" (the thread gave up), "taken" (the process is stopping)
          conn,       \* client -> "out", "new" (no CONNECT yet), "loop", "reply" (an answer waits for room)
          entry,      \* clients in Shared.clients
          filters,    \* client -> filters it holds
          by_filter,  \* filter -> clients
          fill,       \* clients whose entry is `loading`
          deferred,   \* client -> frames held while it loads
          filling,    \* clients whose connection believes it is loading
          pending,    \* client -> what it is owed: frames, and topics to look up when their turn comes
          owed,       \* client -> topics a SUBSCRIBE in hand adds once it is answered
          outbox,     \* client -> frames in the queue to its writer
          view,       \* client -> topic -> what the page last received
          subscribes, \* client -> SUBSCRIBE packets of its connection
          left,       \* clients that have unsubscribed from something
          swept,      \* topics the sweep removed
          pubs, starts

diskVars == <<onDisk, writes, batch, attempts, store>>
entryVars == <<entry, filters, by_filter, fill, deferred>>
lineVars == <<filling, pending, owed, outbox, view, subscribes, left>>
rbVars == <<retained, diskVars, conn, entryVars, lineVars, swept, pubs, starts>>

Frame(t, p) == [topic |-> t, kept |-> FALSE, payload |-> p]
Retained(t) == [topic |-> t, kept |-> TRUE, payload |-> Nothing]
Control == Frame("", Nothing)   \* CONNACK, SUBACK, UNSUBACK, PUBACK, PINGRESP

(* What is known of a topic after some frames: what the last that tells of it   *)
(* says. A topic to look up tells nothing if the relay holds nothing of it.     *)
tells(f, t, held) == f.topic = t /\ f.payload # Live /\ (f.kept => held # Nothing)
told(f, held) == IF f.kept THEN held ELSE f.payload
telling(s, t, held) == {i \in DOMAIN s : tells(s[i], t, held)}
known_after(was, s, t, held) ==
    LET telling_it == telling(s, t, held) IN
    IF telling_it = {} THEN was ELSE told(s[Max(telling_it)], held)

NoneKept == [t \in Topics |-> Nothing]
RbInit ==
    /\ retained = NoneKept /\ onDisk = NoneKept /\ writes = <<>> /\ batch = <<>> /\ attempts = 0
    /\ store = "open" /\ conn = [c \in RbClients |-> "out"] /\ entry = {}
    /\ filters = [c \in RbClients |-> {}] /\ by_filter = [f \in Filters |-> {}] /\ fill = {}
    /\ deferred = [c \in RbClients |-> <<>>] /\ filling = {}
    /\ pending = [c \in RbClients |-> <<>>] /\ owed = [c \in RbClients |-> {}]
    /\ outbox = [c \in RbClients |-> <<>>] /\ view = [c \in RbClients |-> NoneKept] /\ subscribes = [c \in RbClients |-> 0] /\ left = {} /\ swept = {}
    /\ pubs = 0 /\ starts = 0

matches(f, t) == t \in f

----------------------------------------------------------------------------
(* accept_loop and the handshake; the page starts with nothing. *)
AcceptClient(c) ==
    /\ conn[c] = "out" /\ store # "taken"
    /\ conn' = [conn EXCEPT ![c] = "new"]
    /\ UNCHANGED <<retained, diskVars, entryVars, lineVars, swept, pubs, starts>>

(* A packet is answered when there is room in the queue. *)
goes_reply(c) == conn' = [conn EXCEPT ![c] = "reply"]

ConnectPacket(c) ==
    /\ conn[c] = "new"
    /\ entry' = entry \cup {c} /\ goes_reply(c)
    /\ UNCHANGED <<retained, diskVars, filters, by_filter, fill, deferred, lineVars, swept, pubs, starts>>

(* SUBSCRIBE: under one lock the filter is added, the topics owed for it are   *)
(* named, and the entry is loading when there are any. A filter held already   *)
(* is granted again. A client that was dropped ends.                           *)
topics_matching(fresh, already) ==
    {t \in Topics : retained[t] # Nothing /\ matches(fresh, t) /\ ~\E f \in already : matches(f, t)}
Subscribe(c, f) ==
    /\ conn[c] = "loop" /\ c \in entry /\ subscribes[c] < MAX_SUBSCRIBES_PER_CONNECTION
    /\ subscribes' = [subscribes EXCEPT ![c] = @ + 1]
    /\ filters' = [filters EXCEPT ![c] = @ \cup {f}]
    /\ by_filter' = [by_filter EXCEPT ![f] = @ \cup {c}]
    /\ owed' = [owed EXCEPT ![c] = IF f \in filters[c] THEN {} ELSE topics_matching(f, filters[c])]
    /\ fill' = (IF owed'[c] = {} THEN fill ELSE fill \cup {c})
    /\ filling' = (IF owed'[c] = {} THEN filling ELSE filling \cup {c})
    /\ goes_reply(c)
    /\ UNCHANGED <<retained, diskVars, entry, deferred, pending, outbox, view, left, swept, pubs, starts>>

Unsubscribe(c, f) ==
    /\ conn[c] = "loop" /\ f \in filters[c]
    /\ filters' = [filters EXCEPT ![c] = @ \ {f}]
    /\ by_filter' = [by_filter EXCEPT ![f] = @ \ {c}]
    /\ left' = left \cup {c} /\ goes_reply(c)
    /\ UNCHANGED <<retained, diskVars, entry, fill, deferred, filling, pending, owed, outbox, view, subscribes, swept, pubs, starts>>

PingReq(c) ==
    /\ conn[c] = "loop" /\ goes_reply(c)
    /\ UNCHANGED <<retained, diskVars, entryVars, lineVars, swept, pubs, starts>>

(* The answer enters the queue; what a SUBSCRIBE is owed comes after it. *)
Reply(c) ==
    /\ conn[c] = "reply" /\ Len(outbox[c]) < OUTBOUND_QUEUE
    /\ outbox' = [outbox EXCEPT ![c] = Append(@, Control)]
    /\ \E order \in SetToSeqs(owed[c]) :
          pending' = [pending EXCEPT ![c] = @ \o [i \in DOMAIN order |-> Retained(order[i])]]
    /\ owed' = [owed EXCEPT ![c] = {}] /\ conn' = [conn EXCEPT ![c] = "loop"]
    /\ UNCHANGED <<retained, diskVars, entryVars, filling, view, subscribes, left, swept, pubs, starts>>

----------------------------------------------------------------------------
(* Store.send: a write is queued unless the store is broken or behind. *)
queued(t, p) ==
    CASE store = "open"   -> Len(writes) < STORE_QUEUE /\ writes' = Append(writes, Frame(t, p))
      [] store = "taken"  -> UNCHANGED writes
      [] store = "broken" -> FALSE

(* remove_client: with the entry go its filters. *)
out_of(S) ==
    /\ entry' = entry \ S /\ fill' = fill \ S
    /\ filters' = [c \in RbClients |-> IF c \in S THEN {} ELSE filters[c]]
    /\ by_filter' = [f \in Filters |-> by_filter[f] \ S]

recipients(t) == {c \in entry : \E f \in Filters : matches(f, t) /\ c \in by_filter[f]}

(* A bug: a live message goes straight to the queue of a client still loading. *)
MutHeld(c) == FALSE

(* While a client loads, a live message is held for it. *)
held_for(c) == c \in fill

no_room(c) == IF held_for(c) THEN Len(deferred[c]) >= MAX_DEFERRED ELSE Len(outbox[c]) >= OUTBOUND_QUEUE

fan_out(t, p) ==
    LET to == recipients(t)  slow == {c \in to : no_room(c)} IN
    /\ deferred' = [c \in RbClients |-> IF c \in slow THEN <<>>
                       ELSE IF c \in to /\ held_for(c) THEN Append(deferred[c], Frame(t, p)) ELSE deferred[c]]
    /\ outbox' = [c \in RbClients |-> IF c \in to \ slow /\ ~held_for(c)
                       THEN Append(outbox[c], Frame(t, p)) ELSE outbox[c]]
    /\ out_of(slow)

(* publish: disk first, memory second, then every subscriber, under one lock.  *)
(* The same bytes again, a policy's refusal and a full store change nothing;   *)
(* a slow reader is dropped. The publisher is another connection, whose own     *)
(* answer waits in its own queue.                                              *)
Publish(t, retain, empty) ==
    /\ pubs < MaxPublishes
    /\ LET p == IF ~retain THEN Live ELSE IF empty THEN Nothing ELSE pubs + 1 IN
         /\ IF retain THEN queued(t, p) /\ retained' = [retained EXCEPT ![t] = p]
                      ELSE UNCHANGED <<writes, retained>>
         /\ swept' = (IF retain THEN swept \ {t} ELSE swept)
         /\ fan_out(t, p)
    /\ pubs' = pubs + 1
    /\ UNCHANGED <<onDisk, batch, attempts, store, conn, filling, pending, owed, view, subscribes, left, starts>>
(* The sweep: what the policy no longer keeps goes, and nobody is told. *)
Sweep(t) ==
    /\ retained[t] # Nothing /\ queued(t, Nothing)
    /\ retained' = [retained EXCEPT ![t] = Nothing] /\ swept' = swept \cup {t}
    /\ UNCHANGED <<onDisk, batch, attempts, store, conn, entryVars, lineVars, pubs, starts>>

----------------------------------------------------------------------------
(* The head of what is owed: a topic becomes the frame of what it holds now,   *)
(* or goes if it holds nothing.                                                *)
LookUp(c) ==
    /\ conn[c] = "loop" /\ pending[c] # <<>> /\ Head(pending[c]).kept
    /\ LET t == Head(pending[c]).topic IN
         pending' = [pending EXCEPT ![c] =
             (IF retained[t] = Nothing THEN <<>> ELSE <<Frame(t, retained[t])>>) \o Tail(@)]
    /\ UNCHANGED <<retained, diskVars, conn, entryVars, filling, owed, outbox, view, subscribes, left, swept, pubs, starts>>
SendHead(c) ==
    /\ conn[c] = "loop" /\ pending[c] # <<>> /\ ~Head(pending[c]).kept /\ Len(outbox[c]) < OUTBOUND_QUEUE
    /\ outbox' = [outbox EXCEPT ![c] = Append(@, Head(pending[c]))]
    /\ pending' = [pending EXCEPT ![c] = Tail(@)]
    /\ UNCHANGED <<retained, diskVars, conn, entryVars, filling, owed, view, subscribes, left, swept, pubs, starts>>

(* release_deferred: what the queue cannot take comes back to be sent with      *)
(* back-pressure, and the client loads until a pass finds nothing left.         *)
ReleaseDeferred(c) ==
    /\ conn[c] = "loop" /\ pending[c] = <<>> /\ c \in filling /\ c \in entry
    /\ LET room_left == OUTBOUND_QUEUE - Len(outbox[c])
           n == IF Len(deferred[c]) < room_left THEN Len(deferred[c]) ELSE room_left
           rest == SubSeq(deferred[c], n + 1, Len(deferred[c])) IN
         /\ outbox' = [outbox EXCEPT ![c] = @ \o SubSeq(deferred[c], 1, n)]
         /\ pending' = [pending EXCEPT ![c] = rest]
         /\ deferred' = [deferred EXCEPT ![c] = <<>>]
         /\ filling' = (IF rest = <<>> THEN filling \ {c} ELSE filling)
         /\ fill' = (IF rest = <<>> THEN fill \ {c} ELSE fill)
    /\ UNCHANGED <<retained, diskVars, conn, entry, filters, by_filter, owed, view, subscribes, left, swept, pubs, starts>>

(* The writer hands a frame to the socket, and the page reads it. *)
WriterSends(c) ==
    /\ outbox[c] # <<>>
    /\ LET f == Head(outbox[c]) IN
         view' = IF f.topic \in Topics /\ f.payload # Live 
                   THEN [view EXCEPT ![c][f.topic] = f.payload] ELSE view
    /\ outbox' = [outbox EXCEPT ![c] = Tail(@)]
    /\ UNCHANGED <<retained, diskVars, conn, entryVars, filling, pending, owed, subscribes, left, swept, pubs, starts>>

(* How a connection ends: the client goes or is silent, sends what it may not  *)
(* or too fast, does not read, or was dropped. Its entry goes with it, and the *)
(* writer with the queue.                                                      *)
EndConn(c) ==
    /\ conn[c] # "out"
    /\ conn' = [conn EXCEPT ![c] = "out"] /\ out_of({c}) /\ deferred' = [deferred EXCEPT ![c] = <<>>]
    /\ filling' = filling \ {c} /\ pending' = [pending EXCEPT ![c] = <<>>] /\ owed' = [owed EXCEPT ![c] = {}]
    /\ outbox' = [outbox EXCEPT ![c] = <<>>] /\ left' = left \ {c} /\ view' = [view EXCEPT ![c] = NoneKept]
    /\ subscribes' = [subscribes EXCEPT ![c] = 0]
    /\ UNCHANGED <<retained, diskVars, swept, pubs, starts>>

----------------------------------------------------------------------------
(* The writer's thread: a batch is written whole, or tried again, or the store *)
(* is given up with all that waited.                                           *)
TakeBatch ==
    /\ batch = <<>> /\ writes # <<>>
    /\ \E n \in 1..Len(writes) : n <= STORE_BATCH /\ batch' = SubSeq(writes, 1, n)
                                 /\ writes' = SubSeq(writes, n + 1, Len(writes))
    /\ UNCHANGED <<retained, onDisk, attempts, store, conn, entryVars, lineVars, swept, pubs, starts>>

(* One after another: of each topic, its last write stays. *)
written(d, ops) == [t \in Topics |-> known_after(d[t], ops, t, Nothing)]
WriteBatch ==
    /\ batch # <<>>
    /\ \/ onDisk' = written(onDisk, batch) /\ batch' = <<>> /\ attempts' = 0 /\ UNCHANGED <<writes, store>>
       \/ /\ attempts + 1 < STORE_RETRIES /\ attempts' = attempts + 1 /\ UNCHANGED <<onDisk, writes, batch, store>>
       \/ /\ attempts + 1 = STORE_RETRIES /\ attempts' = 0 /\ batch' = <<>> /\ writes' = <<>>
          /\ store' = (IF store = "taken" THEN "taken" ELSE "broken") /\ UNCHANGED onDisk
    /\ UNCHANGED <<retained, conn, entryVars, lineVars, swept, pubs, starts>>

(* serve: on SIGTERM the store is taken from under the connections and drained, *)
(* and only then does the process end. It may also be killed. It starts from    *)
(* what is on disk.                                                             *)
SigTerm ==
    /\ store \in {"open", "broken"} /\ starts < MaxStarts /\ store' = "taken"
    /\ UNCHANGED <<retained, onDisk, writes, batch, attempts, conn, entryVars, lineVars, swept, pubs, starts>>
StartAgain(killed) ==
    /\ starts < MaxStarts /\ starts' = starts + 1
    /\ killed \/ (store = "taken" /\ writes = <<>> /\ batch = <<>>)
    /\ retained' = onDisk /\ writes' = <<>> /\ batch' = <<>> /\ attempts' = 0 /\ store' = "open"
    /\ conn' = [c \in RbClients |-> "out"] /\ out_of(RbClients)
    /\ deferred' = [c \in RbClients |-> <<>>] /\ filling' = {} /\ pending' = [c \in RbClients |-> <<>>]
    /\ owed' = [c \in RbClients |-> {}] /\ outbox' = [c \in RbClients |-> <<>>]
    /\ left' = {} /\ subscribes' = [c \in RbClients |-> 0] /\ view' = [c \in RbClients |-> NoneKept] /\ UNCHANGED <<onDisk, swept, pubs>>

RbNext ==
    \/ \E c \in RbClients :
         \/ AcceptClient(c) \/ ConnectPacket(c) \/ PingReq(c) \/ Reply(c)
         \/ LookUp(c) \/ SendHead(c) \/ ReleaseDeferred(c) \/ WriterSends(c) \/ EndConn(c)
         \/ \E f \in Filters : Subscribe(c, f) \/ Unsubscribe(c, f)
    \/ \E t \in Topics : Sweep(t) \/ \E r, e \in BOOLEAN : Publish(t, r, e)
    \/ TakeBatch \/ WriteBatch \/ SigTerm \/ \E k \in BOOLEAN : StartAgain(k)

RbSpec == RbInit /\ [][RbNext]_rbVars

----------------------------------------------------------------------------
(* What the page will hold of a topic once all that is on its way has come. *)
comes(c, t) ==
    LET sent == known_after(view[c][t], outbox[c] \o pending[c], t, retained[t])
        answered == IF t \in owed[c] THEN known_after(sent, <<Retained(t)>>, t, retained[t]) ELSE sent IN
    known_after(answered, deferred[c], t, retained[t])

(* A page that is subscribed and was not dropped ends with what the relay keeps *)
(* of every topic it asked for (but for a sweep, which tells nobody), whoever   *)
(* publishes while it loads.                                                    *)
PagesCatchUp ==
    \A c \in entry \ left, t \in Topics \ swept :
        (\E f \in filters[c] : matches(f, t)) => comes(c, t) = retained[t]

(* Memory is what the disk will hold, while the store is open. *)
DiskFollows == store = "open" => retained = written(onDisk, batch \o writes)

(* The two registers of who holds which filter agree. *)
RegistersAgree ==
    \A c \in RbClients, f \in Filters : c \in by_filter[f] <=> (c \in entry /\ f \in filters[c])

(* What subscribers, the disk and the registers have is what the relay keeps. *)
RelaySound == PagesCatchUp /\ DiskFollows /\ RegistersAgree
=============================================================================
