---------------------------- MODULE IntroPoint ----------------------------
(* A hidden service behind its introduction relay. The relay hands the       *)
(* clients of an address, one after another, to the circuit of whoever       *)
(* registered it last; the service proves itself to each of them: a hello, a *)
(* signed answer, then a sealed stream both ways between the client and a    *)
(* connection to the local server. The service may restart and register      *)
(* again, and the relay may say again what it has carried.                   *)
EXTENDS Naturals, Sequences, FiniteSets

CONSTANTS SvcRuns,             \* runs of the service, in order: 1..n
          HsClients, NoClient, \* attempts of clients to reach it
          QUEUE,               \* clients that may wait for the service at the relay
          MaxPieces, MaxReplies, MaxReplays   \* bounds of the runs; pieces of each client

VARIABLES registry,   \* the run the relay introduces clients to, or NoRun
          handler,    \* run -> the relay's handler: "none", "waiting", a client it bridges, "gone"
          pipes,      \* run -> clients queued for it
          svc,        \* run -> "off", "up", "down"
          channel,    \* run -> its session: number, pieces opened and sealed; or NoSession
          localc,     \* run -> what its connection to the local server was sent; NoLocal if none
          toSvc, toRelay,         \* run -> what its circuit carries, each way
          att,        \* client -> how far it is: "new", "sending", "hello", "open", "over"
          target,     \* client -> the run whose pipe it holds
          chan,       \* client -> its session: number, pieces opened and sealed
          bridged,    \* clients whose pipe to the service is still there
          fromClient, toClient,   \* client -> what its pipe carries, each way
          replies,    \* client -> for each reply opened, the session of the connection it came from
          sessions,   \* number of answers signed so far
          carried, replays        \* what the relay carried to the service; what it said again

hsVars == <<registry, handler, pipes, svc, channel, localc, toSvc, toRelay, att, target, chan, bridged,
            fromClient, toClient, replies, sessions, carried, replays>>

NoRun == 0
NoSession == [sid |-> 0, in |-> 0, out |-> 0]
NoLocal == <<>>
End == [k |-> "end", c |-> NoClient, sid |-> 0, n |-> 0, of |-> 0]

HsInit ==
    /\ registry = NoRun /\ handler = [h \in SvcRuns |-> "none"] /\ pipes = [h \in SvcRuns |-> <<>>]
    /\ svc = [h \in SvcRuns |-> "off"] /\ channel = [h \in SvcRuns |-> NoSession] /\ localc = [h \in SvcRuns |-> NoLocal]
    /\ toSvc = [h \in SvcRuns |-> <<>>] /\ toRelay = [h \in SvcRuns |-> <<>>]
    /\ att = [c \in HsClients |-> "new"] /\ target = [c \in HsClients |-> NoRun]
    /\ chan = [c \in HsClients |-> NoSession] /\ bridged = {}
    /\ fromClient = [c \in HsClients |-> <<>>] /\ toClient = [c \in HsClients |-> <<>>]
    /\ replies = [c \in HsClients |-> <<>>] /\ sessions = 0 /\ carried = {} /\ replays = 0

relayVars == <<registry, handler, pipes>>
serviceVars == <<svc, channel, localc, sessions>>
clientVars == <<att, target, chan, replies>>
pipeVars == <<bridged, fromClient, toClient>>
replayVars == <<carried, replays>>

----------------------------------------------------------------------------
(* RegisterService at the relay: the address's key signed it a moment ago        *)
(* (verify_registration). The new handler's pipe takes the place of whatever the *)
(* registry held.                                                                *)
register(h) == registry' = h /\ handler' = [handler EXCEPT ![h] = "waiting"]

(* run_server_mode: announced, a circuit built, and registered at its last relay. *)
RegisterService(h) ==
    /\ svc[h] = "off" /\ \A g \in SvcRuns : g < h => svc[g] = "down"
    /\ svc' = [svc EXCEPT ![h] = "up"] /\ register(h)
    /\ UNCHANGED <<pipes, channel, localc, sessions, toSvc, toRelay, clientVars, pipeVars, replayVars>>

(* The handler waits for clients only, and ends once every sender of its pipe is *)
(* gone: then it takes the address out of the registry, whoever holds it now.    *)
HandlerEnds(h) ==
    /\ handler[h] = "waiting" /\ pipes[h] = <<>> /\ registry # h
    /\ \A c \in HsClients : ~(att[c] = "sending" /\ target[c] = h)
    /\ registry' = NoRun /\ handler' = [handler EXCEPT ![h] = "gone"]
    /\ UNCHANGED <<pipes, serviceVars, toSvc, toRelay, clientVars, pipeVars, replayVars>>

HandlerTakes(h) ==
    /\ handler[h] = "waiting" /\ pipes[h] # <<>>
    /\ handler' = [handler EXCEPT ![h] = Head(pipes[h])] /\ pipes' = [pipes EXCEPT ![h] = Tail(@)]
    /\ UNCHANGED <<registry, serviceVars, toSvc, toRelay, clientVars, pipeVars, replayVars>>

(* ConnectService: a sender of the registered pipe, which waits while the pipe is full. *)
ConnectService(c) ==
    /\ att[c] = "new" /\ target' = [target EXCEPT ![c] = registry]
    /\ att' = [att EXCEPT ![c] = IF registry = NoRun THEN "over" ELSE "sending"]
    /\ UNCHANGED <<relayVars, serviceVars, toSvc, toRelay, chan, replies, pipeVars, replayVars>>

(* connect_service_authenticated: connected, the client sends its hello. *)
ServiceConnected(c) ==
    LET h == target[c] IN
    /\ att[c] = "sending"
    /\ \/ /\ handler[h] # "gone" /\ Len(pipes[h]) < QUEUE
          /\ pipes' = [pipes EXCEPT ![h] = Append(@, c)] /\ att' = [att EXCEPT ![c] = "hello"]
          /\ bridged' = bridged \cup {c}
          /\ fromClient' = [fromClient EXCEPT ![c] = <<[k |-> "hello", c |-> c, sid |-> 0, n |-> 0, of |-> 0]>>]
       \/ /\ handler[h] = "gone" /\ att' = [att EXCEPT ![c] = "over"]
          /\ UNCHANGED <<pipes, bridged, fromClient>>
    /\ UNCHANGED <<registry, handler, serviceVars, toSvc, toRelay, target, chan, replies, toClient, replayVars>>

----------------------------------------------------------------------------
(* bridge, on the service's side. A bridge that ends drops the client's pipe and *)
(* what waited in it; what the service sent and was not read stays on its circuit. *)
bridge_over(h, c) ==
    /\ handler' = [handler EXCEPT ![h] = "waiting"] /\ bridged' = bridged \ {c}
    /\ fromClient' = [fromClient EXCEPT ![c] = <<>>]

BridgeToService(h, c) ==
    /\ handler[h] = c /\ fromClient[c] # <<>> /\ svc[h] = "up"
    /\ toSvc' = [toSvc EXCEPT ![h] = Append(@, Head(fromClient[c]))]
    /\ carried' = carried \cup {Head(fromClient[c])}
    /\ fromClient' = [fromClient EXCEPT ![c] = Tail(@)]
    /\ UNCHANGED <<relayVars, serviceVars, toRelay, clientVars, bridged, toClient, replays>>

BridgeToClient(h, c) ==
    /\ handler[h] = c /\ toRelay[h] # <<>>
    /\ toRelay' = [toRelay EXCEPT ![h] = Tail(@)]
    /\ IF Head(toRelay[h]) = End \/ att[c] = "over"
       THEN bridge_over(h, c) /\ UNCHANGED toClient
       ELSE /\ toClient' = [toClient EXCEPT ![c] = Append(@, Head(toRelay[h]))]
            /\ UNCHANGED <<handler, bridged, fromClient>>
    /\ UNCHANGED <<registry, pipes, serviceVars, toSvc, clientVars, replayVars>>

(* The client's side closed, or the service's circuit did. *)
BridgeEnds(h, c) ==
    /\ handler[h] = c
    /\ \/ att[c] = "over" /\ fromClient[c] = <<>>
       \/ svc[h] = "down" /\ toRelay[h] = <<>>
    /\ bridge_over(h, c)
    /\ UNCHANGED <<registry, pipes, serviceVars, toSvc, toRelay, clientVars, toClient, replayVars>>

(* A relay that says again to the service what a client said before. *)
SaidAgain(h, m) ==
    /\ replays < MaxReplays /\ replays' = replays + 1 /\ svc[h] = "up" /\ m \in carried
    /\ toSvc' = [toSvc EXCEPT ![h] = Append(@, m)]
    /\ UNCHANGED <<relayVars, serviceVars, toRelay, clientVars, pipeVars, carried>>

----------------------------------------------------------------------------
(* ClientHandshake::finish: the answer must be signed over this client's own hello. *)
ClientReads(c) ==
    LET m == Head(toClient[c])
        opens == m.k = "sealed" /\ m.sid = chan[c].sid /\ m.n = chan[c].in
    IN  /\ att[c] \in {"hello", "open"} /\ toClient[c] # <<>>
        /\ toClient' = [toClient EXCEPT ![c] = Tail(@)]
        /\ CASE att[c] = "hello" /\ m.k = "answer" /\ m.c = c ->
                  /\ att' = [att EXCEPT ![c] = "open"] /\ chan' = [chan EXCEPT ![c].sid = m.sid] /\ UNCHANGED replies
             [] att[c] = "open" /\ opens ->
                  /\ chan' = [chan EXCEPT ![c].in = @ + 1]
                  /\ replies' = [replies EXCEPT ![c] = Append(@, m.of)] /\ UNCHANGED att
             [] OTHER -> att' = [att EXCEPT ![c] = "over"] /\ UNCHANGED <<chan, replies>>
        /\ UNCHANGED <<relayVars, serviceVars, toSvc, toRelay, target, bridged, fromClient, replayVars>>

(* send_data, a sealed piece of what the browser wrote. *)
ClientSends(c) ==
    /\ att[c] = "open" /\ c \in bridged /\ chan[c].out < MaxPieces[c]
    /\ fromClient' = [fromClient EXCEPT ![c] =
                          Append(@, [k |-> "data", c |-> c, sid |-> chan[c].sid, n |-> chan[c].out, of |-> 0])]
    /\ chan' = [chan EXCEPT ![c].out = @ + 1]
    /\ UNCHANGED <<relayVars, serviceVars, toSvc, toRelay, att, target, replies, bridged, toClient, replayVars>>

(* The browser closed, or the pipe is gone and all of it was read. *)
ClientEnds(c) ==
    /\ att[c] \in {"hello", "open"} /\ att' = [att EXCEPT ![c] = "over"]
    /\ UNCHANGED <<relayVars, serviceVars, toSvc, toRelay, target, chan, replies, pipeVars, replayVars>>

----------------------------------------------------------------------------
(* A bug: the connection the last client left open serves the next one too. *)
MutHello(h, m) ==
    /\ sessions' = sessions + 1 /\ channel' = [channel EXCEPT ![h] = [NoSession EXCEPT !.sid = sessions + 1]]
    /\ localc' = localc
    /\ toRelay' = [toRelay EXCEPT ![h] = Append(@, [k |-> "answer", c |-> m.c, sid |-> sessions + 1, n |-> 0, of |-> 0])]

(* answer_hello: whatever the last client left open goes, then a session of its own. *)
AnswerHello(h, m) ==
    /\ sessions' = sessions + 1 /\ channel' = [channel EXCEPT ![h] = [NoSession EXCEPT !.sid = sessions + 1]]
    /\ localc' = [localc EXCEPT ![h] = NoLocal]
    /\ toRelay' = [toRelay EXCEPT ![h] = Append(@, [k |-> "answer", c |-> m.c, sid |-> sessions + 1, n |-> 0, of |-> 0])]

(* A piece that opens as the next of the session goes to the local server, over  *)
(* the connection that is open or a new one, which may fail; any other ends the  *)
(* session; before the first hello it is dropped.                                *)
ToLocal(h, m, connects) ==
    LET next == channel[h] # NoSession /\ m.sid = channel[h].sid /\ m.n = channel[h].in
    IN  /\ IF next THEN channel' = [channel EXCEPT ![h].in = @ + 1] ELSE channel' = [channel EXCEPT ![h] = NoSession]
        /\ localc' = CASE next /\ connects -> [localc EXCEPT ![h] = Append(@, <<m.sid, m.n>>)]
                       [] next /\ ~connects -> [localc EXCEPT ![h] = NoLocal]
                       [] OTHER -> IF channel[h] = NoSession THEN localc ELSE [localc EXCEPT ![h] = NoLocal]
        /\ UNCHANGED <<sessions, toRelay>>

(* serve_hidden_sessions, a payload from the circuit. *)
ServiceReads(h, connects) ==
    LET m == Head(toSvc[h]) IN
    /\ svc[h] = "up" /\ toSvc[h] # <<>> /\ toSvc' = [toSvc EXCEPT ![h] = Tail(@)]
    /\ (m.k = "hello" => connects) /\ IF m.k = "hello" THEN AnswerHello(h, m) ELSE ToLocal(h, m, connects)
    /\ UNCHANGED <<relayVars, svc, clientVars, pipeVars, replayVars>>

(* The local server answers on its connection: sealed for the session there is. The *)
(* reply is marked with the first session that wrote to that connection.            *)
ServerReplies(h) ==
    /\ svc[h] = "up" /\ localc[h] # NoLocal /\ channel[h] # NoSession /\ channel[h].out < MaxReplies
    /\ channel' = [channel EXCEPT ![h].out = @ + 1]
    /\ toRelay' = [toRelay EXCEPT ![h] = Append(@, [k |-> "sealed", c |-> NoClient, sid |-> channel[h].sid,
                                                    n |-> channel[h].out, of |-> localc[h][1][1]])]
    /\ UNCHANGED <<relayVars, svc, localc, sessions, toSvc, clientVars, pipeVars, replayVars>>

(* It closes: the client's stream ends with it. *)
ServerCloses(h) ==
    /\ svc[h] = "up" /\ localc[h] # NoLocal /\ localc' = [localc EXCEPT ![h] = NoLocal]
    /\ toRelay' = IF channel[h] # NoSession THEN [toRelay EXCEPT ![h] = Append(@, End)] ELSE toRelay
    /\ UNCHANGED <<relayVars, svc, channel, sessions, toSvc, clientVars, pipeVars, replayVars>>

(* Its circuit ended with the relay's handler, or failed, or the service was stopped: it does not come back by itself. *)
ServiceStops(h) ==
    /\ svc[h] = "up" /\ svc' = [svc EXCEPT ![h] = "down"]
    /\ channel' = [channel EXCEPT ![h] = NoSession] /\ localc' = [localc EXCEPT ![h] = NoLocal]
    /\ toSvc' = [toSvc EXCEPT ![h] = <<>>]
    /\ UNCHANGED <<relayVars, sessions, toRelay, clientVars, pipeVars, replayVars>>

HsNext ==
    \/ \E h \in SvcRuns : RegisterService(h) \/ HandlerEnds(h) \/ HandlerTakes(h)
                          \/ ServerReplies(h) \/ ServerCloses(h) \/ ServiceStops(h)
    \/ \E h \in SvcRuns, ok \in BOOLEAN : ServiceReads(h, ok)
    \/ \E c \in HsClients : ConnectService(c) \/ ServiceConnected(c) \/ ClientReads(c) \/ ClientSends(c) \/ ClientEnds(c)
    \/ \E h \in SvcRuns, c \in HsClients : BridgeToService(h, c) \/ BridgeToClient(h, c) \/ BridgeEnds(h, c)
    \/ \E h \in SvcRuns : \E m \in carried : SaidAgain(h, m)

HsSpec == HsInit /\ [][HsNext]_hsVars

----------------------------------------------------------------------------
(* Sessions never mix, whichever client left, whatever the relay repeats: a  *)
(* connection to the local server holds pieces of the one session open now,  *)
(* in order and once, and a client reads only what the server said on a      *)
(* connection that its own pieces opened (serve_hidden_sessions).            *)
SessionsApart ==
    /\ \A h \in SvcRuns : \A i \in DOMAIN localc[h] :
          /\ localc[h][i][1] = channel[h].sid
          /\ \A j \in DOMAIN localc[h] : i < j => localc[h][i][2] < localc[h][j][2]
    /\ \A c \in HsClients : \A i \in DOMAIN replies[c] : replies[c][i] = chan[c].sid
    /\ \A c, d \in HsClients : c # d /\ chan[c].sid # 0 => chan[c].sid # chan[d].sid

(* "What the client sends goes, in order, to one connection to the local     *)
(* server": a connection begins with the session's first piece.              *)
OneConnection == \A h \in SvcRuns : localc[h] # NoLocal => localc[h][1][2] = 0

(* A service that is up and registered stays in the registry. *)
NewestStays == \A h \in SvcRuns : svc[h] = "up" => registry = h
----------------------------------------------------------------------------
(* What SessionsApart rests on: a number is signed for one hello, so that of  *)
(* all that may still reach a client, two answers of one number are for the   *)
(* same client, and for no other than the one that took that number; and what *)
(* is sealed for a session came from a connection of that session.            *)
Message == [k : {"hello", "answer", "data", "sealed", "end"}, c : HsClients \cup {NoClient},
            sid : Nat, n : Nat, of : Nat]
Session == [sid : Nat, in : Nat, out : Nat]
HsTyped ==
    /\ channel \in [SvcRuns -> Session] /\ localc \in [SvcRuns -> Seq(Nat \X Nat)] /\ sessions \in Nat
    /\ toSvc \in [SvcRuns -> Seq(Message)] /\ toRelay \in [SvcRuns -> Seq(Message)] /\ carried \subseteq Message
    /\ fromClient \in [HsClients -> Seq(Message)] /\ toClient \in [HsClients -> Seq(Message)]
    /\ chan \in [HsClients -> Session] /\ replies \in [HsClients -> Seq(Nat)]
    /\ att \in [HsClients -> {"new", "sending", "hello", "open", "over"}]

InQueue(q) == {q[i] : i \in DOMAIN q}
ToClients == UNION ({InQueue(toRelay[h]) : h \in SvcRuns} \cup {InQueue(toClient[c]) : c \in HsClients})

LocalsInTurn ==
    \A h \in SvcRuns :
        /\ channel[h].sid <= sessions /\ (channel[h].sid = 0 => channel[h] = NoSession /\ localc[h] = NoLocal)
        /\ \A i \in DOMAIN localc[h] : /\ localc[h][i][1] = channel[h].sid /\ localc[h][i][2] < channel[h].in
                                       /\ \A j \in DOMAIN localc[h] : i < j => localc[h][i][2] < localc[h][j][2]
NumbersApart ==
    /\ \A m \in ToClients : m.k = "answer" =>
          /\ 0 < m.sid /\ m.sid <= sessions /\ \A c \in HsClients : chan[c].sid = m.sid => m.c = c
          /\ \A p \in ToClients : p.k = "answer" /\ p.sid = m.sid => p.c = m.c
    /\ \A c, d \in HsClients : c # d /\ chan[c].sid # 0 => chan[c].sid # chan[d].sid
    /\ \A c \in HsClients : chan[c].sid <= sessions
RepliesOwn ==
    /\ \A m \in ToClients : m.k = "sealed" => m.of = m.sid
    /\ \A c \in HsClients : /\ att[c] \in {"new", "sending", "hello"} => chan[c].sid = 0 /\ replies[c] = <<>>
                            /\ \A i \in DOMAIN replies[c] : replies[c][i] = chan[c].sid
HsInv == HsTyped /\ LocalsInTurn /\ NumbersApart /\ RepliesOwn
===========================================================================
