----------------------------- MODULE HidraChat -----------------------------
(* The HidraChat server: connections join rooms by name and passphrase, are    *)
(* sent the backlog, and then read each other's messages from the room's       *)
(* broadcast channel. A room is made by the first who joins and forgotten when *)
(* the last has left; leaving and forgetting are two steps, and joins come     *)
(* between them.                                                               *)
EXTENDS Naturals, Sequences, FiniteSets, SequencesExt

CONSTANTS ChatConns, RoomNames, Nicks,
          MAX_CONNECTIONS,   \* open connections, joined or not
          MAX_MEMBERS,       \* members of a room
          BROADCAST_CAP, HISTORY_LIMIT,
          MaxRoomsMade, MaxSaid   \* bounds of the runs

ASSUME ChatConstants == MaxRoomsMade \in Nat

VARIABLES crooms,     \* room name -> the room in the map, 0 when there is none
          members,    \* room -> connections in its users
          chist,      \* room -> its backlog
          at_chat,    \* connection -> "out", "open", "welcome", "announce", "main", "leave", "reap"
          in_room,    \* connection -> the room it joined, its name, its nickname
          rx,         \* connection -> broadcasts it has not read; nothing before it subscribed
          saying,     \* connection -> a message in the backlog that is not broadcast yet, or 0
          read,       \* connection -> messages shown to it, in the order they came
          roomsMade, said

chVars == <<crooms, members, chist, at_chat, in_room, rx, saying, read, roomsMade, said>>

Made == 1..MaxRoomsMade
NoRoom == [room |-> 0, name |-> "", nick |-> ""]
ChInit ==
    /\ crooms = [r \in RoomNames |-> 0] /\ members = [i \in Made |-> {}] /\ chist = [i \in Made |-> <<>>]
    /\ at_chat = [c \in ChatConns |-> "out"] /\ in_room = [c \in ChatConns |-> NoRoom]
    /\ rx = [c \in ChatConns |-> <<>>] /\ saying = [c \in ChatConns |-> 0] /\ read = [c \in ChatConns |-> <<>>]
    /\ roomsMade = 0 /\ said = 0

to_step(c, s) == at_chat' = [at_chat EXCEPT ![c] = s]
room_of(c) == in_room[c].room
same_rest == UNCHANGED <<roomsMade, said>>

(* run: a connection takes a permit or is refused. *)
OpenChat(c) ==
    /\ at_chat[c] = "out" /\ Cardinality({d \in ChatConns : at_chat[d] # "out"}) < MAX_CONNECTIONS
    /\ to_step(c, "open") /\ UNCHANGED <<crooms, members, chist, in_room, rx, saying, read>> /\ same_rest

(* handle_conn and read_join: a page of another site, a wrong verifier, silence  *)
(* or a frame over the limit ends it; nothing was taken but the permit.          *)
TurnedAway(c) ==
    /\ at_chat[c] = "open" /\ to_step(c, "out")
    /\ UNCHANGED <<crooms, members, chist, in_room, rx, saying, read>> /\ same_rest

(* The room is found or made and joined under one lock; a full room or a taken  *)
(* nickname refuses, and a room made for the one refused would be forgotten.    *)
there(r) == IF crooms[r] = 0 THEN {} ELSE members[crooms[r]]
takes_nick(r, n) == Cardinality(there(r)) < MAX_MEMBERS /\ \A d \in there(r) : in_room[d].nick # n
Join(c, r, n) ==
    /\ at_chat[c] = "open" /\ takes_nick(r, n)
    /\ crooms[r] = 0 => roomsMade < MaxRoomsMade
    /\ LET i == IF crooms[r] = 0 THEN roomsMade + 1 ELSE crooms[r] IN
         /\ crooms' = [crooms EXCEPT ![r] = i] /\ members' = [members EXCEPT ![i] = @ \cup {c}]
         /\ in_room' = [in_room EXCEPT ![c] = [room |-> i, name |-> r, nick |-> n]]
         /\ roomsMade' = (IF crooms[r] = 0 THEN i ELSE roomsMade)
    /\ to_step(c, "welcome") /\ UNCHANGED <<chist, rx, saying, read, said>>
NotTaken(c, r, n) ==
    /\ at_chat[c] = "open" /\ ~takes_nick(r, n) /\ to_step(c, "out")
    /\ crooms' = [crooms EXCEPT ![r] = IF there(r) = {} THEN 0 ELSE @]
    /\ UNCHANGED <<members, chist, in_room, rx, saying, read>> /\ same_rest

(* The backlog is read under its lock and written to the socket after; a peer    *)
(* that does not take it leaves at once, and says nothing.                      *)
Welcome(c) ==
    /\ at_chat[c] = "welcome" /\ to_step(c, "announce")
    /\ read' = [read EXCEPT ![c] = chist[room_of(c)]]
    /\ UNCHANGED <<crooms, members, chist, in_room, rx, saying>> /\ same_rest
WelcomeFails(c) ==
    /\ at_chat[c] = "announce" /\ to_step(c, "reap")
    /\ members' = [members EXCEPT ![room_of(c)] = @ \ {c}]
    /\ UNCHANGED <<crooms, chist, in_room, rx, saying, read>> /\ same_rest
(* The others are told, and only then does it read the channel. *)
Announce(c) ==
    /\ at_chat[c] = "announce" /\ to_step(c, "main") /\ rx' = [rx EXCEPT ![c] = <<>>]
    /\ UNCHANGED <<crooms, members, chist, in_room, saying, read>> /\ same_rest

----------------------------------------------------------------------------
(* on_message: into the backlog under its lock, then to every receiver; a       *)
(* receiver that lags loses the oldest.                                        *)
last_of(s, n) == IF Len(s) > n THEN SubSeq(s, Len(s) - n + 1, Len(s)) ELSE s
Say(c) ==
    /\ at_chat[c] = "main" /\ saying[c] = 0 /\ said < MaxSaid
    /\ said' = said + 1 /\ saying' = [saying EXCEPT ![c] = said + 1]
    /\ chist' = [chist EXCEPT ![room_of(c)] = last_of(Append(@, said + 1), HISTORY_LIMIT)]
    /\ UNCHANGED <<crooms, members, at_chat, in_room, rx, read, roomsMade>>
Broadcast(c) ==
    /\ saying[c] # 0 /\ saying' = [saying EXCEPT ![c] = 0]
    /\ rx' = [d \in ChatConns |-> IF at_chat[d] = "main" /\ room_of(d) = room_of(c)
                                    THEN last_of(Append(rx[d], saying[c]), BROADCAST_CAP) ELSE rx[d]]
    /\ UNCHANGED <<crooms, members, chist, at_chat, in_room, read>> /\ same_rest
ReadBroadcast(c) ==
    /\ at_chat[c] = "main" /\ saying[c] = 0 /\ rx[c] # <<>>
    /\ read' = [read EXCEPT ![c] = Append(@, Head(rx[c]))] /\ rx' = [rx EXCEPT ![c] = Tail(@)]
    /\ UNCHANGED <<crooms, members, chist, at_chat, in_room, saying>> /\ same_rest

(* A close frame, a frame over the limit, a failed write or no pong ends it. *)
LeaveMain(c) ==
    /\ at_chat[c] = "main" /\ saying[c] = 0 /\ to_step(c, "leave") /\ rx' = [rx EXCEPT ![c] = <<>>]
    /\ UNCHANGED <<crooms, members, chist, in_room, saying, read>> /\ same_rest
Cleanup(c) ==
    /\ at_chat[c] = "leave" /\ to_step(c, "reap")
    /\ members' = [members EXCEPT ![room_of(c)] = @ \ {c}]
    /\ UNCHANGED <<crooms, chist, in_room, rx, saying, read>> /\ same_rest

(* A bug: whatever room has the name is forgotten. *)
MutReapRoom(c) == members[room_of(c)] = {}

(* reap_room: only the very room it left, and only when it is empty. *)
reap_room(c) == members[room_of(c)] = {} /\ crooms[in_room[c].name] = room_of(c)

Reap(c) ==
    /\ at_chat[c] = "reap" /\ to_step(c, "out")
    /\ crooms' = [crooms EXCEPT ![in_room[c].name] = IF reap_room(c) THEN 0 ELSE @]
    /\ chist' = [chist EXCEPT ![room_of(c)] = IF members[room_of(c)] = {} THEN <<>> ELSE @]
    /\ in_room' = [in_room EXCEPT ![c] = NoRoom] /\ read' = [read EXCEPT ![c] = <<>>]
    /\ UNCHANGED <<members, rx, saying>> /\ same_rest

ChNext ==
    \E c \in ChatConns :
      \/ OpenChat(c) \/ TurnedAway(c) \/ Welcome(c) \/ WelcomeFails(c) \/ Announce(c)
      \/ Say(c) \/ Broadcast(c) \/ ReadBroadcast(c) \/ LeaveMain(c) \/ Cleanup(c) \/ Reap(c)
      \/ \E r \in RoomNames, n \in Nicks : Join(c, r, n) \/ NotTaken(c, r, n)

ChSpec == ChInit /\ [][ChNext]_chVars

----------------------------------------------------------------------------
InARoom(c) == at_chat[c] \in {"welcome", "announce", "main", "leave"}

(* Whoever is in a room is in the room that its name leads to, so everyone who   *)
(* comes after finds them; one nickname is one member there; the users of a room *)
(* are the connections in it; and a room with nobody in it is about to be        *)
(* forgotten by the one who left it last.                                        *)
ChatSound ==
    /\ \A c \in ChatConns : InARoom(c) => c \in members[room_of(c)] /\ crooms[in_room[c].name] = room_of(c)
    /\ \A c, d \in ChatConns : InARoom(c) /\ InARoom(d) /\ in_room[c] = in_room[d] => c = d
    /\ \A r \in RoomNames : crooms[r] # 0 /\ members[crooms[r]] = {} =>
          \E c \in ChatConns : at_chat[c] = "reap" /\ room_of(c) = crooms[r]
    /\ \A i \in Made : members[i] = {c \in ChatConns : InARoom(c) /\ room_of(c) = i}

(* A member is shown every message of its room that came after the backlog it was *)
(* given, unless it lags. The code does not keep this: what is said while the      *)
(* backlog is on its way to the socket reaches neither it nor the channel.         *)
NoneMissed ==
    \A c \in ChatConns : at_chat[c] = "main" /\ Len(chist[room_of(c)]) < HISTORY_LIMIT =>
      ToSet(chist[room_of(c)]) \subseteq ToSet(read[c]) \cup ToSet(rx[c]) \cup {saying[d] : d \in ChatConns}

----------------------------------------------------------------------------
(* What it rests on: a room is of one name for as long as anyone is in it or *)
(* has it to forget, and a room made is a new one.                           *)
OfARoom(c) == InARoom(c) \/ at_chat[c] = "reap"
ChatTyped ==
    /\ roomsMade \in 0..MaxRoomsMade /\ crooms \in [RoomNames -> 0..roomsMade]
    /\ members \in [Made -> SUBSET ChatConns]
    /\ at_chat \in [ChatConns -> {"out", "open", "welcome", "announce", "main", "leave", "reap"}]
    /\ DOMAIN in_room = ChatConns
    /\ \A c \in ChatConns : OfARoom(c) => room_of(c) \in 1..roomsMade /\ in_room[c].name \in RoomNames
RoomsOfOneName ==
    /\ \A r, s \in RoomNames : crooms[r] = crooms[s] /\ crooms[r] # 0 => r = s
    /\ \A c \in ChatConns, r \in RoomNames : OfARoom(c) /\ crooms[r] = room_of(c) => r = in_room[c].name
ChatInv == ChatTyped /\ RoomsOfOneName /\ ChatSound
=============================================================================
