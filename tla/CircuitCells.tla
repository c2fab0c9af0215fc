---------------------------- MODULE CircuitCells ----------------------------
(* A stream over a built circuit: the client and the exit wrap and open the  *)
(* cells with every hop's layer, each layer counts the cells of its          *)
(* direction, a relay in between peels or adds one, and every reader takes   *)
(* frames off its link in pieces while it races the other direction. A relay *)
(* on the way may drop, repeat, reorder or send back a cell.                 *)
EXTENDS Naturals, Sequences, FiniteSets

CONSTANTS Hops,            \* 1..n: the guard, ..., the exit
          CELLS_OUT, CELLS_BACK, MaxTampers   \* bounds of the runs

VARIABLES sent, back,      \* payloads sent by the client, by the exit
          got, backGot,    \* what the exit and the client took out of their cells
          client, relay,   \* hop -> the counts of its layer, as each side keeps them
          wire, rbuf,      \* link -> pieces of frames on it, and read off it so far
          up,              \* the client and the hops that still serve the stream
          tampers

ccVars == <<sent, back, got, backGot, client, relay, wire, rbuf, up, tampers>>

N == Cardinality(Hops)

(* A circuit has a guard at least, and its hops are counted from it. *)
ASSUME HopsInRow == IsFiniteSet(Hops) /\ Hops # {} /\ Hops = 1..N

Links == {"out", "in"} \X Hops      \* the link between hop i-1 (0: the client) and hop i, each way
OnClient == 0

(* A layer counted the extension cells it carried: more the nearer to the client. *)
Fresh0(i) == [forward |-> 2 * (N - i), backward |-> 2 * (N - i)]

CcInit ==
    /\ sent = 0 /\ back = 0 /\ got = <<>> /\ backGot = <<>> /\ tampers = 0
    /\ client = [i \in Hops |-> Fresh0(i)] /\ relay = [i \in Hops |-> Fresh0(i)]
    /\ wire = [l \in Links |-> <<>>] /\ rbuf = [l \in Links |-> <<>>]
    /\ up = {OnClient} \cup Hops

----------------------------------------------------------------------------
(* A sealed cell: its direction, the count each layer on it was sealed at, its payload. *)
cell(way, at, pay) == [way |-> way, at |-> at, pay |-> pay]

(* write_frame: a length and a body, which the link may deliver apart. *)
frame(c) == <<[of |-> c, piece |-> 1], [of |-> c, piece |-> 2]>>

(* FrameReader::take_frame: a whole frame off the front of what was read. *)
whole(l) == Len(rbuf[l]) >= 2
taken(l) == rbuf[l][1].of
in_step(l) == rbuf[l][1].piece = 1 /\ rbuf[l][2].of = rbuf[l][1].of /\ rbuf[l][2].piece = 2

(* A bug: a read dropped half way loses what it had taken off the socket. *)
MutKept(l) == IF whole(l) THEN rbuf[l] ELSE <<>>

(* What a read that lost the race leaves in its reader's buffer. *)
kept(l) == rbuf[l]

(* The buffers after the frame of `l` is used and the read of `other` dropped. *)
used(l) == [rbuf EXCEPT ![l] = SubSeq(@, 3, Len(@))]
read_next(l, other) == [used(l) EXCEPT ![other] = kept(other)]

(* Direction::open: the next cell of its direction, and nothing else; the count moves only then. *)
opens_forward(i, c) == c.way = "out" /\ c.at[i] = relay[i].forward
opens_backward(c) == c.way = "in" /\ \A i \in Hops : c.at[i] = client[i].backward

----------------------------------------------------------------------------
(* The client: send_raw wraps for every hop; the one select drops the read of the circuit. *)
SendData ==
    /\ OnClient \in up /\ sent < CELLS_OUT /\ sent' = sent + 1
    /\ client' = [i \in Hops |-> [client[i] EXCEPT !.forward = @ + 1]]
    /\ wire' = [wire EXCEPT ![<<"out", 1>>] = @ \o frame(cell("out", [i \in Hops |-> client[i].forward], sent'))]
    /\ rbuf' = [rbuf EXCEPT ![<<"in", 1>>] = kept(<<"in", 1>>)]
    /\ UNCHANGED <<back, got, backGot, relay, up, tampers>>

(* recv_raw: peeled hop by hop; a cell that does not open ends the stream. *)
RecvRaw ==
    LET l == <<"in", 1>>
        c == taken(l)
    IN  /\ OnClient \in up /\ whole(l)
        /\ IF in_step(l) /\ opens_backward(c)
           THEN /\ backGot' = Append(backGot, c.pay) /\ UNCHANGED up
                /\ client' = [i \in Hops |-> [client[i] EXCEPT !.backward = @ + 1]]
           ELSE up' = up \ {OnClient} /\ UNCHANGED <<backGot, client>>
        /\ rbuf' = used(l)
        /\ UNCHANGED <<sent, back, got, relay, wire, tampers>>

(* relay_streaming_loop and exit_streaming_loop, a cell from the client: this hop's layer comes off. *)
FromClient(i) ==
    LET l == <<"out", i>>
        c == taken(l)
    IN  /\ i \in up /\ whole(l)
        /\ IF in_step(l) /\ opens_forward(i, c)
           THEN /\ relay' = [relay EXCEPT ![i].forward = @ + 1] /\ UNCHANGED up
                /\ IF i < N THEN wire' = [wire EXCEPT ![<<"out", i + 1>>] = @ \o frame(c)] /\ UNCHANGED got
                            ELSE got' = Append(got, c.pay) /\ UNCHANGED wire
           ELSE up' = up \ {i} /\ UNCHANGED <<relay, wire, got>>
        /\ rbuf' = IF i < N THEN read_next(l, <<"in", i + 1>>) ELSE used(l)
        /\ UNCHANGED <<sent, back, backGot, client, tampers>>

(* relay_streaming_loop, a cell towards the client: this hop's layer goes on, whatever the cell holds. *)
FromNext(i) ==
    LET l == <<"in", i + 1>>
        c == taken(l)
        mine == [c.at EXCEPT ![i] = relay[i].backward]
    IN  /\ i \in up /\ i < N /\ whole(l)
        /\ IF in_step(l)
           THEN /\ wire' = [wire EXCEPT ![<<"in", i>>] = @ \o frame([c EXCEPT !.at = mine])]
                /\ relay' = [relay EXCEPT ![i].backward = @ + 1] /\ UNCHANGED up
           ELSE up' = up \ {i} /\ UNCHANGED <<wire, relay>>
        /\ rbuf' = read_next(l, <<"out", i>>)
        /\ UNCHANGED <<sent, back, got, backGot, client, tampers>>

(* The exit reads from the target: reply_data, a cell per piece; its read of the link is dropped. *)
FromTarget ==
    /\ N \in up /\ back < CELLS_BACK /\ back' = back + 1
    /\ relay' = [relay EXCEPT ![N].backward = @ + 1]
    /\ wire' = [wire EXCEPT ![<<"in", N>>] =
                    @ \o frame(cell("in", [i \in Hops |-> IF i = N THEN relay[N].backward ELSE 0], back'))]
    /\ rbuf' = [rbuf EXCEPT ![<<"out", N>>] = kept(<<"out", N>>)]
    /\ UNCHANGED <<sent, got, backGot, client, up, tampers>>

(* read_buf: what has arrived joins the buffer, a piece at a time. *)
Arrives(l) ==
    /\ wire[l] # <<>>
    /\ rbuf' = [rbuf EXCEPT ![l] = Append(@, Head(wire[l]))]
    /\ wire' = [wire EXCEPT ![l] = Tail(@)]
    /\ UNCHANGED <<sent, back, got, backGot, client, relay, up, tampers>>

(* A relay that does not play by the rules, with the whole frames waiting at it. *)
Tamper(l, frames) ==
    /\ tampers < MaxTampers /\ tampers' = tampers + 1
    /\ rbuf[l] = <<>> /\ wire' = [wire EXCEPT ![l] = frames]
    /\ UNCHANGED <<sent, back, got, backGot, client, relay, rbuf, up>>
cells_on(l) == [k \in 1..(Len(wire[l]) \div 2) |-> wire[l][2 * k].of]
framed(cs) == [k \in 1..(2 * Len(cs)) |-> [of |-> cs[(k + 1) \div 2], piece |-> 2 - (k % 2)]]
Drop(l) == cells_on(l) # <<>> /\ Tamper(l, framed(Tail(cells_on(l))))
Repeat(l) == cells_on(l) # <<>> /\ Tamper(l, framed(<<Head(cells_on(l))>> \o cells_on(l)))
Reorder(l) == Len(cells_on(l)) >= 2 /\ Tamper(l, framed(<<cells_on(l)[2], cells_on(l)[1]>>))
SendBack(i) == cells_on(<<"out", i>>) # <<>>
               /\ Tamper(<<"in", i>>, framed(cells_on(<<"in", i>>) \o <<Head(cells_on(<<"out", i>>))>>))

CcNext ==
    \/ SendData \/ RecvRaw \/ FromTarget
    \/ \E i \in Hops : FromClient(i) \/ FromNext(i) \/ SendBack(i)
    \/ \E l \in Links : Arrives(l) \/ Drop(l) \/ Repeat(l) \/ Reorder(l)

CcSpec == CcInit /\ [][CcNext]_ccVars

----------------------------------------------------------------------------
(* Whatever a relay on the way does, each end takes what the other sent, in  *)
(* order and once: a cell repeated, reordered or sent back opens nowhere     *)
(* (layer.rs: "a cell opens only ... as the next one expected").             *)
InOrder ==
    /\ \A k \in DOMAIN got : got[k] = k
    /\ \A k \in DOMAIN backGot : backGot[k] = k

(* A circuit nobody tampers with is never torn down by its own reads: no     *)
(* piece of a frame is lost when the other direction wins the race           *)
(* (FrameReader: "a read dropped at any point loses nothing").               *)
NeverBreaksAlone == tampers = 0 => up = {OnClient} \cup Hops

(* Both: the stream is what was sent, and it breaks only when tampered with. *)
StreamKept == InOrder /\ NeverBreaksAlone

----------------------------------------------------------------------------
(* What holds on the way. The innermost layer, the exit's, was at zero when   *)
(* the stream began: its count on a cell is the number of the cell.          *)
Cells == {c \in [way : {"out", "in"}, at : [Hops -> Nat], pay : Nat] : c.pay = c.at[N] + 1}
Pieces == [of : Cells, piece : {1, 2}]
Counts == [Hops -> [forward : Nat, backward : Nat]]
CcTypeOK ==
    /\ sent \in Nat /\ back \in Nat /\ got \in Seq(Nat) /\ backGot \in Seq(Nat) /\ tampers \in Nat
    /\ client \in Counts /\ relay \in Counts
    /\ wire \in [Links -> Seq(Pieces)] /\ rbuf \in [Links -> Seq(Pieces)]
CountsFollow ==
    /\ client[N].forward = sent /\ relay[N].backward = back
    /\ relay[N].forward = Len(got) /\ client[N].backward = Len(backGot)

(* Until somebody tampers, a link holds the pieces put on it and not yet used, *)
(* in order: `p` cells were put on it, `o` were taken off.                     *)
out_at(i) == relay[i].forward - Fresh0(i).forward
in_at(i) == relay[i].backward - Fresh0(i).backward
cells_off(l) == IF l[1] = "out" THEN out_at(l[2]) ELSE IF l[2] = 1 THEN Len(backGot) ELSE in_at(l[2] - 1)
cells_put(l) == IF l[1] = "in" THEN in_at(l[2]) ELSE IF l[2] = 1 THEN sent ELSE out_at(l[2] - 1)
cell_of(l, k) ==
    cell(l[1], [j \in Hops |-> IF l[1] = "out" \/ j >= l[2] THEN 2 * (N - j) + k - 1 ELSE 0], k)
piece_of(l, k) == [of |-> cell_of(l, (k + 1) \div 2), piece |-> 2 - (k % 2)]
InTurn(l, read, coming, o, p) ==
    /\ Len(read) + Len(coming) = 2 * (p - o)
    /\ \A k \in 1..Len(read) : read[k] = piece_of(l, 2 * o + k)
    /\ \A k \in 1..Len(coming) : coming[k] = piece_of(l, 2 * o + Len(read) + k)
LinksUntouched ==
    /\ up = {OnClient} \cup Hops
    /\ \A i \in Hops : /\ out_at(i) >= 0 /\ in_at(i) >= 0
                       /\ client[i].forward = 2 * (N - i) + sent /\ client[i].backward = 2 * (N - i) + Len(backGot)
    /\ \A l \in Links : InTurn(l, rbuf[l], wire[l], cells_off(l), cells_put(l))

(* The inductive invariant of a stream's cells. *)
CcInv == CcTypeOK /\ CountsFollow /\ InOrder /\ (tampers = 0 => LinksUntouched)
=============================================================================
