--------------------------- MODULE NoiseHandshake ---------------------------
(* The Noise XX handshake with ML-KEM of every HidraNet link and circuit hop:  *)
(* three messages, a transcript hash and a chaining key each side computes for *)
(* itself. The frames cross relays that may lose them, alter a field, or give  *)
(* one session another's. Keys and hashes are terms: what was mixed in, in     *)
(* order; a sealed field opens only under the same key, count and transcript.  *)
EXTENDS Naturals

CONSTANTS Initiators, Responders,   \* handshakes begun, and answered
          StaticOf(_)               \* the static key of the party behind each

(* A HandshakeState has one role for good. *)
ASSUME RolesApart == Initiators \cap Responders = {}

Ends == Initiators \cup Responders

VARIABLES hs,    \* end -> its HandshakeState
          air    \* messages written: [kind, and the fields of that kind]

nhVars == <<hs, air>>

None == "none"
Symmetric == [h |-> <<>>, ck |-> <<>>, n |-> 0]
NhInit ==
    /\ hs = [x \in Ends |-> [at |-> "new", sym |-> Symmetric, re |-> None, re1 |-> None, rs |-> None,
                             send |-> <<>>, recv |-> <<>>]]
    /\ air = {}

----------------------------------------------------------------------------
(* SymmetricState and CipherState: a hash is the pair of what it was and what came. *)
mix_hash(y, data) == [h |-> <<y.h, data>>, ck |-> y.ck, n |-> y.n]
mix_key(y, ikm) == [h |-> y.h, ck |-> <<y.ck, ikm>>, n |-> 0]
sealed(y, body) == [key |-> y.ck, n |-> y.n, ad |-> y.h, body |-> body, whole |-> TRUE]
encrypt_and_hash(y, body) == [h |-> <<y.h, sealed(y, body)>>, ck |-> y.ck, n |-> y.n + 1]

(* A bug: the transcript is not part of what a seal covers. *)
MutOpens(y, c) == c.whole /\ c.key = y.ck /\ c.n = y.n

opens(y, c) == c.whole /\ c.key = y.ck /\ c.n = y.n /\ c.ad = y.h

decrypt_and_hash(y, c) == [h |-> <<y.h, c>>, ck |-> y.ck, n |-> y.n + 1]

(* Ephemeral keys are named after the end that made them, static ones after the party. *)
dh(a, b) == {a, b}
encapsulate(x, ek) == [to |-> ek, by |-> x]
decapsulate(x, ct) == IF ct.to = x THEN ct ELSE [to |-> x, by |-> None]   \* implicit rejection

----------------------------------------------------------------------------
(* Message A: e, e1, and a payload with no key yet. *)
transcript_a(y, a) == mix_hash(mix_hash(mix_hash(y, a.e), a.ek), a.pay)
message_a(i) == [kind |-> "a", e |-> i, ek |-> i, pay |-> ""]
WriteA(i) ==
    /\ hs[i].at = "new" /\ i \in Initiators
    /\ hs' = [hs EXCEPT ![i].at = "sent", ![i].sym = transcript_a(@, message_a(i))] /\ air' = air \cup {message_a(i)}
ReadA(r, a) ==
    /\ hs[r].at = "new" /\ r \in Responders /\ a.kind = "a"
    /\ hs' = [hs EXCEPT ![r] = [@ EXCEPT !.at = "heard", !.re = a.e, !.re1 = a.ek, !.sym = transcript_a(hs[r].sym, a)]]
    /\ UNCHANGED air

(* Message B: e, ee, ekem1, s, es. Both sides walk the same steps. *)
after_e(y, e, ee) == mix_key(mix_hash(y, e), ee)
WriteB(r) ==
    LET st == hs[r]
        ct == encapsulate(r, st.re1)
        y1 == after_e(st.sym, r, dh(r, st.re))
        y2 == mix_key(encrypt_and_hash(y1, ct), ct)
        y3 == mix_key(encrypt_and_hash(y2, StaticOf(r)), dh(StaticOf(r), st.re))
        y4 == encrypt_and_hash(y3, "") IN
    /\ st.at = "heard" /\ r \in Responders
    /\ hs' = [hs EXCEPT ![r].at = "answered", ![r].sym = y4]
    /\ air' = air \cup {[kind |-> "b", e |-> r, ct |-> sealed(y1, ct), s |-> sealed(y2, StaticOf(r)),
                         pay |-> sealed(y3, "")]}
ReadB(i, b) ==
    LET y1 == after_e(hs[i].sym, b.e, dh(i, b.e))
        y2 == mix_key(decrypt_and_hash(y1, b.ct), decapsulate(i, b.ct.body))
        y3 == mix_key(decrypt_and_hash(y2, b.s), dh(i, b.s.body))
        good == opens(y1, b.ct) /\ opens(y2, b.s) /\ opens(y3, b.pay) IN
    /\ hs[i].at = "sent" /\ i \in Initiators /\ b.kind = "b"
    /\ hs' = [hs EXCEPT ![i] = IF good
                THEN [@ EXCEPT !.at = "heard", !.re = b.e, !.rs = b.s.body, !.sym = decrypt_and_hash(y3, b.pay)]
                ELSE [@ EXCEPT !.at = "failed"]]
    /\ UNCHANGED air

----------------------------------------------------------------------------
(* A bug: both ends take the ciphers in the same order. *)
MutTransport(x, y) == [send |-> <<y.ck, 1>>, recv |-> <<y.ck, 2>>]

(* split and into_transport: each end sends with what the other receives with. *)
into_transport(x, y) ==
    IF x \in Initiators THEN [send |-> <<y.ck, 1>>, recv |-> <<y.ck, 2>>]
                        ELSE [send |-> <<y.ck, 2>>, recv |-> <<y.ck, 1>>]

ends_with(st, x, y) ==
    [st EXCEPT !.at = "done", !.sym = y, !.send = into_transport(x, y).send, !.recv = into_transport(x, y).recv]

(* Message C: s, se; then the transport's ciphers. *)
WriteC(i) ==
    LET st == hs[i]
        y1 == mix_key(encrypt_and_hash(st.sym, StaticOf(i)), dh(StaticOf(i), st.re))
        y2 == encrypt_and_hash(y1, "") IN
    /\ st.at = "heard" /\ i \in Initiators
    /\ hs' = [hs EXCEPT ![i] = ends_with(@, i, y2)]
    /\ air' = air \cup {[kind |-> "c", s |-> sealed(st.sym, StaticOf(i)), pay |-> sealed(y1, "")]}
ReadC(r, c) ==
    LET y0 == hs[r].sym
        y1 == mix_key(decrypt_and_hash(y0, c.s), dh(r, c.s.body))
        good == opens(y0, c.s) /\ opens(y1, c.pay) IN
    /\ hs[r].at = "answered" /\ r \in Responders /\ c.kind = "c"
    /\ hs' = [hs EXCEPT ![r] = IF good THEN [ends_with(@, r, decrypt_and_hash(y1, c.pay)) EXCEPT !.rs = c.s.body]
                                       ELSE [@ EXCEPT !.at = "failed"]]
    /\ UNCHANGED air

(* What may come of a message: itself, one field altered, or one of another's. *)
spoilt(m, f) == IF f \in {"e", "ek"} THEN "x" ELSE IF m.kind = "a" THEN "more" ELSE [m[f] EXCEPT !.whole = FALSE]
comes_of(m) ==
    {m} \cup UNION {{[m EXCEPT ![f] = v] : v \in {spoilt(m, f)} \cup {o[f] : o \in {w \in air : w.kind = m.kind}}} :
                      f \in DOMAIN m \ {"kind"}}

NhNext ==
    \/ \E x \in Ends : WriteA(x) \/ WriteB(x) \/ WriteC(x)
    \/ \E m \in air : \E w \in comes_of(m), x \in Ends : ReadA(x, w) \/ ReadB(x, w) \/ ReadC(x, w)

NhSpec == NhInit /\ [][NhNext]_nhVars

----------------------------------------------------------------------------
Peered(i, r) == hs[i].send = hs[r].recv /\ hs[i].recv = hs[r].send
Agreed(i, r) ==
    /\ hs[i].at = "done" /\ hs[i].sym = hs[r].sym /\ Peered(i, r)
    /\ hs[i].rs = StaticOf(r) /\ hs[r].rs = StaticOf(i)
Answered(i, r) ==
    /\ hs[i].re = r /\ hs[r].re = i /\ hs[r].re1 = i /\ hs[i].rs = StaticOf(r)
    /\ hs[r].at \in {"answered", "done", "failed"}

(* Whoever finishes has a peer that took part with it: the responder, an         *)
(* initiator that finished with the same keys and transcript, each knowing the   *)
(* other's static key; the initiator, a responder whose answer, and key, it has. *)
(* No two sessions share a peer, and each end sends with what the other opens.   *)
HandshakeAgrees ==
    /\ \A r \in Responders : hs[r].at = "done" => \E i \in Initiators : Agreed(i, r)
    /\ \A i \in Initiators : hs[i].at = "done" => \E r \in Responders : Answered(i, r)
    /\ \A i, j \in Initiators : hs[i].at = "done" /\ hs[j].at = "done" /\ hs[i].send = hs[j].send => i = j

----------------------------------------------------------------------------
(* What holds on the way, from which HandshakeAgrees follows at every step. *)
told_a(e, ek, p) == transcript_a(Symmetric, [kind |-> "a", e |-> e, ek |-> ek, pay |-> p])
as_sealed(c) == [h |-> c.ad, ck |-> c.key, n |-> c.n]

(* Each message was written by an end that is past it, from what it had heard. *)
WroteB(b, r) ==
    LET y1 == as_sealed(b.ct)
        ct == encapsulate(r, hs[r].re1)
        y2 == mix_key(encrypt_and_hash(y1, ct), ct)
        y3 == mix_key(encrypt_and_hash(y2, StaticOf(r)), dh(StaticOf(r), hs[r].re)) IN
    /\ hs[r].at \in {"answered", "done", "failed"}
    /\ b = [kind |-> "b", e |-> r, ct |-> sealed(y1, ct), s |-> sealed(y2, StaticOf(r)), pay |-> sealed(y3, "")]
    /\ \E p \in {"", "more"} : y1 = after_e(told_a(hs[r].re, hs[r].re1, p), r, dh(r, hs[r].re))
WroteC(c, i) ==
    LET y == as_sealed(c.s)
        y1 == mix_key(encrypt_and_hash(y, StaticOf(i)), dh(StaticOf(i), hs[i].re)) IN
    /\ hs[i].at = "done" /\ hs[i].sym = encrypt_and_hash(y1, "")
    /\ c = [kind |-> "c", s |-> sealed(y, StaticOf(i)), pay |-> sealed(y1, "")]
AirIsWritten ==
    \A m \in air :
      /\ m.kind \in {"a", "b", "c"}
      /\ m.kind = "a" => \E i \in Initiators : m = message_a(i)
      /\ m.kind = "b" => \E r \in Responders : WroteB(m, r)
      /\ m.kind = "c" => \E i \in Initiators : WroteC(m, i)

(* Where each end is, and the transcript and key it has there. *)
heard_key(i) == <<<<<<<<>>, dh(i, hs[i].re)>>, [to |-> i, by |-> hs[i].re]>>, dh(i, hs[i].rs)>>
done_key(i) == <<heard_key(i), dh(StaticOf(i), hs[i].re)>>
InitiatorInStep(i) ==
    /\ hs[i].at \in {"new", "sent", "heard", "done", "failed"}
    /\ hs[i].at = "new" => hs[i].sym = Symmetric
    /\ hs[i].at = "sent" => hs[i].sym = told_a(i, i, "")
    /\ hs[i].at = "heard" => hs[i].sym.ck = heard_key(i)
    /\ hs[i].at = "done" => /\ hs[i].sym.ck = done_key(i)
                            /\ hs[i].send = <<done_key(i), 1>> /\ hs[i].recv = <<done_key(i), 2>>
    /\ hs[i].at \in {"heard", "done"} => \E r \in Responders : Answered(i, r)
ResponderInStep(r) ==
    /\ hs[r].at \in {"new", "heard", "answered", "done", "failed"}
    /\ hs[r].at = "new" => hs[r].sym = Symmetric
    /\ hs[r].at = "heard" => \E p \in {"", "more"} : hs[r].sym = told_a(hs[r].re, hs[r].re1, p)
    /\ hs[r].at = "done" => \E i \in Initiators : Agreed(i, r)
EndsInStep ==
    /\ \A i \in Initiators : InitiatorInStep(i)
    /\ \A r \in Responders : ResponderInStep(r)
Fields == {"at", "sym", "re", "re1", "rs", "send", "recv"}
EndsWhole ==
    /\ DOMAIN hs = Ends
    /\ \A x \in Ends : DOMAIN hs[x] = Fields /\ hs[x].sym = [h |-> hs[x].sym.h, ck |-> hs[x].sym.ck, n |-> hs[x].sym.n]

(* The inductive invariant of the handshakes. *)
NhInv == EndsWhole /\ EndsInStep /\ AirIsWritten
=============================================================================
