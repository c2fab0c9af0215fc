----------------------------- MODULE HidraMail -----------------------------
(* Mail between HidraMail servers: the sender asks the recipient's server    *)
(* for its key, seals and signs the mail, delivers it and keeps a copy of    *)
(* its own; each server keeps its mail in files. Servers stop and start,     *)
(* files are written in more than one step, and an answer may be lost.       *)
EXTENDS Naturals, FiniteSets

CONSTANTS MailNodes, Mails, MaxMailStops   \* servers, mail ids, a bound of the runs

ASSUME MailConstants == MailNodes \cap {"none", "writing", "half", ""} = {}

VARIABLES mup,        \* servers that run
          mkey,       \* server -> its key's file: "none", "writing", "half" or, whole, its owner's name
          mbox,       \* <<server, folder>> -> mail -> whether it is whole, and whom it is sealed to
          marked,     \* <<server, mail>> with a .read marker
          job,        \* mail -> sender, recipient, the address used, how far it is, the key fetched
          deleted,    \* <<server, folder, mail>> the owner deleted
          mstops

mlVars == <<mup, mkey, mbox, marked, job, deleted, mstops>>

Boxes == MailNodes \X {"inbox", "sent"}
NoJob == [from |-> "", to |-> "", via |-> "", at |-> "none", key |-> ""]

MlInit ==
    /\ mup = {} /\ mkey = [n \in MailNodes |-> "none"] /\ mbox = [b \in Boxes |-> <<>>] /\ marked = {}
    /\ job = [m \in Mails |-> NoJob] /\ deleted = {} /\ mstops = 0

moves_to(m, step) == job' = [job EXCEPT ![m].at = step]
kept_in(b, m, whole, to) ==
    mbox' = [mbox EXCEPT ![b] = [x \in DOMAIN @ \cup {m} |-> IF x = m THEN [whole |-> whole, sealed |-> to] ELSE @[x]]]

----------------------------------------------------------------------------
(* load_or_generate: a key that is there is used; a file of another length is   *)
(* refused, and the server does not start.                                      *)
StartMail(n) ==
    /\ n \notin mup
    /\ \/ mkey[n] = "none" /\ mkey' = [mkey EXCEPT ![n] = "writing"] /\ UNCHANGED mup
       \/ mkey[n] = n /\ mup' = mup \cup {n} /\ UNCHANGED mkey
    /\ UNCHANGED <<mbox, marked, job, deleted, mstops>>
KeyWritten(n) ==
    /\ mkey[n] = "writing" /\ mkey' = [mkey EXCEPT ![n] = n] /\ mup' = mup \cup {n}
    /\ UNCHANGED <<mbox, marked, job, deleted, mstops>>

(* api_send_mail, to an address that names the recipient's own machine or not. *)
SendMail(m, a, b, via) ==
    /\ job[m] = NoJob /\ a \in mup
    /\ job' = [job EXCEPT ![m] = [from |-> a, to |-> b, via |-> via, at |-> "key", key |-> ""]]
    /\ UNCHANGED <<mup, mkey, mbox, marked, deleted, mstops>>

(* handle_http answers /api/pubkey only to a Host of its own machine (screen). *)
answers_pubkey(m) == job[m].to \in mup /\ job[m].via = "loopback"
FetchPubkey(m) ==
    /\ job[m].at = "key"
    /\ job' = [job EXCEPT ![m].at = IF answers_pubkey(m) THEN "deliver" ELSE "failed",
                          ![m].key = IF answers_pubkey(m) THEN mkey[job[m].to] ELSE ""]
    /\ UNCHANGED <<mup, mkey, mbox, marked, deleted, mstops>>

(* deliver_to_remote and api_deliver: the signature is checked, the file written. *)
Deliver(m) ==
    /\ job[m].at = "deliver"
    /\ IF job[m].to \in mup THEN moves_to(m, "storing") /\ kept_in(<<job[m].to, "inbox">>, m, FALSE, job[m].key)
                            ELSE moves_to(m, "failed") /\ UNCHANGED mbox
    /\ UNCHANGED <<mup, mkey, marked, deleted, mstops>>
Delivered(m) ==
    /\ job[m].at = "storing" /\ job[m].to \in mup
    /\ moves_to(m, "stored") /\ kept_in(<<job[m].to, "inbox">>, m, TRUE, job[m].key)
    /\ UNCHANGED <<mup, mkey, marked, deleted, mstops>>

(* The answer did not come, or was not a 200: the sender is told the delivery failed. *)
AnswerLost(m) ==
    /\ job[m].at \in {"storing", "stored"}
    /\ job[m].at = "storing" => job[m].to \notin mup
    /\ moves_to(m, "failed") /\ UNCHANGED <<mup, mkey, mbox, marked, deleted, mstops>>

(* A bug: the copy kept is the envelope that was sent. *)
MutSenderCopy(m) == job[m].key

(* make_sender_copy: sealed again, to the sender's own key. *)
make_sender_copy(m) == mkey[job[m].from]

(* The copy is written, or cannot be, and the sender is told the mail was sent. *)
KeepCopy(m) ==
    /\ job[m].at = "stored" /\ moves_to(m, "copy") /\ kept_in(<<job[m].from, "sent">>, m, FALSE, make_sender_copy(m))
    /\ UNCHANGED <<mup, mkey, marked, deleted, mstops>>
CopyKept(m) ==
    /\ job[m].at = "copy" /\ moves_to(m, "sent") /\ kept_in(<<job[m].from, "sent">>, m, TRUE, make_sender_copy(m))
    /\ UNCHANGED <<mup, mkey, marked, deleted, mstops>>
CopyFails(m) ==
    /\ job[m].at = "stored" /\ moves_to(m, "sent")
    /\ UNCHANGED <<mup, mkey, mbox, marked, deleted, mstops>>

----------------------------------------------------------------------------
(* read_mail: the inbox before the sent folder; the marker is written first. *)
ReadMail(n, m) ==
    /\ n \in mup /\ m \in DOMAIN mbox[<<n, "inbox">>] /\ marked' = marked \cup {<<n, m>>}
    /\ UNCHANGED <<mup, mkey, mbox, job, deleted, mstops>>

(* delete_mail: from the inbox, with its marker, or else from the sent folder. *)
DeleteMail(n, m) ==
    LET folder == IF m \in DOMAIN mbox[<<n, "inbox">>] THEN "inbox" ELSE "sent"
    IN  /\ n \in mup /\ m \in DOMAIN mbox[<<n, folder>>]
        /\ mbox' = [mbox EXCEPT ![<<n, folder>>] = [x \in DOMAIN @ \ {m} |-> @[x]]]
        /\ marked' = IF folder = "inbox" THEN marked \ {<<n, m>>} ELSE marked
        /\ deleted' = deleted \cup {<<n, folder, m>>}
        /\ UNCHANGED <<mup, mkey, job, mstops>>

(* A server stops: what it was sending is over, what it was writing stays half written. *)
StopMail(n) ==
    /\ mstops < MaxMailStops /\ mstops' = mstops + 1
    /\ n \in mup \/ mkey[n] = "writing"
    /\ mup' = mup \ {n} /\ mkey' = [mkey EXCEPT ![n] = IF @ = "writing" THEN "half" ELSE @]
    /\ job' = [m \in Mails |-> IF job[m].from = n /\ job[m].at # "sent" THEN [job[m] EXCEPT !.at = "cut"] ELSE job[m]]
    /\ UNCHANGED <<mbox, marked, deleted>>

MlNext ==
    \/ \E n \in MailNodes : StartMail(n) \/ KeyWritten(n) \/ StopMail(n)
    \/ \E m \in Mails, a, b \in MailNodes, via \in {"loopback", "elsewhere"} : SendMail(m, a, b, via)
    \/ \E m \in Mails : FetchPubkey(m) \/ Deliver(m) \/ Delivered(m) \/ AnswerLost(m) \/ KeepCopy(m) \/ CopyKept(m)
                        \/ CopyFails(m)
    \/ \E n \in MailNodes, m \in Mails : ReadMail(n, m) \/ DeleteMail(n, m)

MlSpec == MlInit /\ [][MlNext]_mlVars

----------------------------------------------------------------------------
(* A mail its sender was told is sent is whole in the recipient's inbox and  *)
(* opens with the recipient's key, whatever stopped since, unless the owner  *)
(* deleted it; and every whole copy in a folder opens with its owner's key:  *)
(* in the sent folder too (api_send_mail, api_deliver, make_sender_copy).    *)
MailKept ==
    /\ \A m \in Mails : job[m].at \in {"copy", "sent"} =>
          \/ <<job[m].to, "inbox", m>> \in deleted
          \/ m \in DOMAIN mbox[<<job[m].to, "inbox">>] /\ mbox[<<job[m].to, "inbox">>][m].whole
    /\ \A b \in Boxes : \A m \in DOMAIN mbox[b] : mbox[b][m].whole => mbox[b][m].sealed = b[1]

----------------------------------------------------------------------------
(* What it rests on: a key once written is there for good, so whoever sent a *)
(* mail has its own, and the key a mail is sealed to is the recipient's.     *)
AnyJob == [from : MailNodes \cup {""}, to : MailNodes \cup {""}, via : {"", "loopback", "elsewhere"},
           at : {"none", "key", "deliver", "storing", "stored", "copy", "sent", "failed", "cut"},
           key : MailNodes \cup {""}]
MailTyped ==
    /\ mup \subseteq MailNodes /\ mkey \in [MailNodes -> MailNodes \cup {"none", "writing", "half"}]
    /\ job \in [Mails -> AnyJob]
    /\ DOMAIN mbox = Boxes
KeysWhole ==
    /\ \A n \in MailNodes : mkey[n] \in {"none", "writing", "half", n}
    /\ \A n \in mup : mkey[n] = n
    /\ \A m \in Mails : job[m].at # "none" =>
          job[m].from \in MailNodes /\ job[m].to \in MailNodes /\ mkey[job[m].from] = job[m].from
    /\ \A m \in Mails : job[m].at \in {"deliver", "storing", "stored", "copy", "sent"} => job[m].key = job[m].to
    /\ \A m \in Mails : job[m].at = "none" => job[m].from = ""
StoredIsThere ==
    \A m \in Mails : job[m].at = "stored" =>
          \/ <<job[m].to, "inbox", m>> \in deleted
          \/ m \in DOMAIN mbox[<<job[m].to, "inbox">>] /\ mbox[<<job[m].to, "inbox">>][m].whole
MailInv == MailTyped /\ KeysWhole /\ StoredIsThere /\ MailKept
============================================================================
