----------------------------- MODULE AppsProofs -----------------------------
(* What is proved of the applications on HidraNet: the mail servers, the     *)
(* chat, the sessions of a hidden service, the rules of the forum and the    *)
(* sites of SevenNine.                                                       *)
EXTENDS HidraMail, HidraChat, IntroPoint, ForumRules, SiteManager, SumTheorems,
        FiniteSetTheorems, SequenceTheorems, TLAPS

-----------------------------------------------------------------------------
(* HidraMail.                                                                *)

\* A folder after a mail is written to it, whole or not.
LEMMA MailKeptIn ==
  ASSUME MailTyped, NEW b \in Boxes, NEW m, NEW whole, NEW to, kept_in(b, m, whole, to)
  PROVE  /\ DOMAIN mbox' = Boxes
         /\ \A c \in Boxes : c # b => mbox'[c] = mbox[c]
         /\ DOMAIN mbox'[b] = DOMAIN mbox[b] \cup {m}
         /\ mbox'[b][m] = [whole |-> whole, sealed |-> to]
         /\ \A x \in DOMAIN mbox[b] : x # m => mbox'[b][x] = mbox[b][x]
BY DEF MailTyped, kept_in

LEMMA JobMoves ==
  ASSUME MailTyped, NEW m \in Mails,
         NEW at \in {"none", "key", "deliver", "storing", "stored", "copy", "sent", "failed", "cut"}
  PROVE  /\ [job[m] EXCEPT !.at = at] \in AnyJob
         /\ [job[m] EXCEPT !.at = at].at = at
         /\ [job[m] EXCEPT !.at = at].from = job[m].from
         /\ [job[m] EXCEPT !.at = at].to = job[m].to
         /\ [job[m] EXCEPT !.at = at].key = job[m].key
BY DEF MailTyped, AnyJob

LEMMA MailTypes ==
  ASSUME MailTyped, KeysWhole, MlNext
  PROVE  MailTyped'
PROOF
<1>1. ASSUME NEW n \in MailNodes, StartMail(n) \/ KeyWritten(n) PROVE MailTyped'
  BY <1>1 DEF StartMail, KeyWritten, MailTyped
<1>2. ASSUME NEW n \in MailNodes, StopMail(n) PROVE MailTyped'
  <2>1. mup' \subseteq MailNodes /\ mkey' \in [MailNodes -> MailNodes \cup {"none", "writing", "half"}]
    BY <1>2 DEF StopMail, MailTyped
  <2>2. DOMAIN mbox' = Boxes
    BY <1>2 DEF StopMail, MailTyped
  <2>3. \A m \in Mails : [job[m] EXCEPT !.at = "cut"] \in AnyJob /\ job[m] \in AnyJob
    BY JobMoves DEF MailTyped
  <2>4. job' \in [Mails -> AnyJob]
    BY <1>2, <2>3 DEF StopMail
  <2> QED BY <2>1, <2>2, <2>4 DEF MailTyped
<1>3. ASSUME NEW m \in Mails, NEW a \in MailNodes, NEW b \in MailNodes,
             NEW via \in {"loopback", "elsewhere"}, SendMail(m, a, b, via)
      PROVE  MailTyped'
  BY <1>3 DEF SendMail, MailTyped, AnyJob
<1>4. ASSUME NEW m \in Mails, FetchPubkey(m) PROVE MailTyped'
  <2>1. ASSUME answers_pubkey(m) PROVE mkey[job[m].to] \in MailNodes
    BY <2>1 DEF answers_pubkey, KeysWhole, MailTyped
  <2> DEFINE ok == answers_pubkey(m)
             after == [job[m] EXCEPT !.at = IF ok THEN "deliver" ELSE "failed",
                                     !.key = IF ok THEN mkey[job[m].to] ELSE ""]
  <2>2. job' = [job EXCEPT ![m] = after]
    BY <1>4 DEF FetchPubkey
  <2>3. after \in AnyJob
    BY <2>1 DEF MailTyped, AnyJob
  <2> HIDE DEF after
  <2>4. job' \in [Mails -> AnyJob]
    BY <2>2, <2>3 DEF MailTyped
  <2>5. UNCHANGED <<mup, mkey, mbox>>
    BY <1>4 DEF FetchPubkey
  <2> QED BY <2>4, <2>5 DEF MailTyped
<1>5. ASSUME NEW m \in Mails, Deliver(m) \/ Delivered(m) \/ AnswerLost(m) \/ KeepCopy(m) \/ CopyKept(m) \/ CopyFails(m)
      PROVE  MailTyped'
  <2>1. PICK at \in {"storing", "stored", "failed", "copy", "sent"} : job' = [job EXCEPT ![m] = [job[m] EXCEPT !.at = at]]
    BY <1>5 DEF Deliver, Delivered, AnswerLost, KeepCopy, CopyKept, CopyFails, moves_to
  <2>2. UNCHANGED <<mup, mkey>>
    BY <1>5 DEF Deliver, Delivered, AnswerLost, KeepCopy, CopyKept, CopyFails
  <2>3. DOMAIN mbox' = DOMAIN mbox
    BY <1>5 DEF Deliver, Delivered, AnswerLost, KeepCopy, CopyKept, CopyFails, kept_in
  <2>4. [job[m] EXCEPT !.at = at] \in AnyJob
    BY JobMoves
  <2> QED BY <2>1, <2>2, <2>3, <2>4 DEF MailTyped
<1>6. ASSUME NEW n \in MailNodes, NEW m \in Mails, ReadMail(n, m) \/ DeleteMail(n, m) PROVE MailTyped'
  <2>1. UNCHANGED <<mup, mkey, job>>
    BY <1>6 DEF ReadMail, DeleteMail
  <2>2. DOMAIN mbox' = DOMAIN mbox
    BY <1>6 DEF ReadMail, DeleteMail
  <2> QED BY <2>1, <2>2 DEF MailTyped
<1> QED BY <1>1, <1>2, <1>3, <1>4, <1>5, <1>6 DEF MlNext

\* KeysWhole from what a step does to keys, to servers that run and to jobs.
LEMMA KeysFrom ==
  ASSUME KeysWhole,
         \A k \in MailNodes : mkey'[k] = mkey[k] \/ (mkey[k] # k /\ mkey'[k] \in {"writing", "half", k}),
         \A k \in mup' : mkey'[k] = k,
         \A m \in Mails : job'[m].at # "none" =>
           /\ job'[m].from \in MailNodes /\ job'[m].to \in MailNodes
           /\ job'[m].from \in mup \/ (job[m].at # "none" /\ job'[m].from = job[m].from)
           /\ job'[m].at \in {"deliver", "storing", "stored", "copy", "sent"} => job'[m].key = job'[m].to,
         \A m \in Mails : job'[m].at = "none" => job'[m].from = ""
  PROVE  KeysWhole'
PROOF
<1>1. \A n \in MailNodes : mkey[n] \in {"none", "writing", "half", n}
  BY DEF KeysWhole
<1>2. \A n \in MailNodes : mkey'[n] \in {"none", "writing", "half", n}
  BY <1>1
<1>h. /\ \A n \in mup : mkey[n] = n
      /\ \A m \in Mails : job[m].at # "none" => mkey[job[m].from] = job[m].from
  BY DEF KeysWhole
<1>3. ASSUME NEW m \in Mails, job'[m].at # "none" PROVE mkey[job'[m].from] = job'[m].from
  <2>1. CASE job'[m].from \in mup
    BY <2>1, <1>h
  <2>2. CASE job[m].at # "none" /\ job'[m].from = job[m].from
    BY <2>2, <1>h
  <2> QED BY <1>3, <2>1, <2>2
<1>4. \A m \in Mails : job'[m].at # "none" => mkey'[job'[m].from] = job'[m].from
  BY <1>3
<1> QED BY <1>2, <1>4 DEF KeysWhole

\* A job that moves on keeps its sender, its recipient and its key.
LEMMA JobGoesOn ==
  ASSUME MailTyped, NEW m \in Mails,
         NEW at \in {"none", "key", "deliver", "storing", "stored", "copy", "sent", "failed", "cut"},
         job' = [job EXCEPT ![m] = [job[m] EXCEPT !.at = at]]
  PROVE  /\ \A d \in Mails : d # m => job'[d] = job[d]
         /\ job'[m].at = at /\ job'[m].from = job[m].from /\ job'[m].to = job[m].to /\ job'[m].key = job[m].key
PROOF
<1>1. job'[m] = [job[m] EXCEPT !.at = at] /\ \A d \in Mails : d # m => job'[d] = job[d]
  BY DEF MailTyped
<1>2. [job[m] EXCEPT !.at = at].at = at
  BY JobMoves
<1>3. [job[m] EXCEPT !.at = at].from = job[m].from /\ [job[m] EXCEPT !.at = at].to = job[m].to
  BY JobMoves
<1>4. [job[m] EXCEPT !.at = at].key = job[m].key
  BY JobMoves
<1> QED BY <1>1, <1>2, <1>3, <1>4

\* The steps of a delivery after the key was fetched.
LEMMA DeliveryMoves ==
  ASSUME MailTyped, NEW m \in Mails,
         Deliver(m) \/ Delivered(m) \/ AnswerLost(m) \/ KeepCopy(m) \/ CopyKept(m) \/ CopyFails(m)
  PROVE  /\ \A d \in Mails : d # m => job'[d] = job[d]
         /\ job'[m].from = job[m].from /\ job'[m].to = job[m].to /\ job'[m].key = job[m].key
         /\ job[m].at \in {"deliver", "storing", "stored", "copy"}
         /\ UNCHANGED <<mup, mkey, deleted>>
         /\ job'[m].at # "none"
PROOF
<1>1. PICK at \in {"storing", "stored", "failed", "copy", "sent"} : job' = [job EXCEPT ![m] = [job[m] EXCEPT !.at = at]]
  BY DEF Deliver, Delivered, AnswerLost, KeepCopy, CopyKept, CopyFails, moves_to
<1>2. UNCHANGED <<mup, mkey, deleted>> /\ job[m].at \in {"deliver", "storing", "stored", "copy"}
  BY DEF Deliver, Delivered, AnswerLost, KeepCopy, CopyKept, CopyFails
<1>3. /\ \A d \in Mails : d # m => job'[d] = job[d]
      /\ job'[m].at = at /\ job'[m].from = job[m].from /\ job'[m].to = job[m].to /\ job'[m].key = job[m].key
  BY <1>1, JobGoesOn
<1> QED BY <1>2, <1>3

\* Sender and recipient of a job do not change once it has begun, and a key that
\* was whole stays so.
LEMMA KeysStep ==
  ASSUME MailTyped, KeysWhole, MlNext
  PROVE  KeysWhole'
PROOF
<1>a. \A n \in mup : mkey[n] = n
  BY DEF KeysWhole
<1>b. \A m \in Mails : job[m].at # "none" => job[m].from \in MailNodes /\ job[m].to \in MailNodes
  BY DEF KeysWhole
<1>c. \A m \in Mails : job[m].at \in {"deliver", "storing", "stored", "copy", "sent"} => job[m].key = job[m].to
  BY DEF KeysWhole
<1>d. \A n \in MailNodes : n \notin {"none", "writing", "half", ""}
  BY MailConstants
<1>j. \A m \in Mails : job[m].at # "none" =>
           /\ job[m].from \in MailNodes /\ job[m].to \in MailNodes
           /\ job[m].from \in mup \/ (job[m].at # "none" /\ job[m].from = job[m].from)
           /\ job[m].at \in {"deliver", "storing", "stored", "copy", "sent"} => job[m].key = job[m].to
  BY <1>b, <1>c
<1>k. \A m \in Mails : job[m].at = "none" => job[m].from = ""
  BY DEF KeysWhole
<1>1. ASSUME NEW n \in MailNodes, StartMail(n) \/ KeyWritten(n) PROVE KeysWhole'
  <2>1. job' = job
    BY <1>1 DEF StartMail, KeyWritten
  <2>2. \A k \in MailNodes : mkey'[k] = mkey[k] \/ (mkey[k] # k /\ mkey'[k] \in {"writing", "half", k})
    BY <1>1, <1>d DEF StartMail, KeyWritten, MailTyped
  <2>3. \A k \in mup' : mkey'[k] = k
    <3>1. CASE mkey' = mkey /\ mkey[n] = n /\ mup' = mup \cup {n}
      BY <3>1, <1>a
    <3>2. CASE mkey[n] = "none" /\ mkey' = [mkey EXCEPT ![n] = "writing"] /\ mup' = mup
      <4>1. n \notin mup
        BY <3>2, <1>a, <1>d
      <4> QED BY <3>2, <4>1, <1>a DEF MailTyped
    <3>3. CASE mkey' = [mkey EXCEPT ![n] = n] /\ mup' = mup \cup {n}
      BY <3>3, <1>a DEF MailTyped
    <3> QED BY <1>1, <3>1, <3>2, <3>3 DEF StartMail, KeyWritten
  <2> QED BY <2>1, <2>2, <2>3, <1>j, <1>k, KeysFrom
<1>3. ASSUME NEW n \in MailNodes, StopMail(n) PROVE KeysWhole'
  <2>1. \A k \in MailNodes : mkey'[k] = mkey[k] \/ (mkey[k] # k /\ mkey'[k] \in {"writing", "half", k})
    BY <1>3, <1>d DEF StopMail, MailTyped
  <2>2. \A k \in mup' : mkey'[k] = k
    BY <1>3, <1>a, <1>d DEF StopMail, MailTyped
  <2>3. \A m \in Mails : job'[m] = IF job[m].from = n /\ job[m].at # "sent" THEN [job[m] EXCEPT !.at = "cut"] ELSE job[m]
    BY <1>3 DEF StopMail
  <2>4. ASSUME NEW m \in Mails, job'[m].at # "none"
        PROVE  /\ job'[m].from \in MailNodes /\ job'[m].to \in MailNodes
               /\ job'[m].from \in mup \/ (job[m].at # "none" /\ job'[m].from = job[m].from)
               /\ job'[m].at \in {"deliver", "storing", "stored", "copy", "sent"} => job'[m].key = job'[m].to
    <3>1. CASE job'[m] = job[m]
      BY <3>1, <2>4, <1>j
    <3>2. CASE job[m].from = n /\ job'[m] = [job[m] EXCEPT !.at = "cut"]
      <4>1. job'[m].at = "cut" /\ job'[m].from = job[m].from /\ job'[m].to = job[m].to
        BY <3>2, JobMoves
      <4>2. n # ""
        BY <1>d
      <4>3. job[m].at # "none"
        BY <3>2, <4>2, <1>k
      <4> QED BY <4>1, <4>3, <1>b
    <3> QED BY <3>1, <3>2, <2>3
  <2>5. \A m \in Mails : job'[m].at = "none" => job'[m].from = ""
    <3>1. \A m \in Mails : [job[m] EXCEPT !.at = "cut"].at = "cut"
      BY JobMoves
    <3> QED BY <2>3, <1>k, <3>1
  <2> QED BY <2>1, <2>2, <2>4, <2>5, KeysFrom
<1>4. ASSUME NEW m \in Mails, NEW a \in MailNodes, NEW b \in MailNodes,
             NEW via \in {"loopback", "elsewhere"}, SendMail(m, a, b, via)
      PROVE  KeysWhole'
  <2>1. UNCHANGED <<mup, mkey>> /\ a \in mup
    BY <1>4 DEF SendMail
  <2>2. /\ \A d \in Mails : d # m => job'[d] = job[d]
        /\ job'[m].from = a /\ job'[m].to = b /\ job'[m].at = "key"
    BY <1>4 DEF SendMail, MailTyped
  <2> QED BY <2>1, <2>2, <1>a, <1>j, <1>k, KeysFrom
<1>5. ASSUME NEW m \in Mails, FetchPubkey(m) PROVE KeysWhole'
  <2>1. /\ job' = [job EXCEPT ![m].at = IF answers_pubkey(m) THEN "deliver" ELSE "failed",
                              ![m].key = IF answers_pubkey(m) THEN mkey[job[m].to] ELSE ""]
        /\ UNCHANGED <<mup, mkey>> /\ job[m].at = "key"
    BY <1>5 DEF FetchPubkey
  <2>2. \A d \in Mails : d # m => job'[d] = job[d]
    BY <2>1 DEF MailTyped
  <2>3. /\ job'[m].from = job[m].from /\ job'[m].to = job[m].to
        /\ \/ job'[m].at = "failed"
           \/ answers_pubkey(m) /\ job'[m].at = "deliver" /\ job'[m].key = mkey[job[m].to]
    BY <2>1 DEF MailTyped, AnyJob
  <2>4. answers_pubkey(m) => mkey[job[m].to] = job[m].to
    BY <1>a DEF answers_pubkey
  <2>5. ASSUME NEW d \in Mails, job'[d].at # "none"
        PROVE  /\ job'[d].from \in MailNodes /\ job'[d].to \in MailNodes
               /\ job'[d].from \in mup \/ (job[d].at # "none" /\ job'[d].from = job[d].from)
               /\ job'[d].at \in {"deliver", "storing", "stored", "copy", "sent"} => job'[d].key = job'[d].to
    <3>1. CASE d = m
      <4>1. job[m].from \in MailNodes /\ job[m].to \in MailNodes
        BY <2>1, <1>j
      <4> QED BY <3>1, <4>1, <2>1, <2>3, <2>4
    <3>2. CASE d # m
      <4>1. job'[d] = job[d]
        BY <3>2, <2>2
      <4> QED BY <4>1, <2>5, <1>j
    <3> QED BY <3>1, <3>2
  <2>6. \A d \in Mails : job'[d].at = "none" => job'[d].from = ""
    BY <2>2, <2>3, <1>k
  <2>7. \A k \in mup' : mkey'[k] = k
    BY <2>1, <1>a
  <2> QED BY <2>1, <2>5, <2>6, <2>7, KeysFrom
<1>6. ASSUME NEW m \in Mails, Deliver(m) \/ Delivered(m) \/ AnswerLost(m) \/ KeepCopy(m) \/ CopyKept(m) \/ CopyFails(m)
      PROVE  KeysWhole'
  <2>1. /\ \A d \in Mails : d # m => job'[d] = job[d]
        /\ job'[m].from = job[m].from /\ job'[m].to = job[m].to /\ job'[m].key = job[m].key
        /\ job[m].at \in {"deliver", "storing", "stored", "copy"}
        /\ UNCHANGED <<mup, mkey>> /\ job'[m].at # "none"
    BY <1>6, DeliveryMoves
  <2> QED BY <2>1, <1>a, <1>j, <1>k, KeysFrom
<1>7. ASSUME NEW n \in MailNodes, NEW m \in Mails, ReadMail(n, m) \/ DeleteMail(n, m) PROVE KeysWhole'
  BY <1>7 DEF ReadMail, DeleteMail, KeysWhole
<1> QED BY <1>1, <1>3, <1>4, <1>5, <1>6, <1>7 DEF MlNext

\* What is whole in the recipient's inbox, or was deleted there by its owner.
IsThere(m) == \/ <<job[m].to, "inbox", m>> \in deleted
              \/ m \in DOMAIN mbox[<<job[m].to, "inbox">>] /\ mbox[<<job[m].to, "inbox">>][m].whole

\* Every whole copy opens with the key of the folder's owner.
OpensForOwner == \A b \in Boxes : \A m \in DOMAIN mbox[b] : mbox[b][m].whole => mbox[b][m].sealed = b[1]

\* A folder gets a mail, half written or sealed to its owner.
LEMMA StillOpens ==
  ASSUME MailTyped, OpensForOwner, NEW b \in Boxes, NEW m, NEW whole, NEW to,
         kept_in(b, m, whole, to), whole => to = b[1]
  PROVE  OpensForOwner'
PROOF
<1>1. /\ \A c \in Boxes : c # b => mbox'[c] = mbox[c]
      /\ DOMAIN mbox'[b] = DOMAIN mbox[b] \cup {m}
      /\ mbox'[b][m] = [whole |-> whole, sealed |-> to]
      /\ \A x \in DOMAIN mbox[b] : x # m => mbox'[b][x] = mbox[b][x]
  BY MailKeptIn
<1>2. mbox'[b][m].whole = whole /\ mbox'[b][m].sealed = to
  BY <1>1
<1>3. ASSUME NEW c \in Boxes, NEW x \in DOMAIN mbox'[c], mbox'[c][x].whole PROVE mbox'[c][x].sealed = c[1]
  <2>1. CASE c # b
    BY <2>1, <1>1, <1>3 DEF OpensForOwner
  <2>2. CASE c = b /\ x = m
    BY <2>2, <1>2, <1>3
  <2>3. CASE c = b /\ x # m
    BY <2>3, <1>1, <1>3 DEF OpensForOwner
  <2> QED BY <2>1, <2>2, <2>3
<1> QED BY <1>3 DEF OpensForOwner

\* Writing to a folder leaves a whole mail whole, unless it is this very mail in
\* this very folder.
LEMMA StillThere ==
  ASSUME MailTyped, NEW b \in Boxes, NEW m, NEW whole, NEW to, kept_in(b, m, whole, to),
         NEW c \in Boxes, NEW d \in DOMAIN mbox[c], mbox[c][d].whole, c # b \/ d # m \/ whole
  PROVE  d \in DOMAIN mbox'[c] /\ mbox'[c][d].whole
PROOF
<1>1. /\ \A e \in Boxes : e # b => mbox'[e] = mbox[e]
      /\ DOMAIN mbox'[b] = DOMAIN mbox[b] \cup {m}
      /\ mbox'[b][m] = [whole |-> whole, sealed |-> to]
      /\ \A x \in DOMAIN mbox[b] : x # m => mbox'[b][x] = mbox[b][x]
  BY MailKeptIn
<1>2. mbox'[b][m].whole = whole
  BY <1>1
<1> QED BY <1>1, <1>2

\* The mail of a job that is through, or as good as.
Arrived(m) == job[m].at \in {"stored", "copy", "sent"}

LEMMA MailStep ==
  ASSUME MailInv, MlNext
  PROVE  (\A m \in Mails : Arrived(m) => IsThere(m))' /\ OpensForOwner'
PROOF
<1>a. \A m \in Mails : Arrived(m) => IsThere(m)
  BY DEF MailInv, MailKept, StoredIsThere, Arrived, IsThere
<1>b. OpensForOwner
  BY DEF MailInv, MailKept, OpensForOwner
<1>c. MailTyped
  BY DEF MailInv
<1>d. \A n \in mup : mkey[n] = n /\ n \in MailNodes
  BY DEF MailInv, KeysWhole, MailTyped
<1>e. \A m \in Mails : job[m].at # "none" =>
         job[m].from \in MailNodes /\ job[m].to \in MailNodes /\ mkey[job[m].from] = job[m].from
  BY DEF MailInv, KeysWhole
<1>f. \A m \in Mails : job[m].at \in {"deliver", "storing", "stored", "copy", "sent"} => job[m].key = job[m].to
  BY DEF MailInv, KeysWhole
<1>g. \A n \in MailNodes : <<n, "inbox">> \in Boxes /\ <<n, "sent">> \in Boxes
  BY DEF Boxes
<1>h. \A m \in Mails : job[m] \in AnyJob
  BY <1>c DEF MailTyped
<1>1. ASSUME NEW n \in MailNodes, StartMail(n) \/ KeyWritten(n) PROVE (\A m \in Mails : Arrived(m) => IsThere(m))' /\ OpensForOwner'
  BY <1>1, <1>a, <1>b DEF StartMail, KeyWritten, Arrived, IsThere, OpensForOwner
<1>2. ASSUME NEW n \in MailNodes, StopMail(n) PROVE (\A m \in Mails : Arrived(m) => IsThere(m))' /\ OpensForOwner'
  <2>1. UNCHANGED <<mbox, deleted>>
    BY <1>2 DEF StopMail
  <2>2. \A m \in Mails : job'[m] = IF job[m].from = n /\ job[m].at # "sent" THEN [job[m] EXCEPT !.at = "cut"] ELSE job[m]
    BY <1>2 DEF StopMail
  <2>3. \A m \in Mails : [job[m] EXCEPT !.at = "cut"].at = "cut"
    BY <1>c, JobMoves
  <2>4. \A m \in Mails : job'[m] = job[m] \/ job'[m].at = "cut"
    BY <2>2, <2>3
  <2> QED BY <2>1, <2>4, <1>a, <1>b DEF Arrived, IsThere, OpensForOwner
<1>3. ASSUME NEW m \in Mails, NEW a \in MailNodes, NEW b \in MailNodes,
             NEW via \in {"loopback", "elsewhere"}, SendMail(m, a, b, via)
      PROVE  (\A d \in Mails : Arrived(d) => IsThere(d))' /\ OpensForOwner'
  <2>1. UNCHANGED <<mbox, deleted>>
    BY <1>3 DEF SendMail
  <2>2. (\A d \in Mails : d # m => job'[d] = job[d]) /\ job'[m].at = "key"
    BY <1>3, <1>c DEF SendMail, MailTyped
  <2> QED BY <2>1, <2>2, <1>a, <1>b DEF Arrived, IsThere, OpensForOwner
<1>4. ASSUME NEW m \in Mails, FetchPubkey(m) PROVE (\A d \in Mails : Arrived(d) => IsThere(d))' /\ OpensForOwner'
  <2>1. UNCHANGED <<mbox, deleted>>
    BY <1>4 DEF FetchPubkey
  <2>2. (\A d \in Mails : d # m => job'[d] = job[d]) /\ job'[m].at \in {"deliver", "failed"}
    BY <1>4, <1>c, <1>h DEF FetchPubkey, MailTyped, AnyJob
  <2> QED BY <2>1, <2>2, <1>a, <1>b DEF Arrived, IsThere, OpensForOwner
<1>5. ASSUME NEW m \in Mails, Deliver(m) \/ Delivered(m) \/ AnswerLost(m) \/ KeepCopy(m) \/ CopyKept(m) \/ CopyFails(m)
      PROVE  (\A d \in Mails : Arrived(d) => IsThere(d))' /\ OpensForOwner'
  <2>1. /\ \A d \in Mails : d # m => job'[d] = job[d]
        /\ job'[m].from = job[m].from /\ job'[m].to = job[m].to /\ job'[m].key = job[m].key
        /\ job[m].at \in {"deliver", "storing", "stored", "copy"}
        /\ UNCHANGED <<mup, mkey, deleted>>
    BY <1>5, <1>c, DeliveryMoves
  <2>2. job[m].from \in MailNodes /\ job[m].to \in MailNodes /\ mkey[job[m].from] = job[m].from /\ job[m].key = job[m].to
    BY <2>1, <1>e, <1>f
  <2> DEFINE in == <<job[m].to, "inbox">>
             out == <<job[m].from, "sent">>
  <2>3. in \in Boxes /\ out \in Boxes /\ in[1] = job[m].to /\ out[1] = job[m].from
    BY <2>2, <1>g
  <2>4. \/ mbox' = mbox /\ (job'[m].at \in {"copy", "sent", "stored"} => job[m].at = "stored")
        \/ kept_in(in, m, FALSE, job[m].key) /\ job'[m].at = "storing"
        \/ kept_in(in, m, TRUE, job[m].key)
        \/ \E whole \in BOOLEAN : kept_in(out, m, whole, mkey[job[m].from]) /\ job[m].at \in {"stored", "copy"}
    <3>1. CASE Deliver(m)
      BY <3>1, <1>c, JobGoesOn DEF Deliver, moves_to
    <3>2. CASE Delivered(m)
      BY <3>2 DEF Delivered
    <3>3. CASE AnswerLost(m)
      BY <3>3, <1>c, JobGoesOn DEF AnswerLost, moves_to
    <3>4. CASE KeepCopy(m) \/ CopyKept(m)
      BY <3>4 DEF KeepCopy, CopyKept, make_sender_copy
    <3>5. CASE CopyFails(m)
      BY <3>5 DEF CopyFails
    <3> QED BY <1>5, <3>1, <3>2, <3>3, <3>4, <3>5
  <2>5. ASSUME NEW d \in Mails, Arrived(d) PROVE <<job[d].to, "inbox">> \in Boxes
    BY <2>5, <1>e, <1>g DEF Arrived
  <2>6. \A d \in Mails : job'[d].to = job[d].to
    BY <2>1
  <2>7. \A d \in Mails : d # m /\ Arrived(d)' => Arrived(d)
    BY <2>1 DEF Arrived
  <2>8. in # out
    OBVIOUS
  <2>9. ASSUME NEW d \in Mails, Arrived(d), mbox' = mbox PROVE IsThere(d)'
    BY <2>9, <2>1, <2>6, <1>a DEF IsThere
  <2>10. ASSUME NEW d \in Mails, Arrived(d), NEW b \in Boxes, NEW whole, NEW to, kept_in(b, m, whole, to),
                d # m \/ whole \/ b # in
         PROVE  IsThere(d)'
    <3> DEFINE box == <<job[d].to, "inbox">>
    <3>1. box \in Boxes
      BY <2>10, <2>5
    <3>2. CASE <<job[d].to, "inbox", d>> \in deleted
      BY <3>2, <2>1, <2>6 DEF IsThere
    <3>3. CASE d \in DOMAIN mbox[box] /\ mbox[box][d].whole
      <4>1. box # b \/ d # m \/ whole
        BY <2>10
      <4>2. d \in DOMAIN mbox'[box] /\ mbox'[box][d].whole
        BY <3>1, <3>3, <4>1, <2>10, <1>c, StillThere
      <4> QED BY <4>2, <2>6 DEF IsThere
    <3> QED BY <2>10, <3>2, <3>3, <1>a DEF IsThere
  <2> HIDE DEF in, out
  <2>11. CASE mbox' = mbox /\ (job'[m].at \in {"copy", "sent", "stored"} => job[m].at = "stored")
    <3>1. \A d \in Mails : Arrived(d)' => Arrived(d)
      BY <2>11, <2>7 DEF Arrived
    <3> QED BY <2>11, <3>1, <2>9, <1>b DEF OpensForOwner
  <2>12. CASE kept_in(in, m, FALSE, job[m].key) /\ job'[m].at = "storing"
    <3>1. \A d \in Mails : Arrived(d)' => Arrived(d) /\ d # m
      BY <2>12, <2>7 DEF Arrived
    <3>2. OpensForOwner'
      BY <2>12, <2>3, <1>b, <1>c, StillOpens
    <3>3. ASSUME NEW d \in Mails, Arrived(d)' PROVE IsThere(d)'
      BY <3>1, <3>3, <2>12, <2>10, <2>3
    <3> QED BY <3>2, <3>3
  <2>13. CASE kept_in(in, m, TRUE, job[m].key)
    <3>1. OpensForOwner'
      BY <2>13, <2>2, <2>3, <1>b, <1>c, StillOpens
    <3>2. /\ DOMAIN mbox'[in] = DOMAIN mbox[in] \cup {m}
          /\ mbox'[in][m] = [whole |-> TRUE, sealed |-> job[m].key]
      <4>1. in \in Boxes
        BY <2>3
      <4>2. \A whole \in BOOLEAN : kept_in(in, m, whole, job[m].key) =>
              /\ DOMAIN mbox'[in] = DOMAIN mbox[in] \cup {m}
              /\ mbox'[in][m] = [whole |-> whole, sealed |-> job[m].key]
        BY <4>1, <1>c, MailKeptIn
      <4> QED BY <4>2, <2>13, Zenon
    <3>3. IsThere(m)'
      <4>1. m \in DOMAIN mbox'[in] /\ mbox'[in][m].whole
        BY <3>2
      <4> QED BY <4>1, <2>1 DEF IsThere, in
    <3>4. ASSUME NEW d \in Mails, d # m, Arrived(d)' PROVE IsThere(d)'
      BY <3>4, <2>7, <2>13, <2>10, <2>3
    <3> QED BY <3>1, <3>3, <3>4
  <2>14. ASSUME NEW whole \in BOOLEAN, kept_in(out, m, whole, mkey[job[m].from]), job[m].at \in {"stored", "copy"}
         PROVE  (\A d \in Mails : Arrived(d) => IsThere(d))' /\ OpensForOwner'
    <3>1. OpensForOwner'
      BY <2>14, <2>2, <2>3, <1>b, <1>c, StillOpens
    <3>2. \A d \in Mails : Arrived(d)' => Arrived(d)
      BY <2>14, <2>7 DEF Arrived
    <3>3. ASSUME NEW d \in Mails, Arrived(d)' PROVE IsThere(d)'
      BY <3>2, <3>3, <2>14, <2>10, <2>3, <2>8
    <3> QED BY <3>1, <3>3
  <2> QED BY <2>4, <2>11, <2>12, <2>13, <2>14
<1>6. ASSUME NEW n \in MailNodes, NEW m \in Mails, ReadMail(n, m) PROVE (\A d \in Mails : Arrived(d) => IsThere(d))' /\ OpensForOwner'
  BY <1>6, <1>a, <1>b DEF ReadMail, Arrived, IsThere, OpensForOwner
<1>7. ASSUME NEW n \in MailNodes, NEW m \in Mails, DeleteMail(n, m)
      PROVE  (\A d \in Mails : Arrived(d) => IsThere(d))' /\ OpensForOwner'
  <2> DEFINE folder == IF m \in DOMAIN mbox[<<n, "inbox">>] THEN "inbox" ELSE "sent"
             box == <<n, folder>>
  <2>1. box \in Boxes
    BY <1>g
  <2>2. /\ mbox' = [mbox EXCEPT ![box] = [x \in DOMAIN @ \ {m} |-> @[x]]]
        /\ deleted' = deleted \cup {<<n, folder, m>>}
        /\ job' = job
    BY <1>7 DEF DeleteMail
  <2>3. /\ \A c \in Boxes : c # box => mbox'[c] = mbox[c]
        /\ DOMAIN mbox'[box] = DOMAIN mbox[box] \ {m}
        /\ \A x \in DOMAIN mbox[box] : x # m => mbox'[box][x] = mbox[box][x]
    BY <2>1, <2>2, <1>c DEF MailTyped
  <2>4. OpensForOwner'
    BY <2>3, <1>b DEF OpensForOwner
  <2>5. ASSUME NEW d \in Mails, Arrived(d) PROVE IsThere(d)'
    <3> DEFINE its == <<job[d].to, "inbox">>
    <3>1. its \in Boxes
      BY <2>5, <1>e, <1>g DEF Arrived
    <3>2. CASE <<job[d].to, "inbox", d>> \in deleted
      BY <3>2, <2>2 DEF IsThere
    <3>3. CASE d \in DOMAIN mbox[its] /\ mbox[its][d].whole /\ its = box /\ d = m
      <4>1. job[d].to = n /\ folder = "inbox"
        BY <3>3
      <4> QED BY <4>1, <3>3, <2>2 DEF IsThere
    <3>4. CASE d \in DOMAIN mbox[its] /\ mbox[its][d].whole /\ ~(its = box /\ d = m)
      <4>1. d \in DOMAIN mbox'[its] /\ mbox'[its][d].whole
        BY <3>1, <3>4, <2>1, <2>3
      <4> QED BY <4>1, <2>2 DEF IsThere
    <3> QED BY <2>5, <3>2, <3>3, <3>4, <1>a DEF IsThere
  <2>6. \A d \in Mails : Arrived(d)' => Arrived(d)
    BY <2>2 DEF Arrived
  <2> QED BY <2>4, <2>5, <2>6
<1> QED BY <1>1, <1>2, <1>3, <1>4, <1>5, <1>6, <1>7 DEF MlNext

\* The mail invariant is inductive.
LEMMA MailInductive ==
  ASSUME MailInv, [MlNext]_mlVars
  PROVE  MailInv'
PROOF
<1>1. CASE MlNext
  <2>1. MailTyped'
    BY <1>1, MailTypes DEF MailInv
  <2>2. KeysWhole'
    BY <1>1, KeysStep DEF MailInv
  <2>3. (\A m \in Mails : Arrived(m) => IsThere(m))' /\ OpensForOwner'
    BY <1>1, MailStep
  <2>4. StoredIsThere' /\ MailKept'
    BY <2>3 DEF StoredIsThere, MailKept, Arrived, IsThere, OpensForOwner
  <2> QED BY <2>1, <2>2, <2>4 DEF MailInv
<1>2. CASE UNCHANGED mlVars
  BY <1>2 DEF mlVars, MailInv, MailTyped, KeysWhole, StoredIsThere, MailKept
<1> QED BY <1>1, <1>2

(* A mail its sender was told is sent is whole in the recipient's inbox and    *)
(* opens with the recipient's key, unless the owner deleted it, and every      *)
(* whole copy opens with its owner's key (api_send_mail, api_deliver,          *)
(* make_sender_copy), for any servers, mails and number of stops.              *)
THEOREM MailIsKept == MlSpec => []MailKept
PROOF
<1>1. MlInit => MailInv
  <2> SUFFICES ASSUME MlInit PROVE MailInv
    OBVIOUS
  <2>1. \A m \in Mails : job[m] = NoJob /\ job[m].at = "none" /\ job[m].from = ""
    BY DEF MlInit, NoJob
  <2>2. NoJob \in AnyJob
    BY DEF NoJob, AnyJob
  <2>3. MailTyped
    BY <2>2 DEF MlInit, MailTyped
  <2>4. KeysWhole
    BY <2>1 DEF MlInit, KeysWhole
  <2>5. StoredIsThere /\ MailKept
    <3>1. \A b \in Boxes : DOMAIN mbox[b] = {}
      BY DEF MlInit
    <3> QED BY <2>1, <3>1 DEF StoredIsThere, MailKept
  <2> QED BY <2>3, <2>4, <2>5 DEF MailInv
<1>2. MailInv => MailKept
  BY DEF MailInv
<1> QED BY <1>1, <1>2, MailInductive, PTL DEF MlSpec

-----------------------------------------------------------------------------
(* HidraChat.                                                                *)

Steps == {"out", "open", "welcome", "announce", "main", "leave", "reap"}

\* The invariant, fact by fact.
LEMMA ChatFacts ==
  ASSUME ChatInv
  PROVE  /\ roomsMade \in 0..MaxRoomsMade /\ crooms \in [RoomNames -> 0..roomsMade]
         /\ members \in [Made -> SUBSET ChatConns] /\ at_chat \in [ChatConns -> Steps] /\ DOMAIN in_room = ChatConns
         /\ \A c \in ChatConns : OfARoom(c) => room_of(c) \in 1..roomsMade /\ in_room[c].name \in RoomNames
         /\ \A r, s \in RoomNames : crooms[r] = crooms[s] /\ crooms[r] # 0 => r = s
         /\ \A c \in ChatConns, r \in RoomNames : OfARoom(c) /\ crooms[r] = room_of(c) => r = in_room[c].name
         /\ \A c \in ChatConns : InARoom(c) => c \in members[room_of(c)] /\ crooms[in_room[c].name] = room_of(c)
         /\ \A c, d \in ChatConns : InARoom(c) /\ InARoom(d) /\ in_room[c] = in_room[d] => c = d
         /\ \A r \in RoomNames : crooms[r] # 0 /\ members[crooms[r]] = {} =>
               \E c \in ChatConns : at_chat[c] = "reap" /\ room_of(c) = crooms[r]
         /\ \A i \in Made : members[i] = {c \in ChatConns : InARoom(c) /\ room_of(c) = i}
BY DEF ChatInv, ChatTyped, RoomsOfOneName, ChatSound, Steps

\* A step that moves connections but neither into nor out of a room.
LEMMA RoomsAsTheyWere ==
  ASSUME ChatInv, UNCHANGED <<crooms, members, in_room, roomsMade>>, at_chat' \in [ChatConns -> Steps],
         \A c \in ChatConns : at_chat'[c] = at_chat[c] \/ {at_chat[c], at_chat'[c]} \subseteq {"out", "open"}
                              \/ {at_chat[c], at_chat'[c]} \subseteq {"welcome", "announce", "main", "leave"}
  PROVE  ChatInv'
PROOF
<1>1. \A c \in ChatConns : /\ (InARoom(c)' <=> InARoom(c)) /\ (OfARoom(c)' <=> OfARoom(c))
                           /\ (at_chat'[c] = "reap" <=> at_chat[c] = "reap") /\ room_of(c)' = room_of(c)
  BY DEF InARoom, OfARoom, room_of
<1>2. ChatTyped'
  BY <1>1, ChatFacts DEF ChatTyped, Steps
<1>3. RoomsOfOneName'
  BY <1>1, ChatFacts DEF RoomsOfOneName
<1>4. ChatSound'
  <2>1. (\A c \in ChatConns : InARoom(c) => c \in members[room_of(c)] /\ crooms[in_room[c].name] = room_of(c))'
    BY <1>1, ChatFacts
  <2>2. (\A c, d \in ChatConns : InARoom(c) /\ InARoom(d) /\ in_room[c] = in_room[d] => c = d)'
    BY <1>1, ChatFacts
  <2>3. (\A r \in RoomNames : crooms[r] # 0 /\ members[crooms[r]] = {} =>
           \E c \in ChatConns : at_chat[c] = "reap" /\ room_of(c) = crooms[r])'
    BY <1>1, ChatFacts
  <2>4. (\A i \in Made : members[i] = {c \in ChatConns : InARoom(c) /\ room_of(c) = i})'
    BY <1>1, ChatFacts
  <2> QED BY <2>1, <2>2, <2>3, <2>4 DEF ChatSound
<1> QED BY <1>2, <1>3, <1>4 DEF ChatInv

\* Every room of the map or of a connection was made.
LEMMA RoomsWereMade ==
  ASSUME ChatInv
  PROVE  /\ \A i \in 1..roomsMade : i \in Made
         /\ \A d \in ChatConns : OfARoom(d) => room_of(d) \in Made
         /\ \A r \in RoomNames : crooms[r] # 0 => crooms[r] \in Made
PROOF
<1>1. roomsMade \in 0..MaxRoomsMade /\ MaxRoomsMade \in Nat
  BY ChatFacts, ChatConstants
<1>2. \A i \in 1..roomsMade : i \in Made
  BY <1>1 DEF Made
<1>3. \A r \in RoomNames : crooms[r] \in 0..roomsMade
  BY ChatFacts
<1>4. \A r \in RoomNames : crooms[r] # 0 => crooms[r] \in 1..roomsMade
  BY <1>1, <1>3
<1>5. \A d \in ChatConns : OfARoom(d) => room_of(d) \in 1..roomsMade
  BY ChatFacts
<1> QED BY <1>2, <1>4, <1>5

\* A connection leaves its room, which stays on the map for it to forget.
LEMMA LeavesRoom ==
  ASSUME ChatInv, NEW c \in ChatConns, InARoom(c), to_step(c, "reap"),
         members' = [members EXCEPT ![room_of(c)] = @ \ {c}], UNCHANGED <<crooms, in_room, roomsMade>>
  PROVE  ChatInv'
PROOF
<1>a. room_of(c) \in Made
  BY RoomsWereMade DEF OfARoom
<1>1. at_chat' \in [ChatConns -> Steps] /\ at_chat'[c] = "reap" /\ \A d \in ChatConns : d # c => at_chat'[d] = at_chat[d]
  BY ChatFacts DEF to_step, Steps
<1>2. \A d \in ChatConns : /\ (InARoom(d)' <=> InARoom(d) /\ d # c) /\ (OfARoom(d)' <=> OfARoom(d))
                           /\ room_of(d)' = room_of(d)
  BY <1>1 DEF InARoom, OfARoom, room_of
<1>3. /\ members' \in [Made -> SUBSET ChatConns]
      /\ \A i \in Made : members'[i] = members[i] \ {c} \/ (i # room_of(c) /\ members'[i] = members[i])
      /\ \A i \in Made : i # room_of(c) => members'[i] = members[i]
  BY <1>a, ChatFacts
<1>4. ChatTyped'
  BY <1>1, <1>2, <1>3, ChatFacts DEF ChatTyped, Steps
<1>5. RoomsOfOneName'
  BY <1>2, ChatFacts DEF RoomsOfOneName
<1>6. (\A d \in ChatConns : InARoom(d) => d \in members[room_of(d)] /\ crooms[in_room[d].name] = room_of(d))'
  <2>1. \A d \in ChatConns : InARoom(d) => room_of(d) \in Made /\ d \in members[room_of(d)]
    BY ChatFacts, RoomsWereMade DEF OfARoom
  <2> QED BY <2>1, <1>2, <1>3, ChatFacts
<1>7. (\A d, e \in ChatConns : InARoom(d) /\ InARoom(e) /\ in_room[d] = in_room[e] => d = e)'
  BY <1>2, ChatFacts
<1>8. ASSUME NEW r \in RoomNames, crooms[r] # 0, members'[crooms[r]] = {}
      PROVE  \E d \in ChatConns : at_chat'[d] = "reap" /\ room_of(d)' = crooms[r]
  <2>1. CASE crooms[r] = room_of(c)
    BY <2>1, <1>1, <1>2
  <2>2. CASE crooms[r] # room_of(c)
    <3>1. crooms[r] \in Made
      BY <1>8, RoomsWereMade
    <3>2. members[crooms[r]] = {}
      BY <1>3, <1>8, <2>2, <3>1
    <3>3. PICK d \in ChatConns : at_chat[d] = "reap" /\ room_of(d) = crooms[r]
      BY <3>2, <1>8, ChatFacts
    <3>4. d # c
      BY <3>3 DEF InARoom
    <3> QED BY <3>3, <3>4, <1>1, <1>2
  <2> QED BY <2>1, <2>2
<1>9. (\A i \in Made : members[i] = {d \in ChatConns : InARoom(d) /\ room_of(d) = i})'
  <2>1. \A i \in Made, d \in ChatConns : d \in members[i] <=> InARoom(d) /\ room_of(d) = i
    BY ChatFacts
  <2>2. \A i \in Made, d \in ChatConns : d \in members'[i] <=> InARoom(d)' /\ room_of(d)' = i
    BY <2>1, <1>2, <1>3
  <2>3. \A i \in Made : members'[i] \subseteq ChatConns
    BY <1>3
  <2> QED BY <2>2, <2>3
<1>10. ChatSound'
  BY <1>6, <1>7, <1>8, <1>9 DEF ChatSound
<1> QED BY <1>4, <1>5, <1>10 DEF ChatInv

\* Rooms that nobody is in are forgotten, by one that had left its room or by one
\* that was not let in.
LEMMA RoomForgotten ==
  ASSUME ChatInv, UNCHANGED <<members, roomsMade>>, at_chat' \in [ChatConns -> Steps],
         DOMAIN in_room' = ChatConns, crooms' \in [RoomNames -> 0..roomsMade],
         \A r \in RoomNames : crooms'[r] = crooms[r] \/ (crooms'[r] = 0 /\ (crooms[r] = 0 \/ members[crooms[r]] = {})),
         \A d \in ChatConns : /\ InARoom(d)' <=> InARoom(d)
                              /\ OfARoom(d)' => OfARoom(d) /\ in_room'[d] = in_room[d],
         \A r \in RoomNames : crooms'[r] # 0 /\ members[crooms[r]] = {} =>
           \E d \in ChatConns : at_chat'[d] = "reap" /\ room_of(d) = crooms[r]
  PROVE  ChatInv'
PROOF
<1>1. \A d \in ChatConns : (InARoom(d) \/ OfARoom(d)') => OfARoom(d)' /\ in_room'[d] = in_room[d] /\ room_of(d)' = room_of(d)
  BY DEF OfARoom, room_of
<1>2. \A r \in RoomNames : crooms'[r] # 0 => crooms'[r] = crooms[r]
  OBVIOUS
<1>3. ChatTyped'
  BY <1>1, ChatFacts DEF ChatTyped, Steps
<1>4. RoomsOfOneName'
  <2>1. \A d \in ChatConns : OfARoom(d)' => OfARoom(d) /\ room_of(d) # 0
    BY ChatFacts
  <2> QED BY <1>1, <1>2, <2>1, ChatFacts DEF RoomsOfOneName
<1>5. ASSUME NEW d \in ChatConns, InARoom(d)'
      PROVE  d \in members'[room_of(d)'] /\ crooms'[in_room'[d].name] = room_of(d)'
  <2>1. /\ InARoom(d) /\ room_of(d)' = room_of(d) /\ in_room'[d] = in_room[d]
        /\ d \in members[room_of(d)] /\ crooms[in_room[d].name] = room_of(d) /\ in_room[d].name \in RoomNames
    BY <1>1, <1>5, ChatFacts DEF OfARoom
  <2> QED BY <2>1
<1>6. (\A d, e \in ChatConns : InARoom(d) /\ InARoom(e) /\ in_room[d] = in_room[e] => d = e)'
  BY <1>1, ChatFacts
<1>7. (\A r \in RoomNames : crooms[r] # 0 /\ members[crooms[r]] = {} =>
         \E d \in ChatConns : at_chat[d] = "reap" /\ room_of(d) = crooms[r])'
  <2>1. \A d \in ChatConns : at_chat'[d] = "reap" => room_of(d)' = room_of(d)
    BY <1>1 DEF OfARoom
  <2> QED BY <1>2, <2>1
<1>8. (\A i \in Made : members[i] = {d \in ChatConns : InARoom(d) /\ room_of(d) = i})'
  <2>1. \A i \in Made, d \in ChatConns : d \in members[i] <=> InARoom(d) /\ room_of(d) = i
    BY ChatFacts
  <2>2. \A i \in Made, d \in ChatConns : d \in members'[i] <=> InARoom(d)' /\ room_of(d)' = i
    BY <2>1, <1>1
  <2>3. \A i \in Made : members'[i] \subseteq ChatConns
    BY ChatFacts
  <2> QED BY <2>2, <2>3
<1>9. ChatSound'
  BY <1>5, <1>6, <1>7, <1>8 DEF ChatSound
<1> QED BY <1>3, <1>4, <1>9 DEF ChatInv

\* A connection that is in no room joins the room of a name, or makes it.
LEMMA JoinsRoom ==
  ASSUME ChatInv, NEW c \in ChatConns, NEW r \in RoomNames, NEW n \in Nicks, Join(c, r, n)
  PROVE  ChatInv'
PROOF
<1> DEFINE new == crooms[r] = 0
           i == IF new THEN roomsMade + 1 ELSE crooms[r]
<1>a. at_chat[c] = "open" /\ takes_nick(r, n) /\ (new => roomsMade < MaxRoomsMade)
  BY DEF Join
<1>b. /\ crooms' = [crooms EXCEPT ![r] = i] /\ members' = [members EXCEPT ![i] = @ \cup {c}]
      /\ in_room' = [in_room EXCEPT ![c] = [room |-> i, name |-> r, nick |-> n]]
      /\ roomsMade' = IF new THEN i ELSE roomsMade
      /\ at_chat' = [at_chat EXCEPT ![c] = "welcome"]
  BY DEF Join, to_step
<1>c. roomsMade \in 0..MaxRoomsMade /\ MaxRoomsMade \in Nat /\ crooms[r] \in 0..roomsMade
  BY ChatFacts, ChatConstants
<1>d. /\ i \in Made /\ i \in 1..roomsMade' /\ i # 0 /\ roomsMade' \in 0..MaxRoomsMade
      /\ roomsMade' >= roomsMade /\ (new => i > roomsMade)
  BY <1>a, <1>b, <1>c DEF Made
<1>e. (\A s \in RoomNames : crooms[s] \in 0..roomsMade) /\ \A d \in ChatConns : OfARoom(d) => room_of(d) \in 1..roomsMade
  BY ChatFacts
<1>f. new => (\A s \in RoomNames : crooms[s] # i) /\ (\A d \in ChatConns : OfARoom(d) => room_of(d) # i)
  BY <1>c, <1>d, <1>e
<1>g. ~InARoom(c) /\ ~OfARoom(c)
  BY <1>a DEF InARoom, OfARoom
<1>h. ~new => i = crooms[r]
  OBVIOUS
<1> HIDE DEF new, i
<1>1. at_chat' \in [ChatConns -> Steps] /\ at_chat'[c] = "welcome" /\ \A d \in ChatConns : d # c => at_chat'[d] = at_chat[d]
  BY <1>b, ChatFacts DEF Steps
<1>2. /\ DOMAIN in_room' = ChatConns /\ in_room'[c] = [room |-> i, name |-> r, nick |-> n]
      /\ \A d \in ChatConns : d # c => in_room'[d] = in_room[d]
  BY <1>b, ChatFacts
<1>3. /\ InARoom(c)' /\ OfARoom(c)' /\ room_of(c)' = i /\ in_room'[c].name = r /\ in_room'[c].nick = n
      /\ \A d \in ChatConns : d # c =>
           (InARoom(d)' <=> InARoom(d)) /\ (OfARoom(d)' <=> OfARoom(d)) /\ room_of(d)' = room_of(d)
  BY <1>1, <1>2 DEF InARoom, OfARoom, room_of
<1>4. /\ DOMAIN crooms' = RoomNames /\ crooms'[r] = i /\ \A s \in RoomNames : s # r => crooms'[s] = crooms[s]
  BY <1>b, ChatFacts
<1>5. /\ members' \in [Made -> SUBSET ChatConns] /\ members'[i] = members[i] \cup {c}
      /\ \A j \in Made : j # i => members'[j] = members[j]
  BY <1>b, <1>d, ChatFacts
<1>6. ChatTyped'
  <2>1. \A s \in RoomNames : crooms'[s] \in 0..roomsMade'
    BY <1>c, <1>d, <1>e, <1>4
  <2>2. crooms' \in [RoomNames -> 0..roomsMade']
    BY <1>b, <2>1, ChatFacts
  <2>3. \A d \in ChatConns : OfARoom(d)' => room_of(d)' \in 1..roomsMade'
    BY <1>c, <1>d, <1>e, <1>3
  <2>4. \A d \in ChatConns : OfARoom(d)' => in_room'[d].name \in RoomNames
    BY <1>2, <1>3, ChatFacts
  <2> QED BY <1>1, <1>2, <1>5, <1>d, <2>2, <2>3, <2>4 DEF ChatTyped, Steps
<1>7. RoomsOfOneName'
  <2>1. \A s \in RoomNames : s # r => crooms[s] # i \/ crooms[s] = 0
    BY <1>f, <1>h, ChatFacts DEF new
  <2>2. \A s, t \in RoomNames : crooms'[s] = crooms'[t] /\ crooms'[s] # 0 => s = t
    BY <1>4, <1>d, <2>1, ChatFacts
  <2>3. \A d \in ChatConns : d # c /\ OfARoom(d) /\ room_of(d) = i => in_room[d].name = r
    BY <1>f, <1>h, ChatFacts
  <2>4. ASSUME NEW d \in ChatConns, NEW s \in RoomNames, OfARoom(d)', crooms'[s] = room_of(d)' PROVE s = in_room'[d].name
    <3>1. CASE d = c
      BY <3>1, <2>4, <1>3, <1>4, <2>1, <1>d
    <3>2. CASE d # c /\ s = r
      BY <3>2, <2>4, <1>2, <1>3, <1>4, <2>3
    <3>3. CASE d # c /\ s # r
      BY <3>3, <2>4, <1>2, <1>3, <1>4, ChatFacts
    <3> QED BY <3>1, <3>2, <3>3
  <2> QED BY <2>2, <2>4 DEF RoomsOfOneName
<1>8. ASSUME NEW d \in ChatConns, InARoom(d)'
      PROVE  d \in members'[room_of(d)'] /\ crooms'[in_room'[d].name] = room_of(d)'
  <2>1. CASE d = c
    BY <2>1, <1>3, <1>4, <1>5
  <2>2. CASE d # c
    <3>1. /\ OfARoom(d) /\ room_of(d) \in Made /\ d \in members[room_of(d)] /\ in_room[d].name \in RoomNames
          /\ crooms[in_room[d].name] = room_of(d)
      BY <2>2, <1>8, <1>3, ChatFacts, RoomsWereMade DEF OfARoom
    <3>2. d \in members'[room_of(d)]
      BY <3>1, <1>5
    <3>3. in_room[d].name = r => room_of(d) = i
      <4>1. room_of(d) # 0
        BY <3>1, <1>c, <1>e
      <4> QED BY <4>1, <3>1, <1>h DEF new
    <3> QED BY <2>2, <3>1, <3>2, <3>3, <1>2, <1>3, <1>4
  <2> QED BY <2>1, <2>2
<1>9. \A d \in ChatConns : InARoom(d) /\ room_of(d) = i => in_room[d].nick # n
  <2>1. ASSUME NEW d \in ChatConns, InARoom(d), room_of(d) = i PROVE in_room[d].nick # n
    <3>1. ~new
      BY <2>1, <1>f DEF OfARoom
    <3>2. d \in there(r)
      BY <2>1, <3>1, <1>h, ChatFacts DEF there, new
    <3> QED BY <3>2, <1>a DEF takes_nick
  <2> QED BY <2>1
<1>10. ASSUME NEW d \in ChatConns, NEW e \in ChatConns, InARoom(d)', InARoom(e)', in_room'[d] = in_room'[e] PROVE d = e
  <2>1. ASSUME NEW x \in ChatConns, x # c, InARoom(x)', in_room'[x] = in_room'[c] PROVE FALSE
    <3>1. InARoom(x) /\ room_of(x) = i /\ in_room[x].nick = n
      BY <2>1, <1>2, <1>3 DEF room_of
    <3> QED BY <3>1, <1>9
  <2>2. CASE d # c /\ e # c
    BY <2>2, <1>10, <1>2, <1>3, ChatFacts
  <2> QED BY <2>1, <2>2, <1>10
<1>11. ASSUME NEW s \in RoomNames, crooms'[s] # 0, members'[crooms'[s]] = {}
       PROVE  \E d \in ChatConns : at_chat'[d] = "reap" /\ room_of(d)' = crooms'[s]
  <2>1. crooms'[s] # i
    BY <1>11, <1>5
  <2>2. s # r /\ crooms[s] = crooms'[s]
    BY <2>1, <1>4
  <2>3. crooms[s] \in Made
    BY <1>11, <2>2, RoomsWereMade
  <2>4. members[crooms[s]] = {}
    BY <1>11, <1>5, <2>1, <2>2, <2>3
  <2>5. PICK d \in ChatConns : at_chat[d] = "reap" /\ room_of(d) = crooms[s]
    BY <1>11, <2>2, <2>4, ChatFacts
  <2>6. d # c
    BY <2>5, <1>a
  <2> QED BY <2>2, <2>5, <2>6, <1>1, <1>3
<1>12. (\A j \in Made : members[j] = {d \in ChatConns : InARoom(d) /\ room_of(d) = j})'
  <2>1. \A j \in Made, d \in ChatConns : d \in members[j] <=> InARoom(d) /\ room_of(d) = j
    BY ChatFacts
  <2>2. \A j \in Made, d \in ChatConns : d \in members'[j] <=> InARoom(d)' /\ room_of(d)' = j
    BY <2>1, <1>3, <1>5, <1>d, <1>g
  <2>3. \A j \in Made : members'[j] \subseteq ChatConns
    BY <1>5
  <2> QED BY <2>2, <2>3
<1>13. ChatSound'
  BY <1>8, <1>10, <1>11, <1>12 DEF ChatSound
<1> QED BY <1>6, <1>7, <1>13 DEF ChatInv

\* The chat's invariant is inductive.
LEMMA ChatInductive ==
  ASSUME ChatInv, [ChNext]_chVars
  PROVE  ChatInv'
PROOF
<1>a. at_chat \in [ChatConns -> Steps]
  BY ChatFacts
<1>1. ASSUME NEW c \in ChatConns, OpenChat(c) \/ TurnedAway(c) \/ Welcome(c) \/ Announce(c) \/ LeaveMain(c) PROVE ChatInv'
  <2>1. UNCHANGED <<crooms, members, in_room, roomsMade>>
    BY <1>1 DEF OpenChat, TurnedAway, Welcome, Announce, LeaveMain, same_rest
  <2>2. PICK s \in Steps : at_chat' = [at_chat EXCEPT ![c] = s] /\
           ({at_chat[c], s} \subseteq {"out", "open"} \/ {at_chat[c], s} \subseteq {"welcome", "announce", "main", "leave"})
    BY <1>1 DEF OpenChat, TurnedAway, Welcome, Announce, LeaveMain, to_step, Steps
  <2> QED BY <2>1, <2>2, <1>a, RoomsAsTheyWere
<1>2. ASSUME NEW c \in ChatConns, Say(c) \/ Broadcast(c) \/ ReadBroadcast(c) PROVE ChatInv'
  <2>1. UNCHANGED <<crooms, members, in_room, roomsMade, at_chat>>
    BY <1>2 DEF Say, Broadcast, ReadBroadcast, same_rest
  <2> QED BY <2>1, <1>a, RoomsAsTheyWere
<1>3. CASE UNCHANGED chVars
  BY <1>3, <1>a, RoomsAsTheyWere DEF chVars
<1>4. ASSUME NEW c \in ChatConns, WelcomeFails(c) \/ Cleanup(c) PROVE ChatInv'
  BY <1>4, LeavesRoom DEF WelcomeFails, Cleanup, InARoom, same_rest
<1>5. ASSUME NEW c \in ChatConns, Reap(c) PROVE ChatInv'
  <2> DEFINE name == in_room[c].name
  <2>1. /\ at_chat[c] = "reap" /\ at_chat' = [at_chat EXCEPT ![c] = "out"]
        /\ crooms' = [crooms EXCEPT ![name] = IF reap_room(c) THEN 0 ELSE @]
        /\ in_room' = [in_room EXCEPT ![c] = NoRoom] /\ UNCHANGED <<members, roomsMade>>
    BY <1>5 DEF Reap, to_step, same_rest
  <2>2. OfARoom(c) /\ name \in RoomNames
    BY <2>1, ChatFacts DEF OfARoom
  <2>3. /\ at_chat' \in [ChatConns -> Steps] /\ at_chat'[c] = "out"
        /\ \A d \in ChatConns : d # c => at_chat'[d] = at_chat[d] /\ in_room'[d] = in_room[d]
        /\ DOMAIN in_room' = ChatConns
    BY <2>1, ChatFacts DEF Steps
  <2>4. \A d \in ChatConns : (InARoom(d)' <=> InARoom(d)) /\ (OfARoom(d)' => OfARoom(d) /\ in_room'[d] = in_room[d])
    BY <2>1, <2>3 DEF InARoom, OfARoom
  <2>5. /\ \A s \in RoomNames : s # name => crooms'[s] = crooms[s]
        /\ crooms'[name] = IF reap_room(c) THEN 0 ELSE crooms[name]
        /\ DOMAIN crooms' = RoomNames
    BY <2>1, <2>2, ChatFacts
  <2>6. \A s \in RoomNames : crooms'[s] = crooms[s] \/ (crooms'[s] = 0 /\ (crooms[s] = 0 \/ members[crooms[s]] = {}))
    BY <2>5 DEF reap_room
  <2>7. crooms' \in [RoomNames -> 0..roomsMade]
    <3>1. roomsMade \in 0..MaxRoomsMade /\ crooms \in [RoomNames -> 0..roomsMade]
      BY ChatFacts
    <3>2. 0 \in 0..roomsMade
      BY <3>1
    <3> QED BY <2>1, <3>1, <3>2
  <2>8. ASSUME NEW s \in RoomNames, crooms'[s] # 0, members[crooms[s]] = {}
        PROVE  \E d \in ChatConns : at_chat'[d] = "reap" /\ room_of(d) = crooms[s]
    <3>1. crooms[s] # 0
      BY <2>6, <2>8
    <3>2. PICK d \in ChatConns : at_chat[d] = "reap" /\ room_of(d) = crooms[s]
      BY <2>8, <3>1, ChatFacts
    <3>3. d # c
      <4>1. ASSUME d = c PROVE FALSE
        <5>1. s = name
          BY <4>1, <3>2, <2>2, ChatFacts
        <5> QED BY <4>1, <5>1, <3>2, <2>5, <2>8 DEF reap_room
      <4> QED BY <4>1
    <3> QED BY <3>2, <3>3, <2>3
  <2> QED BY <2>1, <2>3, <2>4, <2>6, <2>7, <2>8, RoomForgotten
<1>6. ASSUME NEW c \in ChatConns, NEW r \in RoomNames, NEW n \in Nicks, NotTaken(c, r, n) PROVE ChatInv'
  <2>1. /\ at_chat[c] = "open" /\ at_chat' = [at_chat EXCEPT ![c] = "out"]
        /\ crooms' = [crooms EXCEPT ![r] = IF there(r) = {} THEN 0 ELSE @]
        /\ UNCHANGED <<members, roomsMade, in_room>>
    BY <1>6 DEF NotTaken, to_step, same_rest
  <2>2. /\ at_chat' \in [ChatConns -> Steps] /\ at_chat'[c] = "out"
        /\ \A d \in ChatConns : d # c => at_chat'[d] = at_chat[d]
        /\ DOMAIN in_room' = ChatConns
    BY <2>1, ChatFacts DEF Steps
  <2>3. \A d \in ChatConns : (InARoom(d)' <=> InARoom(d)) /\ (OfARoom(d)' => OfARoom(d) /\ in_room'[d] = in_room[d])
    BY <2>1, <2>2 DEF InARoom, OfARoom
  <2>4. \A s \in RoomNames : crooms'[s] = crooms[s] \/ (crooms'[s] = 0 /\ (crooms[s] = 0 \/ members[crooms[s]] = {}))
    BY <2>1, ChatFacts DEF there
  <2>5. crooms' \in [RoomNames -> 0..roomsMade]
    <3>1. roomsMade \in 0..MaxRoomsMade /\ crooms \in [RoomNames -> 0..roomsMade]
      BY ChatFacts
    <3>2. 0 \in 0..roomsMade
      BY <3>1
    <3> QED BY <2>1, <3>1, <3>2
  <2>6. ASSUME NEW s \in RoomNames, crooms'[s] # 0, members[crooms[s]] = {}
        PROVE  \E d \in ChatConns : at_chat'[d] = "reap" /\ room_of(d) = crooms[s]
    <3>1. crooms[s] # 0
      BY <2>4, <2>6
    <3>2. PICK d \in ChatConns : at_chat[d] = "reap" /\ room_of(d) = crooms[s]
      BY <2>6, <3>1, ChatFacts
    <3> QED BY <3>2, <2>1, <2>2
  <2> QED BY <2>1, <2>2, <2>3, <2>4, <2>5, <2>6, RoomForgotten
<1> QED BY <1>1, <1>2, <1>3, <1>4, <1>5, <1>6, JoinsRoom DEF ChNext

(* Whoever is in a room is in the room its name leads to, one nickname is one  *)
(* member, a room's users are the connections in it, and an empty room is about*)
(* to be forgotten (handle_conn, cleanup, reap_room), for any number of        *)
(* connections, names and rooms, and any limit of members.                     *)
THEOREM ChatIsSound == ChSpec => []ChatSound
PROOF
<1>1. ChInit => ChatInv
  <2> SUFFICES ASSUME ChInit PROVE ChatInv
    OBVIOUS
  <2>1. \A c \in ChatConns : at_chat[c] = "out" /\ ~InARoom(c) /\ ~OfARoom(c)
    BY DEF ChInit, InARoom, OfARoom
  <2>2. ChatTyped
    BY <2>1, ChatConstants DEF ChInit, ChatTyped
  <2>3. RoomsOfOneName
    BY <2>1 DEF ChInit, RoomsOfOneName
  <2>4. ChatSound
    BY <2>1 DEF ChInit, ChatSound
  <2> QED BY <2>2, <2>3, <2>4 DEF ChatInv
<1>2. ChatInv => ChatSound
  BY DEF ChatInv
<1> QED BY <1>1, <1>2, ChatInductive, PTL DEF ChSpec
-----------------------------------------------------------------------------
(* The sessions behind an introduction relay.                                *)

\* What a queue holds after its head is taken, or something put at its end.
LEMMA QueueTail ==
  ASSUME NEW S, NEW q \in Seq(S), q # <<>>
  PROVE  /\ Head(q) \in InQueue(q) /\ Head(q) \in S /\ Tail(q) \in Seq(S)
         /\ InQueue(Tail(q)) \subseteq InQueue(q)
PROOF
<1>1. Head(q) = q[1] /\ 1 \in DOMAIN q /\ Tail(q) \in Seq(S)
  OBVIOUS
<1>2. ASSUME NEW i \in DOMAIN Tail(q) PROVE Tail(q)[i] = q[i + 1] /\ i + 1 \in DOMAIN q
  OBVIOUS
<1> QED BY <1>1, <1>2 DEF InQueue

\* What a queue holds once something is put at its end.
LEMMA AppendGives ==
  ASSUME NEW S, NEW q \in Seq(S), NEW m \in S
  PROVE  /\ Append(q, m) \in Seq(S) /\ DOMAIN Append(q, m) = DOMAIN q \cup {Len(q) + 1}
         /\ Append(q, m)[Len(q) + 1] = m /\ \A i \in DOMAIN q : Append(q, m)[i] = q[i]
PROOF
<1>1. Append(q, m) \in Seq(S) /\ Len(Append(q, m)) = Len(q) + 1
  OBVIOUS
<1>2. DOMAIN Append(q, m) = DOMAIN q \cup {Len(q) + 1}
  OBVIOUS
<1>3. Append(q, m)[Len(q) + 1] = m
  OBVIOUS
<1>4. \A i \in DOMAIN q : Append(q, m)[i] = q[i]
  OBVIOUS
<1> QED BY <1>1, <1>2, <1>3, <1>4

LEMMA QueueAppend ==
  ASSUME NEW S, NEW q \in Seq(S), NEW m \in S
  PROVE  Append(q, m) \in Seq(S) /\ InQueue(Append(q, m)) = InQueue(q) \cup {m}
PROOF
<1>1. Append(q, m) \in Seq(S) /\ Len(Append(q, m)) = Len(q) + 1
  OBVIOUS
<1>2. Append(q, m)[Len(q) + 1] = m /\ \A i \in DOMAIN q : Append(q, m)[i] = q[i]
  OBVIOUS
<1>3. DOMAIN Append(q, m) = DOMAIN q \cup {Len(q) + 1}
  OBVIOUS
<1> HIDE DEF InQueue
<1>4. ASSUME NEW x PROVE x \in InQueue(Append(q, m)) <=> x \in InQueue(q) \cup {m}
  BY <1>2, <1>3 DEF InQueue
<1> QED BY <1>1, <1>4

LEMMA EmptyQueue == InQueue(<<>>) = {}
PROOF BY DEF InQueue

\* What may still reach a client, when queues lose heads and gain one message.
LEMMA ReachesClients ==
  ASSUME NEW X,
         \A h \in SvcRuns : InQueue(toRelay'[h]) \subseteq ToClients \cup X,
         \A c \in HsClients : InQueue(toClient'[c]) \subseteq ToClients \cup X
  PROVE  ToClients' \subseteq ToClients \cup X
PROOF
<1> SUFFICES ASSUME NEW m \in ToClients' PROVE m \in ToClients \cup X
  OBVIOUS
<1>1. (\E h \in SvcRuns : m \in InQueue(toRelay'[h])) \/ (\E c \in HsClients : m \in InQueue(toClient'[c]))
  BY DEF ToClients, InQueue
<1> QED BY <1>1

LEMMA InToClients ==
  /\ \A h \in SvcRuns : InQueue(toRelay[h]) \subseteq ToClients
  /\ \A c \in HsClients : InQueue(toClient[c]) \subseteq ToClients
PROOF BY DEF ToClients

LEMMA ToClientsTyped == HsTyped => ToClients \subseteq Message
PROOF
<1> SUFFICES ASSUME HsTyped, NEW m \in ToClients PROVE m \in Message
  OBVIOUS
<1>1. (\E h \in SvcRuns : m \in InQueue(toRelay[h])) \/ (\E c \in HsClients : m \in InQueue(toClient[c]))
  BY DEF ToClients
<1>2. ASSUME NEW h \in SvcRuns, m \in InQueue(toRelay[h]) PROVE m \in Message
  BY <1>2 DEF HsTyped, InQueue
<1>3. ASSUME NEW c \in HsClients, m \in InQueue(toClient[c]) PROVE m \in Message
  BY <1>3 DEF HsTyped, InQueue
<1> QED BY <1>1, <1>2, <1>3

\* The client's side of the invariant is kept while nothing new may reach it.
LEMMA NothingNew ==
  ASSUME HsInv, HsTyped', sessions' = sessions, ToClients' \subseteq ToClients,
         \A c \in HsClients : chan'[c].sid = chan[c].sid /\ replies'[c] = replies[c],
         \A c \in HsClients : att'[c] \in {"new", "sending", "hello"} => att[c] \in {"new", "sending", "hello"}
  PROVE  NumbersApart' /\ RepliesOwn'
PROOF
<1>1. NumbersApart'
  BY DEF HsInv, NumbersApart
<1>2. RepliesOwn'
  BY DEF HsInv, RepliesOwn
<1> QED BY <1>1, <1>2

LEMMA LocalsLeft ==
  ASSUME HsInv, channel' = channel, localc' = localc, sessions' = sessions
  PROVE  LocalsInTurn'
PROOF BY DEF HsInv, LocalsInTurn

\* The service's session and its connection, one run at a time.
LEMMA LocalsOfOne ==
  ASSUME HsInv, NEW h \in SvcRuns, NEW s \in Session, NEW l \in Seq(Nat \X Nat), sessions' \in Nat, sessions <= sessions',
         channel' = [channel EXCEPT ![h] = s], localc' = [localc EXCEPT ![h] = l],
         s.sid <= sessions', s.sid = 0 => s = NoSession /\ l = NoLocal,
         \A i \in DOMAIN l : /\ l[i][1] = s.sid /\ l[i][2] < s.in
                             /\ \A j \in DOMAIN l : i < j => l[i][2] < l[j][2]
  PROVE  LocalsInTurn' /\ channel' \in [SvcRuns -> Session] /\ localc' \in [SvcRuns -> Seq(Nat \X Nat)]
PROOF
<1>1. channel \in [SvcRuns -> Session] /\ localc \in [SvcRuns -> Seq(Nat \X Nat)] /\ sessions \in Nat
  BY DEF HsInv, HsTyped
<1>2. channel'[h] = s /\ localc'[h] = l /\ \A g \in SvcRuns \ {h} : channel'[g] = channel[g] /\ localc'[g] = localc[g]
  BY <1>1
<1>3. ASSUME NEW g \in SvcRuns
      PROVE  /\ channel'[g].sid <= sessions' /\ (channel'[g].sid = 0 => channel'[g] = NoSession /\ localc'[g] = NoLocal)
             /\ \A i \in DOMAIN localc'[g] : /\ localc'[g][i][1] = channel'[g].sid /\ localc'[g][i][2] < channel'[g].in
                                             /\ \A j \in DOMAIN localc'[g] : i < j => localc'[g][i][2] < localc'[g][j][2]
  <2>1. CASE g = h
    BY <2>1, <1>2
  <2>2. CASE g # h
    <3>1. channel'[g] = channel[g] /\ localc'[g] = localc[g]
      BY <2>2, <1>2
    <3>2. /\ channel[g].sid <= sessions /\ (channel[g].sid = 0 => channel[g] = NoSession /\ localc[g] = NoLocal)
          /\ \A i \in DOMAIN localc[g] : /\ localc[g][i][1] = channel[g].sid /\ localc[g][i][2] < channel[g].in
                                         /\ \A j \in DOMAIN localc[g] : i < j => localc[g][i][2] < localc[g][j][2]
      BY DEF HsInv, LocalsInTurn
    <3>3. channel[g].sid \in Nat
      BY <1>1 DEF Session
    <3>4. channel[g].sid <= sessions'
      BY <1>1, <3>2, <3>3
    <3> QED BY <3>1, <3>2, <3>4
  <2> QED BY <2>1, <2>2
<1>4. LocalsInTurn'
  BY <1>3, Zenon DEF LocalsInTurn, NoSession, NoLocal
<1> QED BY <1>1, <1>4

\* A step that leaves the service, the replies and what may reach a client
\* alone: all but the type is kept.
LEMMA NotTheirs ==
  ASSUME HsInv, HsTyped', UNCHANGED <<channel, localc, sessions, toRelay, toClient, replies>>,
         \A c \in HsClients : chan'[c].sid = chan[c].sid,
         \A c \in HsClients : att'[c] \in {"new", "sending", "hello"} => att[c] \in {"new", "sending", "hello"}
  PROVE  HsInv'
PROOF
<1>1. ToClients' = ToClients
  BY DEF ToClients, InQueue
<1>2. NumbersApart' /\ RepliesOwn'
  BY <1>1, NothingNew
<1> QED BY <1>2, LocalsLeft DEF HsInv

LEMMA RelaySteps ==
  ASSUME HsInv, NEW h, NEW c,
         \/ h \in SvcRuns /\ (RegisterService(h) \/ HandlerEnds(h) \/ HandlerTakes(h) \/ \E m \in carried : SaidAgain(h, m))
         \/ c \in HsClients /\ (ConnectService(c) \/ ServiceConnected(c) \/ ClientEnds(c))
         \/ h \in SvcRuns /\ c \in HsClients /\ (BridgeToService(h, c) \/ BridgeEnds(h, c))
  PROVE  HsInv'
PROOF
<1>t. HsTyped
  BY DEF HsInv
<1>e. <<>> \in Seq(Message)
  OBVIOUS
<1>1. CASE RegisterService(h) \/ HandlerEnds(h) \/ HandlerTakes(h)
  <2>1. UNCHANGED <<channel, localc, sessions, toRelay, toSvc, toClient, fromClient, replies, chan, att, carried>>
    BY <1>1 DEF RegisterService, HandlerEnds, HandlerTakes, serviceVars, clientVars, pipeVars, replayVars
  <2>2. HsTyped'
    BY <2>1, <1>t DEF HsTyped
  <2> QED BY <2>1, <2>2, NotTheirs
<1>2. CASE c \in HsClients /\ (ConnectService(c) \/ ClientEnds(c))
  <2>1. UNCHANGED <<channel, localc, sessions, toRelay, toSvc, toClient, fromClient, replies, chan, carried>>
    BY <1>2 DEF ConnectService, ClientEnds, serviceVars, pipeVars, replayVars
  <2>2. att[c] \in {"new", "hello", "open"} /\ \/ att' = [att EXCEPT ![c] = "over"]
                                               \/ att' = [att EXCEPT ![c] = "sending"] /\ att[c] = "new"
    BY <1>2 DEF ConnectService, ClientEnds
  <2>3. HsTyped'
    BY <1>2, <2>1, <2>2, <1>t DEF HsTyped
  <2>4. \A d \in HsClients : att'[d] \in {"new", "sending", "hello"} => att[d] \in {"new", "sending", "hello"}
    BY <2>2, <1>t DEF HsTyped
  <2> QED BY <2>1, <2>3, <2>4, NotTheirs
<1>3. CASE c \in HsClients /\ ServiceConnected(c)
  <2> DEFINE hello == [k |-> "hello", c |-> c, sid |-> 0, n |-> 0, of |-> 0]
  <2>1. UNCHANGED <<channel, localc, sessions, toRelay, toSvc, toClient, replies, chan, carried>>
    BY <1>3 DEF ServiceConnected, serviceVars, replayVars
  <2>2. att[c] = "sending" /\ (att' = [att EXCEPT ![c] = "over"] \/ att' = [att EXCEPT ![c] = "hello"])
    BY <1>3 DEF ServiceConnected
  <2>3. hello \in Message
    BY <1>3 DEF Message
  <2>4. fromClient' = fromClient \/ fromClient' = [fromClient EXCEPT ![c] = <<hello>>]
    BY <1>3 DEF ServiceConnected
  <2> HIDE DEF hello
  <2>5. <<hello>> \in Seq(Message)
    BY <2>3
  <2>6. HsTyped'
    BY <1>3, <2>1, <2>2, <2>4, <2>5, <1>t DEF HsTyped
  <2>7. \A d \in HsClients : att'[d] \in {"new", "sending", "hello"} => att[d] \in {"new", "sending", "hello"}
    BY <2>2, <1>t DEF HsTyped
  <2> QED BY <2>1, <2>6, <2>7, NotTheirs
<1>4. CASE h \in SvcRuns /\ c \in HsClients /\ BridgeToService(h, c)
  <2>1. UNCHANGED <<channel, localc, sessions, toRelay, toClient, replies, chan, att>>
    BY <1>4 DEF BridgeToService, serviceVars, clientVars
  <2>2. fromClient[c] \in Seq(Message) /\ fromClient[c] # <<>> /\ toSvc[h] \in Seq(Message)
    BY <1>4, <1>t DEF BridgeToService, HsTyped
  <2>3. Head(fromClient[c]) \in Message /\ Tail(fromClient[c]) \in Seq(Message)
    BY <2>2, QueueTail
  <2>4. Append(toSvc[h], Head(fromClient[c])) \in Seq(Message)
    BY <2>2, <2>3, QueueAppend
  <2>5. /\ toSvc' = [toSvc EXCEPT ![h] = Append(toSvc[h], Head(fromClient[c]))]
        /\ fromClient' = [fromClient EXCEPT ![c] = Tail(fromClient[c])]
        /\ carried' = carried \cup {Head(fromClient[c])}
    BY <1>4, <1>t DEF BridgeToService, HsTyped
  <2>6. HsTyped'
    BY <1>4, <2>1, <2>3, <2>4, <2>5, <1>t DEF HsTyped
  <2> QED BY <2>1, <2>6, NotTheirs
<1>5. CASE h \in SvcRuns /\ c \in HsClients /\ BridgeEnds(h, c)
  <2>1. UNCHANGED <<channel, localc, sessions, toRelay, toSvc, toClient, replies, chan, att, carried>>
    BY <1>5 DEF BridgeEnds, serviceVars, clientVars, replayVars
  <2>2. fromClient' = [fromClient EXCEPT ![c] = <<>>]
    BY <1>5 DEF BridgeEnds, bridge_over
  <2>3. HsTyped'
    BY <1>5, <2>1, <2>2, <1>e, <1>t DEF HsTyped
  <2> QED BY <2>1, <2>3, NotTheirs
<1>6. ASSUME h \in SvcRuns, NEW m \in carried, SaidAgain(h, m) PROVE HsInv'
  <2>1. UNCHANGED <<channel, localc, sessions, toRelay, toClient, fromClient, replies, chan, att, carried>>
    BY <1>6 DEF SaidAgain, serviceVars, clientVars, pipeVars
  <2>2. m \in Message /\ toSvc[h] \in Seq(Message)
    BY <1>6, <1>t DEF HsTyped
  <2>3. Append(toSvc[h], m) \in Seq(Message)
    BY <2>2, QueueAppend
  <2>4. toSvc' = [toSvc EXCEPT ![h] = Append(toSvc[h], m)]
    BY <1>6, <1>t DEF SaidAgain, HsTyped
  <2>5. HsTyped'
    BY <1>6, <2>1, <2>3, <2>4, <1>t DEF HsTyped
  <2> QED BY <2>1, <2>5, NotTheirs
<1> QED BY <1>1, <1>2, <1>3, <1>4, <1>5, <1>6

LEMMA ClientSendsKeeps ==
  ASSUME HsInv, NEW c \in HsClients, ClientSends(c)
  PROVE  HsInv'
PROOF
<1> DEFINE m == [k |-> "data", c |-> c, sid |-> chan[c].sid, n |-> chan[c].out, of |-> 0]
           s == [chan[c] EXCEPT !.out = @ + 1]
<1>t. HsTyped /\ chan[c] \in Session /\ fromClient[c] \in Seq(Message)
  BY DEF HsInv, HsTyped
<1>1. UNCHANGED <<channel, localc, sessions, toRelay, toSvc, toClient, replies, att, carried>>
  BY DEF ClientSends, serviceVars, replayVars
<1>2. m \in Message /\ s \in Session /\ s.sid = chan[c].sid
  <2>1. chan[c].sid \in Nat /\ chan[c].out \in Nat /\ chan[c].in \in Nat /\ chan[c].out + 1 \in Nat
    BY <1>t DEF Session
  <2>2. m \in Message
    BY <2>1 DEF Message
  <2>3. s \in Session /\ s.sid = chan[c].sid
    BY <1>t, <2>1 DEF Session
  <2> QED BY <2>2, <2>3
<1>3. fromClient' = [fromClient EXCEPT ![c] = Append(fromClient[c], m)] /\ chan' = [chan EXCEPT ![c] = s]
  BY <1>t DEF ClientSends, HsTyped
<1> HIDE DEF m, s
<1>4. Append(fromClient[c], m) \in Seq(Message)
  BY <1>t, <1>2, QueueAppend
<1>5. HsTyped'
  BY <1>1, <1>2, <1>3, <1>4, <1>t DEF HsTyped
<1>6. \A d \in HsClients : chan'[d].sid = chan[d].sid
  BY <1>2, <1>3, <1>t DEF HsTyped
<1> QED BY <1>1, <1>5, <1>6, NotTheirs

LEMMA BridgeToClientKeeps ==
  ASSUME HsInv, NEW h \in SvcRuns, NEW c \in HsClients, BridgeToClient(h, c)
  PROVE  HsInv'
PROOF
<1>t. HsTyped /\ toRelay[h] \in Seq(Message) /\ toClient[c] \in Seq(Message) /\ toRelay[h] # <<>>
  BY DEF HsInv, HsTyped, BridgeToClient
<1> DEFINE m == Head(toRelay[h])
<1>q. m \in ToClients /\ m \in Message /\ Tail(toRelay[h]) \in Seq(Message) /\ InQueue(Tail(toRelay[h])) \subseteq ToClients
  <2>1. m \in InQueue(toRelay[h]) /\ m \in Message /\ Tail(toRelay[h]) \in Seq(Message)
        /\ InQueue(Tail(toRelay[h])) \subseteq InQueue(toRelay[h])
    BY <1>t, QueueTail
  <2> QED BY <2>1, InToClients
<1>1. UNCHANGED <<channel, localc, sessions, toSvc, replies, chan, att, carried>>
  BY DEF BridgeToClient, serviceVars, clientVars, replayVars
<1>2. toRelay' = [toRelay EXCEPT ![h] = Tail(toRelay[h])]
  BY <1>t DEF BridgeToClient, HsTyped
<1>3. /\ toClient' = toClient \/ toClient' = [toClient EXCEPT ![c] = Append(toClient[c], m)]
      /\ fromClient' = fromClient \/ fromClient' = [fromClient EXCEPT ![c] = <<>>]
  BY <1>t DEF BridgeToClient, bridge_over, HsTyped
<1> HIDE DEF m
<1>4. Append(toClient[c], m) \in Seq(Message) /\ InQueue(Append(toClient[c], m)) = InQueue(toClient[c]) \cup {m}
  BY <1>t, <1>q, QueueAppend
<1>5. HsTyped'
  <2>1. <<>> \in Seq(Message)
    OBVIOUS
  <2>2. toRelay' \in [SvcRuns -> Seq(Message)] /\ toClient' \in [HsClients -> Seq(Message)] /\ fromClient' \in [HsClients -> Seq(Message)]
    BY <2>1, <1>2, <1>3, <1>4, <1>q, <1>t DEF HsTyped
  <2> QED BY <2>2, <1>1, <1>t DEF HsTyped
<1>6. ToClients' \subseteq ToClients
  <2>1. ASSUME NEW g \in SvcRuns PROVE InQueue(toRelay'[g]) \subseteq ToClients \cup {}
    BY <1>2, <1>q, <1>t, InToClients DEF HsTyped
  <2>2. ASSUME NEW d \in HsClients PROVE InQueue(toClient'[d]) \subseteq ToClients \cup {}
    BY <1>3, <1>4, <1>q, <1>t, InToClients DEF HsTyped
  <2> QED BY <2>1, <2>2, ReachesClients
<1>7. NumbersApart' /\ RepliesOwn'
  BY <1>1, <1>5, <1>6, NothingNew
<1> QED BY <1>1, <1>5, <1>7, LocalsLeft DEF HsInv

\* finish: the number a client takes is signed over its own hello, and what it
\* opens then is sealed for that number.
LEMMA ClientReadsKeeps ==
  ASSUME HsInv, NEW c \in HsClients, ClientReads(c)
  PROVE  HsInv'
PROOF
<1>t. HsTyped /\ toClient[c] \in Seq(Message) /\ toClient[c] # <<>> /\ chan[c] \in Session /\ replies[c] \in Seq(Nat)
  BY DEF HsInv, HsTyped, ClientReads
<1> DEFINE m == Head(toClient[c])
<1>q. m \in ToClients /\ m \in Message /\ Tail(toClient[c]) \in Seq(Message) /\ InQueue(Tail(toClient[c])) \subseteq ToClients
  <2>1. m \in InQueue(toClient[c]) /\ m \in Message /\ Tail(toClient[c]) \in Seq(Message)
        /\ InQueue(Tail(toClient[c])) \subseteq InQueue(toClient[c])
    BY <1>t, QueueTail
  <2> QED BY <2>1, InToClients
<1>1. UNCHANGED <<channel, localc, sessions, toRelay, toSvc, fromClient, carried>>
  BY DEF ClientReads, serviceVars, replayVars
<1>2. toClient' = [toClient EXCEPT ![c] = Tail(toClient[c])]
  BY <1>t DEF ClientReads, HsTyped
<1>3. ToClients' \subseteq ToClients
  <2>1. ASSUME NEW g \in SvcRuns PROVE InQueue(toRelay'[g]) \subseteq ToClients \cup {}
    BY <1>1, InToClients
  <2>2. ASSUME NEW d \in HsClients PROVE InQueue(toClient'[d]) \subseteq ToClients \cup {}
    <3>1. CASE d = c
      <4>1. toClient'[d] = Tail(toClient[c])
        BY <3>1, <1>2, <1>t DEF HsTyped
      <4> QED BY <4>1, <1>q
    <3>2. CASE d # c
      <4>1. toClient'[d] = toClient[d]
        BY <3>2, <1>2, <1>t DEF HsTyped
      <4> QED BY <4>1, InToClients
    <3> QED BY <3>1, <3>2
  <2> QED BY <2>1, <2>2, ReachesClients
<1>m. m.sid \in Nat /\ m.of \in Nat /\ chan[c].in + 1 \in Nat
  <2>1. \A x \in Message : x.sid \in Nat /\ x.of \in Nat
    BY DEF Message
  <2>2. chan[c].in \in Nat
    BY <1>t DEF Session
  <2> HIDE DEF m
  <2> QED BY <2>1, <2>2, <1>q
<1>r. ASSUME NEW d \in HsClients
      PROVE  /\ att[d] \in {"new", "sending", "hello"} => chan[d].sid = 0 /\ replies[d] = <<>>
             /\ \A i \in DOMAIN replies[d] : replies[d][i] = chan[d].sid
  <2>1. RepliesOwn
    BY DEF HsInv
  <2> QED BY <2>1 DEF RepliesOwn
<1>4. \/ /\ att[c] = "hello" /\ m.k = "answer" /\ m.c = c /\ UNCHANGED replies
         /\ att' = [att EXCEPT ![c] = "open"] /\ chan' = [chan EXCEPT ![c] = [chan[c] EXCEPT !.sid = m.sid]]
      \/ /\ att[c] = "open" /\ m.k = "sealed" /\ m.sid = chan[c].sid /\ UNCHANGED att
         /\ chan' = [chan EXCEPT ![c] = [chan[c] EXCEPT !.in = chan[c].in + 1]]
         /\ replies' = [replies EXCEPT ![c] = Append(replies[c], m.of)]
      \/ att' = [att EXCEPT ![c] = "over"] /\ UNCHANGED <<chan, replies>>
  <2>1. CASE att[c] = "hello" /\ m.k = "answer" /\ m.c = c
    BY <2>1, <1>t DEF ClientReads, HsTyped
  <2>2. CASE att[c] = "open" /\ m.k = "sealed" /\ m.sid = chan[c].sid /\ m.n = chan[c].in
    BY <2>2, <1>t DEF ClientReads, HsTyped
  <2>3. CASE ~(att[c] = "hello" /\ m.k = "answer" /\ m.c = c)
             /\ ~(att[c] = "open" /\ m.k = "sealed" /\ m.sid = chan[c].sid /\ m.n = chan[c].in)
    BY <2>3 DEF ClientReads
  <2> QED BY <2>1, <2>2, <2>3
<1> HIDE DEF m
<1>5. CASE att' = [att EXCEPT ![c] = "over"] /\ UNCHANGED <<chan, replies>>
  <2>1. HsTyped'
    BY <1>5, <1>1, <1>2, <1>q, <1>t DEF HsTyped
  <2>2. \A d \in HsClients : att'[d] \in {"new", "sending", "hello"} => att[d] \in {"new", "sending", "hello"}
    BY <1>5, <1>t DEF HsTyped
  <2>3. NumbersApart' /\ RepliesOwn'
    BY <1>5, <1>1, <1>3, <2>1, <2>2, NothingNew
  <2> QED BY <1>1, <2>1, <2>3, LocalsLeft DEF HsInv
<1>6. CASE /\ att[c] = "open" /\ m.k = "sealed" /\ m.sid = chan[c].sid /\ UNCHANGED att
           /\ chan' = [chan EXCEPT ![c] = [chan[c] EXCEPT !.in = chan[c].in + 1]]
           /\ replies' = [replies EXCEPT ![c] = Append(replies[c], m.of)]
  <2> DEFINE s == [chan[c] EXCEPT !.in = chan[c].in + 1]
             r == Append(replies[c], m.of)
  <2>1. s \in Session /\ s.sid = chan[c].sid
    BY <1>t, <1>m DEF Session
  <2>2. r \in Seq(Nat) /\ InQueue(r) = InQueue(replies[c]) \cup {m.of}
    BY <1>t, <1>m, QueueAppend
  <2>3. chan' = [chan EXCEPT ![c] = s] /\ replies' = [replies EXCEPT ![c] = r]
    BY <1>6
  <2> HIDE DEF s, r
  <2>a. chan' \in [HsClients -> Session] /\ replies' \in [HsClients -> Seq(Nat)]
    BY <2>1, <2>2, <2>3, <1>t DEF HsTyped
  <2>b. toClient' \in [HsClients -> Seq(Message)] /\ att' = att
    BY <1>6, <1>2, <1>q, <1>t DEF HsTyped
  <2>4. HsTyped'
    BY <2>a, <2>b, <1>1, <1>t DEF HsTyped
  <2>5. \A d \in HsClients : chan'[d].sid = chan[d].sid /\ (d # c => replies'[d] = replies[d])
    BY <2>1, <2>3, <1>t DEF HsTyped
  <2>6. NumbersApart'
    BY <1>1, <1>3, <2>5 DEF HsInv, NumbersApart
  <2>7. \A i \in DOMAIN replies'[c] : replies'[c][i] = chan'[c].sid
    <3>1. replies'[c] = r
      BY <2>3, <1>t DEF HsTyped
    <3>2. \A x \in InQueue(replies[c]) : x = chan[c].sid
      BY <1>r DEF InQueue
    <3>3. m.of = chan[c].sid
      BY <1>6, <1>q DEF HsInv, RepliesOwn
    <3>4. \A x \in InQueue(r) : x = chan[c].sid
      BY <2>2, <3>2, <3>3
    <3> QED BY <3>1, <3>4, <2>5 DEF InQueue
  <2>8. RepliesOwn'
    <3>1. \A p \in ToClients' : p.k = "sealed" => p.of = p.sid
      BY <1>3 DEF HsInv, RepliesOwn
    <3>2. ASSUME NEW d \in HsClients
          PROVE  /\ att'[d] \in {"new", "sending", "hello"} => chan'[d].sid = 0 /\ replies'[d] = <<>>
                 /\ \A i \in DOMAIN replies'[d] : replies'[d][i] = chan'[d].sid
      <4>1. CASE d = c
        BY <4>1, <1>6, <2>7
      <4>2. CASE d # c
        BY <4>2, <1>6, <2>5, <1>r
      <4> QED BY <4>1, <4>2
    <3> QED BY <3>1, <3>2 DEF RepliesOwn
  <2> QED BY <1>1, <2>4, <2>6, <2>8, LocalsLeft DEF HsInv
<1>7. CASE /\ att[c] = "hello" /\ m.k = "answer" /\ m.c = c /\ UNCHANGED replies
           /\ att' = [att EXCEPT ![c] = "open"] /\ chan' = [chan EXCEPT ![c] = [chan[c] EXCEPT !.sid = m.sid]]
  <2> DEFINE s == [chan[c] EXCEPT !.sid = m.sid]
  <2>1. s \in Session /\ s.sid = m.sid
    BY <1>t, <1>m DEF Session
  <2>2. chan' = [chan EXCEPT ![c] = s]
    BY <1>7
  <2> HIDE DEF s
  <2>3. HsTyped'
    <3>1. att' \in [HsClients -> {"new", "sending", "hello", "open", "over"}] /\ replies' = replies
      BY <1>7, <1>t DEF HsTyped
    <3>2. chan' \in [HsClients -> Session]
      BY <2>1, <2>2, <1>t DEF HsTyped
    <3> QED BY <3>1, <3>2, <1>1, <1>2, <1>q, <1>t DEF HsTyped
  <2>4. chan'[c].sid = m.sid /\ (\A d \in HsClients \ {c} : chan'[d] = chan[d])
    BY <2>1, <2>2, <1>t DEF HsTyped
  <2>5. m.sid <= sessions' /\ 0 < m.sid /\ \A d \in HsClients : chan[d].sid = m.sid => d = c
    BY <1>1, <1>7, <1>q DEF HsInv, NumbersApart
  <2>6. NumbersApart'
    <3>1. ASSUME NEW p \in ToClients', p.k = "answer"
          PROVE  /\ 0 < p.sid /\ p.sid <= sessions' /\ \A d \in HsClients : chan'[d].sid = p.sid => p.c = d
                 /\ \A x \in ToClients' : x.k = "answer" /\ x.sid = p.sid => x.c = p.c
      <4>1. p \in ToClients
        BY <1>3
      <4>2. /\ 0 < p.sid /\ p.sid <= sessions' /\ \A d \in HsClients : chan[d].sid = p.sid => p.c = d
            /\ \A x \in ToClients : x.k = "answer" /\ x.sid = p.sid => x.c = p.c
        BY <4>1, <3>1, <1>1 DEF HsInv, NumbersApart
      <4>3. m.sid = p.sid => p.c = c
        BY <4>2, <1>q, <1>7
      <4> QED BY <4>2, <4>3, <2>4, <1>3
    <3>2. ASSUME NEW d \in HsClients, NEW e \in HsClients, d # e, chan'[d].sid # 0 PROVE chan'[d].sid # chan'[e].sid
      <4>1. chan[d].sid # 0 => chan[d].sid # chan[e].sid
        BY <3>2 DEF HsInv, NumbersApart
      <4> QED BY <4>1, <3>2, <2>4, <2>5
    <3>3. ASSUME NEW d \in HsClients PROVE chan'[d].sid <= sessions'
      BY <2>4, <2>5, <1>1 DEF HsInv, NumbersApart
    <3> QED BY <3>1, <3>2, <3>3 DEF NumbersApart
  <2>7. RepliesOwn'
    <3>1. \A p \in ToClients' : p.k = "sealed" => p.of = p.sid
      BY <1>3 DEF HsInv, RepliesOwn
    <3>2. replies'[c] = <<>> /\ att'[c] = "open"
      BY <1>7, <1>t DEF HsInv, RepliesOwn, HsTyped
    <3>3. ASSUME NEW d \in HsClients
          PROVE  /\ att'[d] \in {"new", "sending", "hello"} => chan'[d].sid = 0 /\ replies'[d] = <<>>
                 /\ \A i \in DOMAIN replies'[d] : replies'[d][i] = chan'[d].sid
      <4>1. CASE d = c
        BY <4>1, <3>2
      <4>2. CASE d # c
        <5>1. att'[d] = att[d] /\ chan'[d] = chan[d] /\ replies'[d] = replies[d]
          <6>1. att' = [att EXCEPT ![c] = "open"] /\ replies' = replies
            BY <1>7
          <6> QED BY <4>2, <6>1, <2>4, <1>t DEF HsTyped
        <5> QED BY <5>1, <1>r
      <4> QED BY <4>1, <4>2
    <3> QED BY <3>1, <3>3 DEF RepliesOwn
  <2> QED BY <1>1, <2>3, <2>6, <2>7, LocalsLeft DEF HsInv
<1> QED BY <1>4, <1>5, <1>6, <1>7

\* What the service puts on its circuit besides: one message, of no number a
\* client has.
LEMMA SomethingSent ==
  ASSUME HsInv, HsTyped', NEW h \in SvcRuns, NEW m \in Message, sessions' \in Nat, sessions <= sessions',
         toRelay' = [toRelay EXCEPT ![h] = Append(toRelay[h], m)],
         UNCHANGED <<toClient, chan, replies, att>>,
         m.k = "sealed" => m.of = m.sid,
         m.k = "answer" => sessions < m.sid /\ m.sid <= sessions'
  PROVE  NumbersApart' /\ RepliesOwn'
PROOF
<1>t. toRelay \in [SvcRuns -> Seq(Message)] /\ sessions \in Nat /\ chan \in [HsClients -> Session]
  BY DEF HsInv, HsTyped
<1>1. InQueue(toRelay'[h]) = InQueue(toRelay[h]) \cup {m} /\ \A g \in SvcRuns \ {h} : toRelay'[g] = toRelay[g]
  BY <1>t, QueueAppend
<1>2. ToClients' \subseteq ToClients \cup {m}
  <2>1. ASSUME NEW g \in SvcRuns PROVE InQueue(toRelay'[g]) \subseteq ToClients \cup {m}
    BY <1>1, InToClients
  <2>2. ASSUME NEW c \in HsClients PROVE InQueue(toClient'[c]) \subseteq ToClients \cup {m}
    BY InToClients
  <2> QED BY <2>1, <2>2, ReachesClients
<1>s. \A c \in HsClients : chan'[c] = chan[c] /\ chan[c].sid \in Nat /\ chan[c].sid <= sessions
  BY <1>t DEF Session, HsInv, NumbersApart
<1>m. m.sid \in Nat /\ \A p \in ToClients : p.sid \in Nat
  <2>1. \A p \in ToClients : p \in Message
    BY ToClientsTyped DEF HsInv
  <2> QED BY <2>1 DEF Message
<1>a. \A p \in ToClients : p.k = "answer" =>
          /\ 0 < p.sid /\ p.sid <= sessions /\ \A c \in HsClients : chan[c].sid = p.sid => p.c = c
          /\ \A x \in ToClients : x.k = "answer" /\ x.sid = p.sid => x.c = p.c
  BY DEF HsInv, NumbersApart
<1>3. ASSUME NEW p \in ToClients', p.k = "answer"
      PROVE  /\ 0 < p.sid /\ p.sid <= sessions' /\ \A c \in HsClients : chan'[c].sid = p.sid => p.c = c
             /\ \A x \in ToClients' : x.k = "answer" /\ x.sid = p.sid => x.c = p.c
  <2>1. CASE p \in ToClients
    <3>1. 0 < p.sid /\ p.sid <= sessions' /\ \A c \in HsClients : chan'[c].sid = p.sid => p.c = c
      BY <2>1, <1>3, <1>a, <1>s, <1>m, <1>t
    <3>2. ASSUME NEW x \in ToClients', x.k = "answer", x.sid = p.sid PROVE x.c = p.c
      <4>1. CASE x \in ToClients
        BY <4>1, <3>2, <2>1, <1>3, <1>a
      <4>2. CASE x = m
        BY <4>2, <3>2, <2>1, <1>3, <1>a, <1>m, <1>t
      <4> QED BY <4>1, <4>2, <1>2
    <3> QED BY <3>1, <3>2
  <2>2. CASE p = m
    <3>1. 0 < p.sid /\ p.sid <= sessions' /\ \A c \in HsClients : chan'[c].sid = p.sid => p.c = c
      BY <2>2, <1>3, <1>s, <1>m, <1>t
    <3>2. ASSUME NEW x \in ToClients', x.k = "answer", x.sid = p.sid PROVE x.c = p.c
      <4>1. CASE x \in ToClients
        BY <4>1, <3>2, <2>2, <1>3, <1>a, <1>m, <1>t
      <4>2. CASE x = m
        BY <4>2, <2>2
      <4> QED BY <4>1, <4>2, <1>2
    <3> QED BY <3>1, <3>2
  <2> QED BY <2>1, <2>2, <1>2
<1>4. \A c, d \in HsClients : c # d /\ chan'[c].sid # 0 => chan'[c].sid # chan'[d].sid
  BY <1>s DEF HsInv, NumbersApart
<1>5. \A c \in HsClients : chan'[c].sid <= sessions'
  BY <1>s, <1>t
<1>6. NumbersApart'
  BY <1>3, <1>4, <1>5 DEF NumbersApart
<1>7. RepliesOwn'
  BY <1>2 DEF HsInv, RepliesOwn
<1> QED BY <1>6, <1>7

\* answer_hello: a number nobody has, and no connection left.
LEMMA AnswerHelloKeeps ==
  ASSUME HsInv, NEW h \in SvcRuns, NEW m \in Message, AnswerHello(h, m), toSvc' \in [SvcRuns -> Seq(Message)],
         UNCHANGED <<carried, fromClient, toClient, chan, replies, att>>
  PROVE  HsInv'
PROOF
<1>t. HsTyped /\ sessions \in Nat /\ toRelay[h] \in Seq(Message)
  BY DEF HsInv, HsTyped
<1> DEFINE a == [k |-> "answer", c |-> m.c, sid |-> sessions + 1, n |-> 0, of |-> 0]
           s == [NoSession EXCEPT !.sid = sessions + 1]
<1>1. /\ sessions' = sessions + 1 /\ channel' = [channel EXCEPT ![h] = s] /\ localc' = [localc EXCEPT ![h] = <<>>]
      /\ toRelay' = [toRelay EXCEPT ![h] = Append(toRelay[h], a)]
  BY <1>t DEF AnswerHello, NoLocal, HsTyped
<1>2. a \in Message /\ a.k = "answer" /\ a.sid = sessions + 1
  BY <1>t DEF Message
<1>3. s \in Session /\ s.sid = sessions + 1
  BY <1>t DEF Session, NoSession
<1> HIDE DEF a, s
<1>4. LocalsInTurn' /\ channel' \in [SvcRuns -> Session] /\ localc' \in [SvcRuns -> Seq(Nat \X Nat)]
  <2>1. sessions' \in Nat /\ sessions <= sessions' /\ s.sid <= sessions' /\ s.sid # 0
    BY <1>1, <1>3, <1>t
  <2>2. <<>> \in Seq(Nat \X Nat) /\ DOMAIN <<>> = {}
    OBVIOUS
  <2> QED BY <1>1, <1>3, <2>1, <2>2, LocalsOfOne
<1>5. Append(toRelay[h], a) \in Seq(Message)
  BY <1>2, <1>t, QueueAppend
<1>6. toRelay' \in [SvcRuns -> Seq(Message)] /\ sessions' \in Nat
  BY <1>1, <1>5, <1>t DEF HsTyped
<1>7. HsTyped'
  BY <1>4, <1>6, <1>t DEF HsTyped
<1>8. NumbersApart' /\ RepliesOwn'
  <2>1. sessions' \in Nat /\ sessions <= sessions' /\ sessions < a.sid /\ a.sid <= sessions' /\ a.k # "sealed"
    BY <1>1, <1>2, <1>t
  <2> QED BY <1>1, <1>2, <1>7, <2>1, SomethingSent
<1> QED BY <1>4, <1>7, <1>8 DEF HsInv

\* A piece goes to the connection of its session, after all those before it.
LEMMA ToLocalKeeps ==
  ASSUME HsInv, NEW h \in SvcRuns, NEW m \in Message, NEW connects \in BOOLEAN, ToLocal(h, m, connects),
         toSvc' \in [SvcRuns -> Seq(Message)], UNCHANGED <<carried, fromClient, toClient, chan, replies, att>>
  PROVE  HsInv'
PROOF
<1>t. HsTyped /\ sessions \in Nat /\ channel[h] \in Session /\ localc[h] \in Seq(Nat \X Nat)
  BY DEF HsInv, HsTyped
<1>u. UNCHANGED <<sessions, toRelay>>
  BY DEF ToLocal
<1>l. /\ channel[h].sid <= sessions /\ (channel[h].sid = 0 => channel[h] = NoSession /\ localc[h] = NoLocal)
      /\ \A i \in DOMAIN localc[h] : /\ localc[h][i][1] = channel[h].sid /\ localc[h][i][2] < channel[h].in
                                     /\ \A j \in DOMAIN localc[h] : i < j => localc[h][i][2] < localc[h][j][2]
  BY DEF HsInv, LocalsInTurn
<1>n. NoSession \in Session /\ NoSession.sid = 0 /\ NoLocal \in Seq(Nat \X Nat) /\ DOMAIN NoLocal = {}
  BY DEF NoSession, Session, NoLocal
<1>f. channel[h].sid \in Nat /\ channel[h].in \in Nat /\ m.sid \in Nat /\ m.n \in Nat
  BY <1>t DEF Session, Message
<1> DEFINE next == channel[h] # NoSession /\ m.sid = channel[h].sid /\ m.n = channel[h].in
           s == [channel[h] EXCEPT !.in = channel[h].in + 1]
           l == Append(localc[h], <<m.sid, m.n>>)
<1>s. s \in Session /\ s.sid = channel[h].sid /\ s.in = channel[h].in + 1
  <2>1. ASSUME NEW x \in Session
        PROVE  LET y == [x EXCEPT !.in = x.in + 1] IN y \in Session /\ y.sid = x.sid /\ y.in = x.in + 1
    BY DEF Session
  <2> QED BY <2>1, <1>t, Zenon
<1>1. LocalsInTurn' /\ channel' \in [SvcRuns -> Session] /\ localc' \in [SvcRuns -> Seq(Nat \X Nat)]
  <2>1. CASE next /\ connects
    <3>1. channel' = [channel EXCEPT ![h] = s] /\ localc' = [localc EXCEPT ![h] = l]
      BY <2>1, <1>t DEF ToLocal, HsTyped
    <3>p. <<m.sid, m.n>> \in Nat \X Nat
      BY <1>f
    <3>a. ASSUME NEW P, localc[h] \in Seq(P), NEW p \in P
          PROVE  /\ Append(localc[h], p) \in Seq(P)
                 /\ DOMAIN Append(localc[h], p) = DOMAIN localc[h] \cup {Len(localc[h]) + 1}
                 /\ Append(localc[h], p)[Len(localc[h]) + 1] = p
                 /\ \A i \in DOMAIN localc[h] : Append(localc[h], p)[i] = localc[h][i]
      BY <3>a, AppendGives
    <3>b. /\ l \in Seq(Nat \X Nat) /\ DOMAIN l = DOMAIN localc[h] \cup {Len(localc[h]) + 1}
          /\ l[Len(localc[h]) + 1] = <<m.sid, m.n>> /\ \A i \in DOMAIN localc[h] : l[i] = localc[h][i]
      BY <1>t, <3>p, <3>a, Zenon
    <3>2. l \in Seq(Nat \X Nat) /\ DOMAIN l = DOMAIN localc[h] \cup {Len(localc[h]) + 1}
      BY <3>b, Zenon
    <3>3. l[Len(localc[h]) + 1] = <<m.sid, m.n>> /\ \A i \in DOMAIN localc[h] : l[i] = localc[h][i]
      BY <3>b, Zenon
    <3>d. \A i \in DOMAIN localc[h] : i \in Nat /\ i <= Len(localc[h]) /\ localc[h][i][2] \in Nat
      BY <1>t
    <3>e. Len(localc[h]) \in Nat
      BY <1>t
    <3> HIDE DEF s, l
    <3>4. ASSUME NEW i \in DOMAIN l
          PROVE  /\ l[i][1] = s.sid /\ l[i][2] < s.in
                 /\ \A j \in DOMAIN l : i < j => l[i][2] < l[j][2]
      <4>1. CASE i \in DOMAIN localc[h]
        <5>i. l[i] = localc[h][i] /\ localc[h][i][2] \in Nat
          BY <4>1, <3>3, <3>d
        <5>n. localc[h][i][1] = channel[h].sid /\ localc[h][i][2] < channel[h].in
          BY <4>1, <1>l
        <5>1. l[i][1] = s.sid /\ l[i][2] < m.n /\ l[i][2] < s.in
          BY <2>1, <5>i, <5>n, <1>f, <1>s
        <5>2. ASSUME NEW j \in DOMAIN l, i < j PROVE l[i][2] < l[j][2]
          <6>1. CASE j \in DOMAIN localc[h]
            BY <6>1, <4>1, <5>2, <3>3, <1>l
          <6>2. CASE j = Len(localc[h]) + 1
            BY <6>2, <5>1, <3>3
          <6> QED BY <6>1, <6>2, <3>2
        <5> QED BY <5>1, <5>2
      <4>2. CASE i = Len(localc[h]) + 1
        <5>1. l[i][1] = s.sid /\ l[i][2] < s.in
          BY <4>2, <2>1, <3>3, <1>f, <1>s
        <5>2. ASSUME NEW j \in DOMAIN l PROVE ~(i < j)
          BY <4>2, <3>2, <3>d, <3>e
        <5> QED BY <5>1, <5>2
      <4> QED BY <4>1, <4>2, <3>2
    <3>5. s.sid <= sessions' /\ s.sid # 0 /\ sessions' \in Nat /\ sessions <= sessions'
      BY <2>1, <1>l, <1>s, <1>u, <1>t
    <3> QED BY <3>1, <3>2, <3>4, <3>5, <1>s, LocalsOfOne
  <2>2. CASE next /\ ~connects
    <3>1. channel' = [channel EXCEPT ![h] = s] /\ localc' = [localc EXCEPT ![h] = NoLocal]
      BY <2>2, <1>t DEF ToLocal, HsTyped
    <3>2. s.sid <= sessions' /\ s.sid # 0 /\ sessions' \in Nat /\ sessions <= sessions'
      BY <2>2, <1>l, <1>s, <1>u, <1>t
    <3> HIDE DEF s
    <3> QED BY <3>1, <3>2, <1>n, <1>s, LocalsOfOne
  <2>3. CASE ~next
    <3>1. channel' = [channel EXCEPT ![h] = NoSession] /\ localc' = [localc EXCEPT ![h] = NoLocal]
      <4>1. CASE channel[h] = NoSession
        <5>1. localc[h] = NoLocal
          BY <4>1, <1>l, <1>n
        <5>2. localc' = localc /\ channel' = [channel EXCEPT ![h] = NoSession]
          BY <2>3, <4>1 DEF ToLocal
        <5> QED BY <5>1, <5>2, <1>t DEF HsTyped
      <4>2. CASE channel[h] # NoSession
        BY <2>3, <4>2 DEF ToLocal
      <4> QED BY <4>1, <4>2
    <3>2. sessions' \in Nat /\ sessions <= sessions' /\ 0 <= sessions'
      BY <1>u, <1>t
    <3> QED BY <3>1, <3>2, <1>n, LocalsOfOne
  <2> QED BY <2>1, <2>2, <2>3
<1>2. HsTyped'
  BY <1>1, <1>u, <1>t DEF HsTyped
<1>3. ToClients' = ToClients
  BY <1>u DEF ToClients, InQueue
<1>4. NumbersApart' /\ RepliesOwn'
  BY <1>2, <1>3, <1>u, NothingNew
<1> QED BY <1>1, <1>2, <1>4 DEF HsInv

LEMMA ServiceSteps ==
  ASSUME HsInv, NEW h \in SvcRuns,
         ServerReplies(h) \/ ServerCloses(h) \/ ServiceStops(h) \/ \E ok \in BOOLEAN : ServiceReads(h, ok)
  PROVE  HsInv'
PROOF
<1>t. HsTyped /\ sessions \in Nat /\ channel[h] \in Session /\ localc[h] \in Seq(Nat \X Nat) /\ toRelay[h] \in Seq(Message)
  BY DEF HsInv, HsTyped
<1>l. /\ channel[h].sid <= sessions /\ (channel[h].sid = 0 => channel[h] = NoSession /\ localc[h] = NoLocal)
      /\ \A i \in DOMAIN localc[h] : /\ localc[h][i][1] = channel[h].sid /\ localc[h][i][2] < channel[h].in
                                     /\ \A j \in DOMAIN localc[h] : i < j => localc[h][i][2] < localc[h][j][2]
  BY DEF HsInv, LocalsInTurn
<1>n. NoSession \in Session /\ NoSession.sid = 0 /\ NoLocal \in Seq(Nat \X Nat) /\ DOMAIN NoLocal = {}
  BY DEF NoSession, Session, NoLocal
<1>s. sessions <= sessions
  BY <1>t
<1>1. ASSUME ServerReplies(h) PROVE HsInv'
  <2> DEFINE s == [channel[h] EXCEPT !.out = channel[h].out + 1]
             m == [k |-> "sealed", c |-> NoClient, sid |-> channel[h].sid, n |-> channel[h].out, of |-> localc[h][1][1]]
  <2>1. UNCHANGED <<localc, sessions, toSvc, toClient, fromClient, chan, replies, att, carried>>
    BY <1>1 DEF ServerReplies, clientVars, pipeVars, replayVars
  <2>2. localc[h][1][1] = channel[h].sid
    <3>1. 1 \in DOMAIN localc[h]
      BY <1>1, <1>t DEF ServerReplies, NoLocal
    <3> QED BY <3>1, <1>l
  <2>3. channel[h].sid \in Nat /\ channel[h].out \in Nat /\ channel[h].in \in Nat /\ channel[h].out + 1 \in Nat
    BY <1>t DEF Session
  <2>4. s \in Session /\ s.sid = channel[h].sid /\ s.in = channel[h].in
    BY <1>t, <2>3 DEF Session
  <2>5. m \in Message /\ m.k = "sealed" /\ m.of = m.sid
    BY <2>2, <2>3 DEF Message
  <2>6. channel' = [channel EXCEPT ![h] = s] /\ toRelay' = [toRelay EXCEPT ![h] = Append(toRelay[h], m)]
    BY <1>1, <1>t DEF ServerReplies, HsTyped
  <2> HIDE DEF s, m
  <2>7. localc' = [localc EXCEPT ![h] = localc[h]]
    BY <2>1, <1>t DEF HsTyped
  <2>8. s.sid # 0
    BY <1>1, <1>l, <2>4 DEF ServerReplies
  <2>9. LocalsInTurn' /\ channel' \in [SvcRuns -> Session] /\ localc' \in [SvcRuns -> Seq(Nat \X Nat)]
    <3>1. /\ s.sid <= sessions' /\ sessions' \in Nat /\ sessions <= sessions'
          /\ \A i \in DOMAIN localc[h] : /\ localc[h][i][1] = s.sid /\ localc[h][i][2] < s.in
                                         /\ \A j \in DOMAIN localc[h] : i < j => localc[h][i][2] < localc[h][j][2]
      BY <2>1, <2>4, <1>l, <1>s, <1>t
    <3> HIDE DEF HsInv, LocalsInTurn
    <3> QED BY <2>4, <2>6, <2>7, <2>8, <3>1, <1>t, LocalsOfOne
  <2>10. Append(toRelay[h], m) \in Seq(Message)
    BY <2>5, <1>t, QueueAppend
  <2>11. HsTyped'
    BY <2>1, <2>6, <2>9, <2>10, <1>t DEF HsTyped
  <2>12. NumbersApart' /\ RepliesOwn'
    BY <2>1, <2>5, <2>6, <2>11, <1>s, <1>t, SomethingSent
  <2> QED BY <2>9, <2>11, <2>12 DEF HsInv
<1>2. ASSUME ServerCloses(h) PROVE HsInv'
  <2>1. UNCHANGED <<channel, sessions, toSvc, toClient, fromClient, chan, replies, att, carried>>
    BY <1>2 DEF ServerCloses, clientVars, pipeVars, replayVars
  <2>2. /\ localc' = [localc EXCEPT ![h] = NoLocal] /\ channel' = [channel EXCEPT ![h] = channel[h]]
        /\ toRelay' = toRelay \/ toRelay' = [toRelay EXCEPT ![h] = Append(toRelay[h], End)]
    BY <1>2, <2>1, <1>t DEF ServerCloses, HsTyped
  <2>3. End \in Message /\ End.k = "end"
    BY DEF End, Message
  <2>4. LocalsInTurn' /\ channel' \in [SvcRuns -> Session] /\ localc' \in [SvcRuns -> Seq(Nat \X Nat)]
    BY <2>1, <2>2, <1>l, <1>n, <1>s, <1>t, LocalsOfOne
  <2>5. Append(toRelay[h], End) \in Seq(Message)
    BY <2>3, <1>t, QueueAppend
  <2>6. HsTyped'
    BY <2>1, <2>2, <2>4, <2>5, <1>t DEF HsTyped
  <2>7. CASE toRelay' = toRelay
    <3>1. ToClients' = ToClients
      BY <2>1, <2>7 DEF ToClients, InQueue
    <3>2. NumbersApart' /\ RepliesOwn'
      BY <2>1, <2>6, <3>1, NothingNew
    <3> QED BY <2>4, <2>6, <3>2 DEF HsInv
  <2>8. CASE toRelay' = [toRelay EXCEPT ![h] = Append(toRelay[h], End)]
    <3>1. NumbersApart' /\ RepliesOwn'
      BY <2>1, <2>3, <2>6, <2>8, <1>s, <1>t, SomethingSent
    <3> QED BY <2>4, <2>6, <3>1 DEF HsInv
  <2> QED BY <2>2, <2>7, <2>8
<1>3. ASSUME ServiceStops(h) PROVE HsInv'
  <2>1. UNCHANGED <<sessions, toRelay, toClient, fromClient, chan, replies, att, carried>>
    BY <1>3 DEF ServiceStops, clientVars, pipeVars, replayVars
  <2>2. /\ localc' = [localc EXCEPT ![h] = NoLocal] /\ channel' = [channel EXCEPT ![h] = NoSession]
        /\ toSvc' = [toSvc EXCEPT ![h] = <<>>]
    BY <1>3 DEF ServiceStops
  <2>3. LocalsInTurn' /\ channel' \in [SvcRuns -> Session] /\ localc' \in [SvcRuns -> Seq(Nat \X Nat)]
    <3>1. NoSession.sid <= sessions'
      BY <2>1, <1>n, <1>t
    <3> QED BY <2>1, <2>2, <3>1, <1>n, <1>s, <1>t, LocalsOfOne
  <2>4. <<>> \in Seq(Message)
    OBVIOUS
  <2>5. HsTyped'
    BY <2>1, <2>2, <2>3, <2>4, <1>t DEF HsTyped
  <2>6. ToClients' = ToClients
    BY <2>1 DEF ToClients, InQueue
  <2>7. NumbersApart' /\ RepliesOwn'
    BY <2>1, <2>5, <2>6, NothingNew
  <2> QED BY <2>3, <2>5, <2>7 DEF HsInv
<1>4. ASSUME NEW ok \in BOOLEAN, ServiceReads(h, ok) PROVE HsInv'
  <2>1. UNCHANGED <<toClient, fromClient, chan, replies, att, carried>>
    BY <1>4 DEF ServiceReads, clientVars, pipeVars, replayVars
  <2>2. toSvc[h] \in Seq(Message) /\ toSvc[h] # <<>> /\ toSvc' = [toSvc EXCEPT ![h] = Tail(toSvc[h])]
    BY <1>4, <1>t DEF ServiceReads, HsTyped
  <2>3. Head(toSvc[h]) \in Message /\ Tail(toSvc[h]) \in Seq(Message)
    BY <2>2, QueueTail
  <2>4. toSvc' \in [SvcRuns -> Seq(Message)]
    BY <2>2, <2>3, <1>t DEF HsTyped
  <2>5. AnswerHello(h, Head(toSvc[h])) \/ ToLocal(h, Head(toSvc[h]), ok)
    BY <1>4 DEF ServiceReads
  <2> QED BY <2>1, <2>3, <2>4, <2>5, AnswerHelloKeeps, ToLocalKeeps
<1> QED BY <1>1, <1>2, <1>3, <1>4

\* For any number of clients and restarts of the service, whatever the relay
\* says again and whoever leaves when: a connection to the local server carries
\* one session, in order, and a client reads what was said on its own.
\* hidra-node/src/main.rs, serve_hidden_sessions.
THEOREM SessionsStayApart == HsSpec => []SessionsApart
PROOF
<1>1. HsInit => HsInv
  <2> SUFFICES ASSUME HsInit PROVE HsInv
    OBVIOUS
  <2>1. NoSession \in Session /\ NoSession.sid = 0
    BY DEF NoSession, Session
  <2>2. HsTyped
    BY <2>1 DEF HsInit, HsTyped, NoLocal
  <2>3. ToClients = {}
    BY EmptyQueue DEF HsInit, ToClients
  <2>4. LocalsInTurn
    BY <2>1 DEF HsInit, LocalsInTurn, NoLocal
  <2>5. NumbersApart /\ RepliesOwn
    BY <2>1, <2>3 DEF HsInit, NumbersApart, RepliesOwn
  <2> QED BY <2>2, <2>4, <2>5 DEF HsInv
<1>2. HsInv /\ [HsNext]_hsVars => HsInv'
  <2> SUFFICES ASSUME HsInv, [HsNext]_hsVars PROVE HsInv'
    OBVIOUS
  <2>1. CASE UNCHANGED hsVars
    <3>1. UNCHANGED <<channel, localc, sessions, toRelay, toSvc, toClient, fromClient, replies, chan, att, carried>>
      BY <2>1 DEF hsVars
    <3>2. HsTyped'
      BY <3>1 DEF HsInv, HsTyped
    <3> QED BY <3>1, <3>2, NotTheirs
  <2>2. CASE HsNext
    BY <2>2, RelaySteps, ClientSendsKeeps, BridgeToClientKeeps, ClientReadsKeeps, ServiceSteps DEF HsNext
  <2> QED BY <2>1, <2>2
<1>3. HsInv => SessionsApart
  BY DEF HsInv, LocalsInTurn, NumbersApart, RepliesOwn, SessionsApart
<1> QED BY <1>1, <1>2, <1>3, PTL DEF HsSpec
-----------------------------------------------------------------------------
(* The forum's rules in the relay's store.                                   *)

\* What a store keeps at a topic, and what of it is a key's.
its(f, t) == IF t \in DOMAIN f THEN f[t].len ELSE 0
theirs(f, t, k) == IF t \in DOMAIN f /\ f[t].pk = k THEN f[t].len ELSE 0
at_all(f, t) == IF t \in DOMAIN f THEN 1 ELSE 0
claims(f, t, k) == IF t \in DOMAIN f /\ t.class = "u" /\ f[t].pk = k THEN 1 ELSE 0

\* Only one topic is touched: every sum moves by what is kept there.
LEMMA SumsMove ==
  ASSUME ForumTyped, NEW t, IsFiniteSet(DOMAIN kv'), DOMAIN kv' \ {t} = DOMAIN kv \ {t},
         \A x \in DOMAIN kv \ {t} : kv'[x] = kv[x], \A x \in DOMAIN kv' : kv'[x] \in AnyEntry
  PROVE  /\ SumOf(lens', DOMAIN kv') = SumOf(lens, DOMAIN kv) - its(kv, t) + its(kv', t)
         /\ \A K : t.class \in K => SumOf(lens', OfKind(K)') = SumOf(lens, OfKind(K)) - its(kv, t) + its(kv', t)
         /\ \A K : t.class \notin K => SumOf(lens', OfKind(K)') = SumOf(lens, OfKind(K))
         /\ \A k : SumOf(lens', OfKey(k)') = SumOf(lens, OfKey(k)) - theirs(kv, t, k) + theirs(kv', t, k)
PROOF
<1> DEFINE f == [x \in DOMAIN kv |-> kv[x].len]
           g == [x \in DOMAIN kv' |-> kv'[x].len]
<1>l. lens = f /\ lens' = g
  BY DEF lens
<1>f. IsFiniteSet(DOMAIN kv) /\ \A x \in DOMAIN kv : f[x] \in Int /\ f[x] = kv[x].len
  BY DEF ForumTyped, AnyEntry
<1>g. \A x \in DOMAIN kv' : g[x] \in Int /\ g[x] = kv'[x].len
  BY DEF AnyEntry
<1>s. \A x \in DOMAIN kv \ {t} : f[x] = g[x] /\ x \in DOMAIN kv'
  OBVIOUS
<1> HIDE DEF f, g
<1>0. ASSUME NEW S, NEW T, S \subseteq DOMAIN kv, T \subseteq DOMAIN kv', S \ {t} = T \ {t}
      PROVE  SumOf(g, T) = SumOf(f, S) - share_of(f, S, t) + share_of(g, T, t)
             /\ SumOf(f, S) \in Int
  <2>1. IsFiniteSet(S) /\ IsFiniteSet(T)
    BY <1>0, <1>f, FS_Subset
  <2>2. (\A y \in S : f[y] \in Int) /\ (\A y \in T : g[y] \in Int) /\ (\A y \in S \ {t} : f[y] = g[y])
    BY <1>0, <1>f, <1>g, <1>s
  <2>3. S \ {t} = T \ {t}
    BY <1>0
  <2>m. ASSUME NEW x, S \ {x} = T \ {x}, \A y \in S \ {x} : f[y] = g[y]
        PROVE  SumOf(g, T) = SumOf(f, S) - share_of(f, S, x) + share_of(g, T, x)
    BY <2>1, <2>2, <2>m, SumMoves
  <2>4. SumOf(g, T) = SumOf(f, S) - share_of(f, S, t) + share_of(g, T, t)
    BY <2>2, <2>3, <2>m
  <2> QED BY <2>1, <2>2, <2>4, SumIsInt
<1>1. SumOf(g, DOMAIN kv') = SumOf(f, DOMAIN kv) - its(kv, t) + its(kv', t)
  <2>1. SumOf(g, DOMAIN kv') = SumOf(f, DOMAIN kv) - share_of(f, DOMAIN kv, t) + share_of(g, DOMAIN kv', t)
    BY <1>0
  <2>2. share_of(f, DOMAIN kv, t) = its(kv, t) /\ share_of(g, DOMAIN kv', t) = its(kv', t)
    BY <1>f, <1>g DEF share_of, its
  <2> QED BY <2>1, <2>2
<1>2. ASSUME NEW K
      PROVE  /\ t.class \in K => SumOf(g, OfKind(K)') = SumOf(f, OfKind(K)) - its(kv, t) + its(kv', t)
             /\ t.class \notin K => SumOf(g, OfKind(K)') = SumOf(f, OfKind(K))
  <2>1. OfKind(K) \subseteq DOMAIN kv /\ OfKind(K)' \subseteq DOMAIN kv' /\ OfKind(K) \ {t} = OfKind(K)' \ {t}
    BY <1>s DEF OfKind
  <2>2. SumOf(g, OfKind(K)') = SumOf(f, OfKind(K)) - share_of(f, OfKind(K), t) + share_of(g, OfKind(K)', t)
    BY <1>0, <2>1
  <2>3. CASE t.class \in K
    <3>1. share_of(f, OfKind(K), t) = its(kv, t) /\ share_of(g, OfKind(K)', t) = its(kv', t)
      BY <2>3, <1>f, <1>g DEF share_of, its, OfKind
    <3> QED BY <2>2, <2>3, <3>1
  <2>4. CASE t.class \notin K
    <3>1. share_of(f, OfKind(K), t) = 0 /\ share_of(g, OfKind(K)', t) = 0
      BY <2>4 DEF share_of, OfKind
    <3>2. SumOf(f, OfKind(K)) \in Int
      BY <1>0, <2>1
    <3> QED BY <2>2, <2>4, <3>1, <3>2
  <2> QED BY <2>3, <2>4
<1>3. ASSUME NEW k
      PROVE  SumOf(g, OfKey(k)') = SumOf(f, OfKey(k)) - theirs(kv, t, k) + theirs(kv', t, k)
  <2>1. OfKey(k) \subseteq DOMAIN kv /\ OfKey(k)' \subseteq DOMAIN kv' /\ OfKey(k) \ {t} = OfKey(k)' \ {t}
    BY <1>s DEF OfKey
  <2>2. SumOf(g, OfKey(k)') = SumOf(f, OfKey(k)) - share_of(f, OfKey(k), t) + share_of(g, OfKey(k)', t)
    BY <1>0, <2>1
  <2>3. share_of(f, OfKey(k), t) = theirs(kv, t, k) /\ share_of(g, OfKey(k)', t) = theirs(kv', t, k)
    BY <1>f, <1>g DEF share_of, theirs, OfKey
  <2> QED BY <2>2, <2>3
<1> QED BY <1>l, <1>1, <1>2, <1>3

LEMMA CountsMove ==
  ASSUME ForumTyped, NEW t, IsFiniteSet(DOMAIN kv'), DOMAIN kv' \ {t} = DOMAIN kv \ {t},
         \A x \in DOMAIN kv \ {t} : kv'[x] = kv[x]
  PROVE  /\ Cardinality(OfKind({t.class})') = Cardinality(OfKind({t.class})) - at_all(kv, t) + at_all(kv', t)
         /\ \A k : k # t.class => Cardinality(OfKind({k})') = Cardinality(OfKind({k}))
         /\ \A k : Cardinality((OfKind({"u"}) \cap OfKey(k))')
                     = Cardinality(OfKind({"u"}) \cap OfKey(k)) - claims(kv, t, k) + claims(kv', t, k)
PROOF
<1>0. ASSUME NEW S, NEW T, S \subseteq DOMAIN kv, T \subseteq DOMAIN kv', S \ {t} = T \ {t}
      PROVE  Cardinality(T) = Cardinality(S) - one_in(S, t) + one_in(T, t) /\ Cardinality(S) \in Nat
  <2>1. IsFiniteSet(S) /\ IsFiniteSet(T)
    BY <1>0, FS_Subset DEF ForumTyped
  <2> QED BY <1>0, <2>1, CountMoves
<1>s. \A x \in DOMAIN kv \ {t} : x \in DOMAIN kv' /\ kv'[x] = kv[x]
  OBVIOUS
<1>k. \A K : OfKind(K) \subseteq DOMAIN kv /\ OfKind(K)' \subseteq DOMAIN kv' /\ OfKind(K) \ {t} = OfKind(K)' \ {t}
  BY <1>s DEF OfKind
<1>1. Cardinality(OfKind({t.class})') = Cardinality(OfKind({t.class})) - at_all(kv, t) + at_all(kv', t)
  <2>1. one_in(OfKind({t.class}), t) = at_all(kv, t) /\ one_in(OfKind({t.class})', t) = at_all(kv', t)
    BY DEF one_in, at_all, OfKind
  <2>2. Cardinality(OfKind({t.class})') = Cardinality(OfKind({t.class})) - one_in(OfKind({t.class}), t) + one_in(OfKind({t.class})', t)
    BY <1>0, <1>k
  <2> QED BY <2>1, <2>2
<1>2. ASSUME NEW k, k # t.class PROVE Cardinality(OfKind({k})') = Cardinality(OfKind({k}))
  <2>1. OfKind({k})' = OfKind({k})
    BY <1>2, <1>s DEF OfKind
  <2> QED BY <2>1
<1>3. ASSUME NEW k
      PROVE  Cardinality((OfKind({"u"}) \cap OfKey(k))')
               = Cardinality(OfKind({"u"}) \cap OfKey(k)) - claims(kv, t, k) + claims(kv', t, k)
  <2> DEFINE S == OfKind({"u"}) \cap OfKey(k)
             T == OfKind({"u"})' \cap OfKey(k)'
  <2>1. S \subseteq DOMAIN kv /\ T \subseteq DOMAIN kv' /\ S \ {t} = T \ {t}
    BY <1>s DEF OfKind, OfKey
  <2>2. one_in(S, t) = claims(kv, t, k) /\ one_in(T, t) = claims(kv', t, k)
    BY DEF one_in, claims, OfKind, OfKey
  <2>3. Cardinality(T) = Cardinality(S) - one_in(S, t) + one_in(T, t)
    BY <2>1, <1>0
  <2> QED BY <2>2, <2>3
<1> QED BY <1>1, <1>2, <1>3

\* What the two changes of the store do to it and to its accounts.
LEMMA WithoutTopic ==
  ASSUME ForumTyped, NEW t, NEW r, r = without_topic(t)
  PROVE  /\ DOMAIN r.kv = DOMAIN kv \ {t} /\ \A x \in DOMAIN kv \ {t} : r.kv[x] = kv[x]
         /\ r.bytes = bytes - its(kv, t) /\ r.bytes \in Int
         /\ r.counts \in [Classes -> Int] /\ (t.class \in Classes => r.counts[t.class] = counts[t.class] - at_all(kv, t))
         /\ \A k \in Classes : k # t.class => r.counts[k] = counts[k]
         /\ r.by_author \in [FKeys -> Int] /\ \A k \in FKeys : r.by_author[k] = by_author[k] - theirs(kv, t, k)
         /\ r.claims \in [FKeys -> Int] /\ \A k \in FKeys : r.claims[k] = claims_by_pk[k] - claims(kv, t, k)
         /\ \A i \in DOMAIN ids : ids[i] # t => i \in DOMAIN r.ids /\ r.ids[i] = ids[i]
PROOF
<1>t. /\ bytes \in Int /\ counts \in [Classes -> Int] /\ by_author \in [FKeys -> Int] /\ claims_by_pk \in [FKeys -> Int]
      /\ \A x \in DOMAIN kv : kv[x].len \in Nat
  BY DEF ForumTyped, AnyEntry
<1>1. CASE ~kept_at(t)
  <2>1. t \notin DOMAIN kv /\ r = standing
    BY <1>1 DEF kept_at, without_topic
  <2>2. its(kv, t) = 0 /\ at_all(kv, t) = 0 /\ \A k : theirs(kv, t, k) = 0 /\ claims(kv, t, k) = 0
    BY <2>1 DEF its, at_all, theirs, claims
  <2>3. /\ r.kv = kv /\ r.bytes = bytes /\ r.counts = counts /\ r.ids = ids
        /\ r.by_author = by_author /\ r.claims = claims_by_pk
    BY <2>1 DEF standing
  <2>4. /\ \A k \in FKeys : by_author[k] \in Int /\ by_author[k] = by_author[k] - theirs(kv, t, k)
        /\ \A k \in FKeys : claims_by_pk[k] = claims_by_pk[k] - claims(kv, t, k)
        /\ t.class \in Classes => counts[t.class] = counts[t.class] - at_all(kv, t)
        /\ bytes = bytes - its(kv, t)
    BY <2>2, <1>t
  <2> QED BY <2>1, <2>3, <2>4, <1>t
<1>2. CASE kept_at(t)
  <2>1. t \in DOMAIN kv /\ r = removed(t)
    BY <1>2 DEF kept_at, without_topic
  <2>2. /\ r.kv = Restrict(kv, DOMAIN kv \ {t}) /\ r.bytes = bytes - kv[t].len
        /\ r.counts = minus(counts, t.class, 1)
        /\ r.ids = Restrict(ids, {i \in DOMAIN ids : ids[i] # t})
        /\ r.by_author = minus(by_author, kv[t].pk, kv[t].len)
        /\ r.claims = IF t.class = "u" THEN minus(claims_by_pk, kv[t].pk, 1) ELSE claims_by_pk
    BY <2>1 DEF removed
  <2>3. kv[t].len \in Nat /\ its(kv, t) = kv[t].len /\ at_all(kv, t) = 1
    BY <2>1, <1>t DEF its, at_all
  <2>4. /\ r.counts \in [Classes -> Int]
        /\ (t.class \in Classes => r.counts[t.class] = counts[t.class] - at_all(kv, t))
        /\ \A k \in Classes : k # t.class => r.counts[k] = counts[k]
    BY <1>t, <2>2, <2>3 DEF minus
  <2>5. r.by_author \in [FKeys -> Int] /\ \A k \in FKeys : r.by_author[k] = by_author[k] - theirs(kv, t, k)
    BY <1>t, <2>1, <2>2, <2>3 DEF minus, theirs
  <2>6. r.claims \in [FKeys -> Int] /\ \A k \in FKeys : r.claims[k] = claims_by_pk[k] - claims(kv, t, k)
    BY <1>t, <2>1, <2>2 DEF minus, claims
  <2>7. \A i \in DOMAIN ids : ids[i] # t => i \in DOMAIN r.ids /\ r.ids[i] = ids[i]
    BY <2>2 DEF Restrict
  <2>8. DOMAIN r.kv = DOMAIN kv \ {t} /\ \A x \in DOMAIN kv \ {t} : r.kv[x] = kv[x]
    BY <2>2 DEF Restrict
  <2>9. r.bytes = bytes - its(kv, t) /\ r.bytes \in Int
    BY <2>2, <2>3, <1>t
  <2> QED BY <2>4, <2>5, <2>6, <2>7, <2>8, <2>9
<1> QED BY <1>1, <1>2

LEMMA Inserted ==
  ASSUME ForumTyped, NEW t, t.class \in Classes, NEW e \in AnyEntry, insert_at(t, e)
  PROVE  /\ DOMAIN kv' = DOMAIN kv \cup {t} /\ kv'[t] = e /\ \A x \in DOMAIN kv \ {t} : kv'[x] = kv[x]
         /\ bytes' = bytes - its(kv, t) + e.len /\ bytes' \in Int
         /\ counts' \in [Classes -> Int] /\ counts'[t.class] = counts[t.class] - at_all(kv, t) + 1
         /\ \A k \in Classes : k # t.class => counts'[k] = counts[k]
         /\ by_author' \in [FKeys -> Int]
         /\ \A k \in FKeys : by_author'[k] = by_author[k] - theirs(kv, t, k) + (IF e.pk = k THEN e.len ELSE 0)
         /\ claims_by_pk' \in [FKeys -> Int]
         /\ \A k \in FKeys : claims_by_pk'[k] = claims_by_pk[k] - claims(kv, t, k)
                                                + (IF t.class = "u" /\ e.pk = k THEN 1 ELSE 0)
         /\ \A i \in DOMAIN ids : ids[i] # t /\ (t.class \in {"t", "r"} => i # t.id) => i \in DOMAIN ids' /\ ids'[i] = ids[i]
         /\ t.class \in {"t", "r"} => t.id \in DOMAIN ids' /\ ids'[t.id] = t
PROOF
<1> DEFINE r == without_topic(t)
<1>1. /\ DOMAIN r.kv = DOMAIN kv \ {t} /\ \A x \in DOMAIN kv \ {t} : r.kv[x] = kv[x]
      /\ r.bytes = bytes - its(kv, t) /\ r.bytes \in Int
      /\ r.counts \in [Classes -> Int] /\ r.counts[t.class] = counts[t.class] - at_all(kv, t)
      /\ \A k \in Classes : k # t.class => r.counts[k] = counts[k]
      /\ r.by_author \in [FKeys -> Int] /\ \A k \in FKeys : r.by_author[k] = by_author[k] - theirs(kv, t, k)
      /\ r.claims \in [FKeys -> Int] /\ \A k \in FKeys : r.claims[k] = claims_by_pk[k] - claims(kv, t, k)
      /\ \A i \in DOMAIN ids : ids[i] # t => i \in DOMAIN r.ids /\ r.ids[i] = ids[i]
  BY WithoutTopic
<1>2. /\ kv' = put_one(r.kv, t, e) /\ bytes' = r.bytes + e.len /\ counts' = plus(r.counts, t.class, 1)
      /\ ids' = (IF post_id(t) = {} THEN r.ids ELSE put_one(r.ids, t.id, t))
      /\ by_author' = plus(r.by_author, e.pk, e.len)
      /\ claims_by_pk' = (IF t.class = "u" THEN plus(r.claims, e.pk, 1) ELSE r.claims)
  BY DEF insert_at
<1>e. e.len \in Nat
  BY DEF AnyEntry
<1> HIDE DEF r
<1>3. DOMAIN kv' = DOMAIN kv \cup {t} /\ kv'[t] = e /\ \A x \in DOMAIN kv \ {t} : kv'[x] = kv[x]
  BY <1>1, <1>2 DEF put_one
<1>4. counts' \in [Classes -> Int] /\ counts'[t.class] = r.counts[t.class] + 1
      /\ \A k \in Classes : k # t.class => counts'[k] = counts[k]
  BY <1>1, <1>2 DEF plus
<1>5. by_author' \in [FKeys -> Int]
      /\ \A k \in FKeys : by_author'[k] = r.by_author[k] + (IF e.pk = k THEN e.len ELSE 0)
  BY <1>1, <1>2, <1>e DEF plus
<1>6. claims_by_pk' \in [FKeys -> Int]
      /\ \A k \in FKeys : claims_by_pk'[k] = r.claims[k] + (IF t.class = "u" /\ e.pk = k THEN 1 ELSE 0)
  BY <1>1, <1>2 DEF plus
<1>7. post_id(t) = {} <=> t.class \notin {"t", "r"}
  BY DEF post_id
<1>8. /\ \A i \in DOMAIN ids : ids[i] # t /\ (t.class \in {"t", "r"} => i # t.id) => i \in DOMAIN ids' /\ ids'[i] = ids[i]
      /\ t.class \in {"t", "r"} => t.id \in DOMAIN ids' /\ ids'[t.id] = t
  <2>1. CASE post_id(t) = {}
    BY <2>1, <1>1, <1>2, <1>7
  <2>2. CASE post_id(t) # {}
    <3>1. ids' = put_one(r.ids, t.id, t)
      BY <2>2, <1>2
    <3>2. DOMAIN ids' = DOMAIN r.ids \cup {t.id} /\ ids'[t.id] = t /\ \A i \in DOMAIN r.ids : i # t.id => ids'[i] = r.ids[i]
      BY <3>1 DEF put_one
    <3> QED BY <2>2, <3>2, <1>1, <1>7
  <2> QED BY <2>1, <2>2
<1>9. bytes' = bytes - its(kv, t) + e.len /\ bytes' \in Int
  BY <1>1, <1>2, <1>e
<1>10. counts'[t.class] = counts[t.class] - at_all(kv, t) + 1
  BY <1>1, <1>4
<1>11. \A k \in FKeys : by_author'[k] = by_author[k] - theirs(kv, t, k) + (IF e.pk = k THEN e.len ELSE 0)
  BY <1>1, <1>5
<1>12. \A k \in FKeys : claims_by_pk'[k] = claims_by_pk[k] - claims(kv, t, k) + (IF t.class = "u" /\ e.pk = k THEN 1 ELSE 0)
  BY <1>1, <1>6
<1> QED BY <1>3, <1>4, <1>5, <1>6, <1>8, <1>9, <1>10, <1>11, <1>12

\* The store's accounts after a change of one topic that they followed.
LEMMA AccountsFollow ==
  ASSUME ForumInv, NEW t, t.class \in Classes, IsFiniteSet(DOMAIN kv'), DOMAIN kv' \ {t} = DOMAIN kv \ {t},
         \A x \in DOMAIN kv \ {t} : kv'[x] = kv[x], \A x \in DOMAIN kv' : kv'[x] \in AnyEntry,
         bytes' = bytes - its(kv, t) + its(kv', t),
         counts'[t.class] = counts[t.class] - at_all(kv, t) + at_all(kv', t),
         \A k \in Classes : k # t.class => counts'[k] = counts[k],
         \A k \in FKeys : by_author'[k] = by_author[k] - theirs(kv, t, k) + theirs(kv', t, k),
         \A k \in FKeys : claims_by_pk'[k] = claims_by_pk[k] - claims(kv, t, k) + claims(kv', t, k)
  PROVE  /\ bytes' = SumOf(lens', DOMAIN kv')
         /\ \A k \in Classes : counts'[k] = Cardinality(OfKind({k})')
         /\ \A k \in FKeys : /\ by_author'[k] = SumOf(lens', OfKey(k)')
                             /\ claims_by_pk'[k] = Cardinality((OfKind({"u"}) \cap OfKey(k))')
PROOF
<1>1. /\ ForumTyped /\ bytes = SumOf(lens, DOMAIN kv) /\ \A k \in Classes : counts[k] = Cardinality(OfKind({k}))
      /\ \A k \in FKeys : by_author[k] = SumOf(lens, OfKey(k)) /\ claims_by_pk[k] = Cardinality(OfKind({"u"}) \cap OfKey(k))
  BY DEF ForumInv, AccountsExact
<1>2. bytes' = SumOf(lens', DOMAIN kv')
  <2>1. SumOf(lens', DOMAIN kv') = SumOf(lens, DOMAIN kv) - its(kv, t) + its(kv', t)
    BY <1>1, SumsMove
  <2> QED BY <1>1, <2>1
<1>3. ASSUME NEW k \in Classes PROVE counts'[k] = Cardinality(OfKind({k})')
  <2>1. CASE k = t.class
    <3>1. Cardinality(OfKind({t.class})') = Cardinality(OfKind({t.class})) - at_all(kv, t) + at_all(kv', t)
      BY <1>1, CountsMove
    <3> QED BY <2>1, <3>1, <1>1
  <2>2. CASE k # t.class
    <3>1. Cardinality(OfKind({k})') = Cardinality(OfKind({k}))
      BY <2>2, <1>1, CountsMove
    <3> QED BY <2>2, <3>1, <1>1
  <2> QED BY <2>1, <2>2
<1>4. ASSUME NEW k \in FKeys
      PROVE  by_author'[k] = SumOf(lens', OfKey(k)') /\ claims_by_pk'[k] = Cardinality((OfKind({"u"}) \cap OfKey(k))')
  <2>1. SumOf(lens', OfKey(k)') = SumOf(lens, OfKey(k)) - theirs(kv, t, k) + theirs(kv', t, k)
    BY <1>1, SumsMove
  <2>2. Cardinality((OfKind({"u"}) \cap OfKey(k))') = Cardinality(OfKind({"u"}) \cap OfKey(k)) - claims(kv, t, k) + claims(kv', t, k)
    BY <1>1, CountsMove
  <2> QED BY <1>1, <2>1, <2>2
<1> QED BY <1>2, <1>3, <1>4

\* A payload put where there was room for it, by the rules for posts if it is one.
LEMMA KeepingKeeps ==
  ASSUME ForumInv, NEW t, t.class \in Classes, NEW e \in AnyEntry, keeps(t, e), now' \in Int,
         t \in PostTopics => /\ t.class \in {"t", "r"} /\ e.pk \in FKeys /\ firstKey'[t] = e.pk
                             /\ (t.id \in DOMAIN ids => ids[t.id] = t),
         t.class \in {"t", "r"} => t \in PostTopics,
         \A x \in DOMAIN kv \cap PostTopics : x # t => firstKey'[x] = firstKey[x],
         DOMAIN firstKey' = (DOMAIN kv \cup {t}) \cap PostTopics
  PROVE  ForumInv'
PROOF
<1> USE ForumConstants
<1>1. ForumTyped /\ AccountsExact /\ SharesKept /\ PostsStayTheirs /\ \A x \in DOMAIN kv \cap PostTopics : kv[x].pk \in FKeys
  BY DEF ForumInv
<1>t. /\ IsFiniteSet(DOMAIN kv) /\ (\A x \in DOMAIN kv : kv[x] \in AnyEntry /\ kv[x].len \in Nat) /\ e.len \in Nat
      /\ bytes \in Int /\ by_author \in [FKeys -> Int] /\ e.pk \in FKeys \cup {NoOne}
  BY <1>1 DEF ForumTyped, AnyEntry
<1>2. insert_at(t, e) /\ ~refuse_room(t, e)
  BY DEF keeps
<1>3. /\ DOMAIN kv' = DOMAIN kv \cup {t} /\ kv'[t] = e /\ \A x \in DOMAIN kv \ {t} : kv'[x] = kv[x]
      /\ bytes' = bytes - its(kv, t) + e.len /\ bytes' \in Int
      /\ counts' \in [Classes -> Int] /\ counts'[t.class] = counts[t.class] - at_all(kv, t) + 1
      /\ \A k \in Classes : k # t.class => counts'[k] = counts[k]
      /\ by_author' \in [FKeys -> Int]
      /\ \A k \in FKeys : by_author'[k] = by_author[k] - theirs(kv, t, k) + (IF e.pk = k THEN e.len ELSE 0)
      /\ claims_by_pk' \in [FKeys -> Int]
      /\ \A k \in FKeys : claims_by_pk'[k] = claims_by_pk[k] - claims(kv, t, k) + (IF t.class = "u" /\ e.pk = k THEN 1 ELSE 0)
      /\ \A i \in DOMAIN ids : ids[i] # t /\ (t.class \in {"t", "r"} => i # t.id) => i \in DOMAIN ids' /\ ids'[i] = ids[i]
      /\ t.class \in {"t", "r"} => t.id \in DOMAIN ids' /\ ids'[t.id] = t
  BY <1>1, <1>2, Inserted
<1>4. /\ IsFiniteSet(DOMAIN kv') /\ DOMAIN kv' \ {t} = DOMAIN kv \ {t} /\ \A x \in DOMAIN kv' : kv'[x] \in AnyEntry
  BY <1>3, <1>t, FS_AddElement
<1>5. ForumTyped'
  BY <1>3, <1>4 DEF ForumTyped
<1>6. /\ its(kv', t) = e.len /\ at_all(kv', t) = 1
      /\ \A k : theirs(kv', t, k) = (IF e.pk = k THEN e.len ELSE 0)
      /\ \A k : claims(kv', t, k) = (IF t.class = "u" /\ e.pk = k THEN 1 ELSE 0)
  BY <1>3 DEF its, at_all, theirs, claims
<1>7. /\ bytes' = SumOf(lens', DOMAIN kv')
      /\ \A k \in Classes : counts'[k] = Cardinality(OfKind({k})')
      /\ \A k \in FKeys : /\ by_author'[k] = SumOf(lens', OfKey(k)')
                          /\ claims_by_pk'[k] = Cardinality((OfKind({"u"}) \cap OfKey(k))')
  <2>1. /\ bytes' = bytes - its(kv, t) + its(kv', t)
        /\ counts'[t.class] = counts[t.class] - at_all(kv, t) + at_all(kv', t)
        /\ \A k \in FKeys : by_author'[k] = by_author[k] - theirs(kv, t, k) + theirs(kv', t, k)
        /\ \A k \in FKeys : claims_by_pk'[k] = claims_by_pk[k] - claims(kv, t, k) + claims(kv', t, k)
    BY <1>3, <1>6
  <2>2. /\ \A x \in DOMAIN kv \ {t} : kv'[x] = kv[x]
        /\ \A k \in Classes : k # t.class => counts'[k] = counts[k]
    BY <1>3
  <2> QED BY <2>1, <2>2, <1>4, AccountsFollow
<1>8. \A x \in DOMAIN kv' \cap PostTopics : x.id \in DOMAIN ids' /\ ids'[x.id] = x
  <2> SUFFICES ASSUME NEW x \in DOMAIN kv', x \in PostTopics PROVE x.id \in DOMAIN ids' /\ ids'[x.id] = x
    OBVIOUS
  <2>1. CASE x = t
    BY <2>1, <1>3
  <2>2. CASE x # t
    <3>1. x \in DOMAIN kv /\ x.id \in DOMAIN ids /\ ids[x.id] = x
      BY <2>2, <1>1, <1>3 DEF AccountsExact
    <3>2. t.class \in {"t", "r"} => x.id # t.id
      BY <2>2, <3>1
    <3> QED BY <2>2, <3>1, <3>2, <1>3
  <2> QED BY <2>1, <2>2
<1>9. AccountsExact'
  BY <1>7, <1>8 DEF AccountsExact
<1>10. bytes' <= byte_limit_for(t)
  <2>1. (IF kept_at(t) THEN kv[t].len ELSE 0) = its(kv, t)
    BY DEF its, kept_at
  <2>2. ~(bytes - its(kv, t) + e.len > byte_limit_for(t))
    BY <1>2, <2>1 DEF refuse_room
  <2>3. byte_limit_for(t) \in Int
    BY DEF byte_limit_for
  <2> QED BY <2>2, <2>3, <1>3
<1>11. SharesKept'
  <2>n. \A x \in DOMAIN kv' : lens'[x] \in Nat
    BY <1>4 DEF lens, AnyEntry
  <2>s. ASSUME NEW K PROVE SumOf(lens', OfKind(K)') <= bytes'
    <3>1. OfKind(K)' \subseteq DOMAIN kv'
      BY DEF OfKind
    <3> QED BY <3>1, <2>n, <1>4, <1>7, SumOfPart
  <2>i. ASSUME NEW K PROVE SumOf(lens', OfKind(K)') \in Int
    <3>1. OfKind(K)' \subseteq DOMAIN kv' /\ IsFiniteSet(OfKind(K)')
      BY <1>4, FS_Subset DEF OfKind
    <3>2. \A x \in OfKind(K)' : lens'[x] \in Int
      BY <2>n, <3>1
    <3> QED BY <3>1, <3>2, SumIsInt
  <2>k. ASSUME NEW K, t.class \notin K PROVE SumOf(lens', OfKind(K)') = SumOf(lens, OfKind(K))
    BY <2>k, <1>1, <1>3, <1>4, SumsMove
  <2> DEFINE Posts == {"t", "r", "rep"}
             Names == {"t", "r", "rep", "u"}
  <2>0. /\ bytes <= MAX_RETAINED_BYTES
        /\ SumOf(lens, OfKind(Posts)) <= MAX_RETAINED_BYTES - 2 * RETAINED_RESERVE_BYTES
        /\ SumOf(lens, OfKind(Names)) <= MAX_RETAINED_BYTES - RETAINED_RESERVE_BYTES
        /\ \A k \in FKeys : by_author[k] <= MAX_BYTES_PER_AUTHOR
    BY <1>1 DEF SharesKept
  <2>l. /\ t.class \in Posts => bytes' <= MAX_RETAINED_BYTES - 2 * RETAINED_RESERVE_BYTES
        /\ t.class \in Names => bytes' <= MAX_RETAINED_BYTES - RETAINED_RESERVE_BYTES
        /\ bytes' <= MAX_RETAINED_BYTES
    BY <1>3, <1>10 DEF byte_limit_for, Classes
  <2>1. SumOf(lens', OfKind(Posts)') <= MAX_RETAINED_BYTES - 2 * RETAINED_RESERVE_BYTES
    <3> HIDE DEF Posts
    <3>1. CASE t.class \in Posts
      <4>1. SumOf(lens', OfKind(Posts)') <= bytes' /\ SumOf(lens', OfKind(Posts)') \in Int
        BY <2>s, <2>i
      <4> QED BY <3>1, <4>1, <2>l, <1>3
    <3>2. CASE t.class \notin Posts
      BY <3>2, <2>k, <2>0
    <3> QED BY <3>1, <3>2
  <2>2. SumOf(lens', OfKind(Names)') <= MAX_RETAINED_BYTES - RETAINED_RESERVE_BYTES
    <3> HIDE DEF Names
    <3>1. CASE t.class \in Names
      <4>1. SumOf(lens', OfKind(Names)') <= bytes' /\ SumOf(lens', OfKind(Names)') \in Int
        BY <2>s, <2>i
      <4> QED BY <3>1, <4>1, <2>l, <1>3
    <3>2. CASE t.class \notin Names
      BY <3>2, <2>k, <2>0
    <3> QED BY <3>1, <3>2
  <2>3. ASSUME NEW k \in FKeys PROVE by_author'[k] <= MAX_BYTES_PER_AUTHOR
    <3>1. theirs(kv, t, k) \in Nat
      BY <1>t DEF theirs
    <3>2. CASE e.pk = k
      <4>1. e.pk # NoOne
        BY <3>2
      <4>2. (IF pk_of(t) = k THEN (IF kept_at(t) THEN kv[t].len ELSE 0) ELSE 0) = theirs(kv, t, k)
        BY <4>1, <3>2 DEF theirs, pk_of, kept_at
      <4>3. ~(by_author[k] - theirs(kv, t, k) + e.len > MAX_BYTES_PER_AUTHOR)
        BY <1>2, <3>2, <4>1, <4>2 DEF refuse_room
      <4>4. by_author'[k] = by_author[k] - theirs(kv, t, k) + e.len /\ by_author[k] \in Int
        BY <1>3, <1>t, <3>2
      <4> QED BY <3>1, <4>3, <4>4, <1>t
    <3>3. CASE e.pk # k
      <4>1. by_author'[k] = by_author[k] - theirs(kv, t, k) + 0 /\ by_author[k] \in Int
        BY <1>3, <1>t, <3>3
      <4> QED BY <3>1, <4>1, <2>0
    <3> QED BY <3>2, <3>3
  <2> QED BY <2>1, <2>2, <2>3, <2>l DEF SharesKept
<1>12. \A x \in DOMAIN kv' \cap PostTopics : kv'[x].pk = firstKey'[x] /\ kv'[x].pk \in FKeys
  BY <1>1, <1>3 DEF PostsStayTheirs
<1>13. PostsStayTheirs'
  BY <1>8, <1>12 DEF PostsStayTheirs
<1> QED BY <1>3, <1>5, <1>9, <1>11, <1>12, <1>13 DEF ForumInv

\* What is not a post is taken off.
LEMMA TakingOffKeeps ==
  ASSUME ForumInv, NEW t, t \notin PostTopics, t.class \in Classes \ {"t", "r"}, takes_off(t), UNCHANGED <<now, firstKey>>
  PROVE  ForumInv'
PROOF
<1> USE ForumConstants
<1>1. /\ ForumTyped /\ AccountsExact /\ SharesKept /\ PostsStayTheirs /\ \A x \in DOMAIN kv \cap PostTopics : kv[x].pk \in FKeys
      /\ DOMAIN firstKey = DOMAIN kv \cap PostTopics
  BY DEF ForumInv
<1>t. /\ IsFiniteSet(DOMAIN kv) /\ (\A x \in DOMAIN kv : kv[x] \in AnyEntry /\ kv[x].len \in Nat)
      /\ bytes \in Int /\ by_author \in [FKeys -> Int] /\ now \in Int
  BY <1>1 DEF ForumTyped, AnyEntry
<1> DEFINE r == without_topic(t)
<1>2. /\ kv' = r.kv /\ bytes' = r.bytes /\ counts' = r.counts /\ ids' = r.ids
      /\ by_author' = r.by_author /\ claims_by_pk' = r.claims
  BY DEF takes_off
<1> HIDE DEF r
<1>3. /\ DOMAIN kv' = DOMAIN kv \ {t} /\ \A x \in DOMAIN kv \ {t} : kv'[x] = kv[x]
      /\ bytes' = bytes - its(kv, t) /\ bytes' \in Int
      /\ counts' \in [Classes -> Int] /\ counts'[t.class] = counts[t.class] - at_all(kv, t)
      /\ \A k \in Classes : k # t.class => counts'[k] = counts[k]
      /\ by_author' \in [FKeys -> Int] /\ \A k \in FKeys : by_author'[k] = by_author[k] - theirs(kv, t, k)
      /\ claims_by_pk' \in [FKeys -> Int] /\ \A k \in FKeys : claims_by_pk'[k] = claims_by_pk[k] - claims(kv, t, k)
      /\ \A i \in DOMAIN ids : ids[i] # t => i \in DOMAIN ids' /\ ids'[i] = ids[i]
  <2>1. r = without_topic(t)
    BY DEF r
  <2> QED BY <2>1, <1>1, <1>2, WithoutTopic
<1>4. IsFiniteSet(DOMAIN kv') /\ DOMAIN kv' \ {t} = DOMAIN kv \ {t} /\ \A x \in DOMAIN kv' : kv'[x] \in AnyEntry
  BY <1>3, <1>t, FS_Subset
<1>5. ForumTyped'
  BY <1>3, <1>4, <1>t DEF ForumTyped
<1>6. its(kv', t) = 0 /\ at_all(kv', t) = 0 /\ \A k : theirs(kv', t, k) = 0 /\ claims(kv', t, k) = 0
  BY <1>3 DEF its, at_all, theirs, claims
<1>n. /\ its(kv, t) \in Nat /\ at_all(kv, t) \in Nat /\ \A k : theirs(kv, t, k) \in Nat /\ claims(kv, t, k) \in Nat
      /\ counts[t.class] \in Int /\ \A k \in FKeys : claims_by_pk[k] \in Int /\ by_author[k] \in Int
  BY <1>t, <1>1 DEF its, at_all, theirs, claims, ForumTyped
<1>7. /\ bytes' = SumOf(lens', DOMAIN kv')
      /\ \A k \in Classes : counts'[k] = Cardinality(OfKind({k})')
      /\ \A k \in FKeys : /\ by_author'[k] = SumOf(lens', OfKey(k)')
                          /\ claims_by_pk'[k] = Cardinality((OfKind({"u"}) \cap OfKey(k))')
  <2>1. /\ bytes' = bytes - its(kv, t) + its(kv', t)
        /\ counts'[t.class] = counts[t.class] - at_all(kv, t) + at_all(kv', t)
        /\ \A k \in FKeys : by_author'[k] = by_author[k] - theirs(kv, t, k) + theirs(kv', t, k)
        /\ \A k \in FKeys : claims_by_pk'[k] = claims_by_pk[k] - claims(kv, t, k) + claims(kv', t, k)
    BY <1>3, <1>6, <1>n, <1>t
  <2> QED BY <2>1, <1>3, <1>4, AccountsFollow
<1>8. \A x \in DOMAIN kv' \cap PostTopics : x.id \in DOMAIN ids' /\ ids'[x.id] = x
  BY <1>1, <1>3 DEF AccountsExact
<1>9. AccountsExact'
  BY <1>7, <1>8 DEF AccountsExact
<1>10. SharesKept'
  <2>1. ASSUME NEW K PROVE SumOf(lens', OfKind(K)') <= SumOf(lens, OfKind(K)) /\ SumOf(lens', OfKind(K)') \in Int
                           /\ SumOf(lens, OfKind(K)) \in Int
    <3>1. SumOf(lens, OfKind(K)) \in Int
      <4>1. OfKind(K) \subseteq DOMAIN kv /\ IsFiniteSet(OfKind(K))
        BY <1>t, FS_Subset DEF OfKind
      <4>2. \A x \in OfKind(K) : lens[x] \in Int
        BY <4>1, <1>t DEF lens
      <4> QED BY <4>1, <4>2, SumIsInt
    <3>2. CASE t.class \in K
      <4>1. SumOf(lens', OfKind(K)') = SumOf(lens, OfKind(K)) - its(kv, t) + its(kv', t)
        BY <3>2, <1>1, <1>3, <1>4, SumsMove
      <4> QED BY <3>1, <4>1, <1>6, <1>n
    <3>3. CASE t.class \notin K
      <4>1. SumOf(lens', OfKind(K)') = SumOf(lens, OfKind(K))
        BY <3>3, <1>1, <1>3, <1>4, SumsMove
      <4> QED BY <3>1, <4>1
    <3> QED BY <3>2, <3>3
  <2>2. /\ bytes <= MAX_RETAINED_BYTES
        /\ SumOf(lens, OfKind({"t", "r", "rep"})) <= MAX_RETAINED_BYTES - 2 * RETAINED_RESERVE_BYTES
        /\ SumOf(lens, OfKind({"t", "r", "rep", "u"})) <= MAX_RETAINED_BYTES - RETAINED_RESERVE_BYTES
        /\ \A k \in FKeys : by_author[k] <= MAX_BYTES_PER_AUTHOR
    BY <1>1 DEF SharesKept
  <2>3. bytes' <= MAX_RETAINED_BYTES /\ \A k \in FKeys : by_author'[k] <= MAX_BYTES_PER_AUTHOR
    BY <2>2, <1>3, <1>n, <1>t
  <2>4. ASSUME NEW K, NEW x \in Int, SumOf(lens, OfKind(K)) <= x PROVE SumOf(lens', OfKind(K)') <= x
    <3> DEFINE a == SumOf(lens, OfKind(K))
               b == SumOf(lens', OfKind(K)')
    <3>1. b <= a /\ a <= x /\ a \in Int /\ b \in Int
      BY <2>1, <2>4
    <3> HIDE DEF a, b
    <3>2. b <= x
      BY <3>1
    <3> QED BY <3>2 DEF b
  <2>5. MAX_RETAINED_BYTES - 2 * RETAINED_RESERVE_BYTES \in Int /\ MAX_RETAINED_BYTES - RETAINED_RESERVE_BYTES \in Int
    OBVIOUS
  <2>6. /\ SumOf(lens', OfKind({"t", "r", "rep"})') <= MAX_RETAINED_BYTES - 2 * RETAINED_RESERVE_BYTES
        /\ SumOf(lens', OfKind({"t", "r", "rep", "u"})') <= MAX_RETAINED_BYTES - RETAINED_RESERVE_BYTES
    BY <2>2, <2>4, <2>5
  <2> QED BY <2>3, <2>6 DEF SharesKept
<1>11. DOMAIN kv' \cap PostTopics = DOMAIN kv \cap PostTopics /\ \A x \in DOMAIN kv \cap PostTopics : kv'[x] = kv[x]
  BY <1>3
<1>12. PostsStayTheirs'
  BY <1>1, <1>8, <1>11 DEF PostsStayTheirs
<1>13. (\A x \in DOMAIN kv \cap PostTopics : kv[x].pk \in FKeys)' /\ (DOMAIN firstKey = DOMAIN kv \cap PostTopics)'
  BY <1>1, <1>11
<1> QED BY <1>5, <1>9, <1>10, <1>12, <1>13 DEF ForumInv

LEMMA TopicKinds ==
  /\ \A t \in PostTopics : t.class \in {"t", "r"}
  /\ \A n \in FNames : NameTopic(n).class = "u" /\ NameTopic(n) \notin PostTopics
  /\ \A i \in Ids, c \in {"mod", "rep"} : Topic(c, i, "").class = c /\ Topic(c, i, "") \notin PostTopics
  /\ Admin.class = "admin" /\ Admin \notin PostTopics /\ Registry.class = "registry" /\ Registry \notin PostTopics
PROOF
<1>1. \A t \in PostTopics : t.class \in {"t", "r"}
  <2> DEFINE P == {Topic("t", i, "") : i \in Ids}
             R == {Topic("r", i, th) : i \in Ids, th \in Threads}
  <2>1. PostTopics = P \cup R
    BY SMT DEF PostTopics
  <2>2. \A x : x \in P => \E i \in Ids : x = Topic("t", i, "")
    BY Zenon
  <2>3. \A x : x \in R => \E i \in Ids, th \in Threads : x = Topic("r", i, th)
    BY SMT
  <2> HIDE DEF P, R
  <2>5. ASSUME NEW x \in P PROVE x.class = "t"
    <3>1. PICK i \in Ids : x = Topic("t", i, "")
      BY <2>2, Zenon
    <3> QED BY <3>1 DEF Topic
  <2>6. ASSUME NEW x \in R PROVE x.class = "r"
    <3>1. PICK i \in Ids, th \in Threads : x = Topic("r", i, th)
      BY <2>3, Zenon
    <3> QED BY <3>1 DEF Topic
  <2> QED BY <2>1, <2>5, <2>6, Zenon
<1>2. \A n \in FNames : NameTopic(n).class = "u"
  BY DEF NameTopic, Topic
<1>3. \A i \in Ids, c \in {"mod", "rep"} : Topic(c, i, "").class = c
  BY DEF Topic
<1>4. Admin.class = "admin" /\ Registry.class = "registry"
  BY DEF Admin, Registry, Topic
<1> QED BY <1>1, <1>2, <1>3, <1>4

\* What is not a post is put in its place.
LEMMA OtherKeeps ==
  ASSUME ForumInv, NEW t, t.class \in Classes \ {"t", "r"}, t \notin PostTopics, NEW e \in AnyEntry, keeps(t, e),
         UNCHANGED <<now, firstKey>>
  PROVE  ForumInv'
PROOF
<1>1. now \in Int /\ DOMAIN firstKey = DOMAIN kv \cap PostTopics
  BY DEF ForumInv, ForumTyped
<1>2. DOMAIN firstKey' = (DOMAIN kv \cup {t}) \cap PostTopics
  BY <1>1
<1> QED BY <1>1, <1>2, KeepingKeeps

LEMMA ForumStep ==
  ASSUME ForumInv, FrNext
  PROVE  ForumInv'
PROOF
<1> USE ForumConstants
<1>t. now \in Int /\ DOMAIN firstKey = DOMAIN kv \cap PostTopics /\ \A x \in DOMAIN kv \cap PostTopics : kv[x].pk = firstKey[x]
  BY DEF ForumInv, ForumTyped, PostsStayTheirs
<1>c. {"u", "mod", "rep", "admin", "registry"} \subseteq Classes \ {"t", "r"} /\ {"t", "r"} \subseteq Classes
  BY DEF Classes
<1>e. /\ \A pk \in FKeys \cup {NoOne}, len \in Nat : Said(pk, len) \in AnyEntry /\ Said(pk, len).pk = pk
      /\ \A pk \in FKeys : Entry(pk, 1, TRUE, 0, <<>>, NoOne) \in AnyEntry /\ Entry(pk, 1, TRUE, 0, <<>>, NoOne).pk = pk
      /\ \A s \in 1..MaxSeq, l \in Lists, a \in FKeys \cup {NoOne} : Entry(NoOne, 1, FALSE, s, l, a) \in AnyEntry
  BY <1>t DEF Said, Entry, AnyEntry
<1>1. ASSUME NEW pk \in FKeys, NEW n \in FNames, Claim(n, pk) PROVE ForumInv'
  <2>1. keeps(NameTopic(n), Said(pk, 1)) /\ UNCHANGED <<now, firstKey>>
    BY <1>1 DEF Claim
  <2> QED BY <2>1, <1>c, <1>e, TopicKinds, OtherKeeps
<1>2. ASSUME NEW pk \in FKeys, NEW t \in PostTopics, NEW n \in FNames, NEW len \in 1..2, Post(t, pk, n, len) PROVE ForumInv'
  <2>1. /\ place_is(t, pk) /\ (t.id \in DOMAIN ids => ids[t.id] = t) /\ keeps(t, Said(pk, len)) /\ now' \in Int
        /\ firstKey' = (IF t \in DOMAIN firstKey THEN firstKey ELSE put_one(firstKey, t, pk))
    BY <1>2, <1>t DEF Post
  <2>2. DOMAIN firstKey' = (DOMAIN kv \cup {t}) \cap PostTopics
        /\ \A x \in DOMAIN kv \cap PostTopics : x # t => firstKey'[x] = firstKey[x]
    BY <2>1, <1>t DEF put_one
  <2>3. firstKey'[t] = pk
    <3>1. CASE t \in DOMAIN firstKey
      <4>1. t \in DOMAIN kv /\ kv[t].pk = firstKey[t] /\ kv[t].pk \in FKeys
        BY <3>1, <1>t DEF ForumInv
      <4>2. kv[t].pk \in {pk, NoOne}
        BY <4>1, <2>1 DEF place_is, kept_at, pk_of
      <4> QED BY <3>1, <4>1, <4>2, <2>1
    <3>2. CASE t \notin DOMAIN firstKey
      BY <3>2, <2>1 DEF put_one
    <3> QED BY <3>1, <3>2
  <2>4. Said(pk, len) \in AnyEntry /\ Said(pk, len).pk = pk
    <3>1. len \in Nat
      OBVIOUS
    <3> QED BY <3>1, <1>e
  <2>5. t.class \in {"t", "r"} /\ t.class \in Classes
    BY TopicKinds, <1>c
  <2> QED BY <2>1, <2>2, <2>3, <2>4, <2>5, KeepingKeeps
<1>3. ASSUME NEW pk \in FKeys, NEW t \in PostTopics, Tombstone(t, pk) PROVE ForumInv'
  <2>1. pk_of(t) = pk /\ keeps(t, Entry(pk, 1, TRUE, 0, <<>>, NoOne)) /\ UNCHANGED <<now, firstKey>>
    BY <1>3 DEF Tombstone
  <2>2. t \in DOMAIN kv /\ kv[t].pk = pk
    BY <2>1 DEF pk_of, kept_at
  <2>3. DOMAIN firstKey' = (DOMAIN kv \cup {t}) \cap PostTopics /\ firstKey'[t] = pk
        /\ \A x \in DOMAIN kv \cap PostTopics : x # t => firstKey'[x] = firstKey[x]
    BY <2>1, <2>2, <1>t
  <2>4. t.id \in DOMAIN ids /\ ids[t.id] = t
    BY <2>2 DEF ForumInv, AccountsExact
  <2>5. t.class \in {"t", "r"} /\ t.class \in Classes
    BY TopicKinds, <1>c
  <2>6. now' \in Int
    BY <2>1, <1>t
  <2> DEFINE e == Entry(pk, 1, TRUE, 0, <<>>, NoOne)
  <2>7. e \in AnyEntry /\ e.pk = pk /\ keeps(t, e)
    BY <2>1, <1>e
  <2> HIDE DEF e
  <2> QED BY <2>3, <2>4, <2>5, <2>6, <2>7, KeepingKeeps
<1>4. ASSUME NEW pk \in FKeys, NEW i \in Ids, Hide(i, pk) PROVE ForumInv'
  <2>1. keeps(Topic("mod", i, ""), Said(pk, 1)) /\ UNCHANGED <<now, firstKey>>
    BY <1>4 DEF Hide
  <2> QED BY <2>1, <1>c, <1>e, TopicKinds, OtherKeeps
<1>5. ASSUME NEW pk \in FKeys, AdminClaim(pk) PROVE ForumInv'
  <2>1. keeps(Admin, Said(pk, 1)) /\ UNCHANGED <<now, firstKey>>
    BY <1>5 DEF AdminClaim
  <2> QED BY <2>1, <1>c, <1>e, TopicKinds, OtherKeeps
<1>6. ASSUME NEW i \in Ids, Report(i) PROVE ForumInv'
  <2>1. keeps(Topic("rep", i, ""), Said(NoOne, 1)) /\ UNCHANGED <<now, firstKey>>
    BY <1>6 DEF Report
  <2> QED BY <2>1, <1>c, <1>e, TopicKinds, OtherKeeps
<1>7. ASSUME NEW i \in Ids, Unreport(i) PROVE ForumInv'
  <2>1. takes_off(Topic("rep", i, "")) /\ UNCHANGED <<now, firstKey>>
    BY <1>7 DEF Unreport
  <2> QED BY <2>1, <1>c, TopicKinds, TakingOffKeeps
<1>8. ASSUME NEW s \in 1..MaxSeq, NEW l \in Lists, NEW a \in FKeys \cup {NoOne}, RegistryList(s, l, a) PROVE ForumInv'
  <2>1. keeps(Registry, Entry(NoOne, 1, FALSE, s, l, a)) /\ UNCHANGED <<now, firstKey>>
    BY <1>8 DEF RegistryList
  <2> QED BY <2>1, <1>c, <1>e, TopicKinds, OtherKeeps
<1>9. ASSUME NEW t \in AllTopics, SweepName(t) PROVE ForumInv'
  <2>1. t.class = "u" /\ takes_off(t) /\ UNCHANGED <<now, firstKey>>
    BY <1>9 DEF SweepName, swept_names
  <2> QED BY <2>1, <1>c, TopicKinds, TakingOffKeeps
<1>k. ASSUME DOMAIN kv' = DOMAIN kv, \A x \in DOMAIN kv : kv'[x] \in AnyEntry /\ kv'[x].pk = kv[x].pk /\ kv'[x].len = kv[x].len,
             now' \in Int, UNCHANGED <<bytes, counts, ids, by_author, claims_by_pk, firstKey>>
      PROVE  ForumInv'
  <2>1. lens' = lens /\ (\A K : OfKind(K)' = OfKind(K)) /\ \A k : OfKey(k)' = OfKey(k)
    BY <1>k DEF lens, OfKind, OfKey
  <2>2. \A k : (OfKind({"u"}) \cap OfKey(k))' = OfKind({"u"}) \cap OfKey(k)
    BY <2>1
  <2>3. ForumTyped'
    BY <1>k DEF ForumInv, ForumTyped
  <2>4. AccountsExact'
    BY <1>k, <2>1, <2>2 DEF ForumInv, AccountsExact
  <2>5. SharesKept'
    BY <1>k, <2>1 DEF ForumInv, SharesKept
  <2>6. PostsStayTheirs'
    BY <1>k DEF ForumInv, PostsStayTheirs
  <2> QED BY <1>k, <2>3, <2>4, <2>5, <2>6 DEF ForumInv
<1>10. ASSUME ForumTick PROVE ForumInv'
  <2>1. now' \in Int /\ UNCHANGED <<kv, bytes, counts, ids, by_author, claims_by_pk, firstKey>>
    BY <1>10, <1>t DEF ForumTick
  <2>2. \A x \in DOMAIN kv : kv[x] \in AnyEntry
    BY DEF ForumInv, ForumTyped
  <2> QED BY <2>1, <2>2, <1>k
<1>11. ASSUME ForumRestart PROVE ForumInv'
  <2>1. /\ kv' = [t \in DOMAIN kv |-> [kv[t] EXCEPT !.since = now]]
        /\ UNCHANGED <<bytes, counts, ids, by_author, claims_by_pk, now, firstKey>>
    BY <1>11 DEF ForumRestart
  <2>2. ASSUME NEW x \in DOMAIN kv PROVE kv'[x] \in AnyEntry /\ kv'[x].pk = kv[x].pk /\ kv'[x].len = kv[x].len
    <3>1. kv[x] \in AnyEntry
      BY DEF ForumInv, ForumTyped
    <3> DEFINE v == kv[x]
    <3>2. kv'[x] = [v EXCEPT !.since = now]
      BY <2>1
    <3> HIDE DEF v
    <3>3. v \in AnyEntry
      BY <3>1 DEF v
    <3>4. [v EXCEPT !.since = now] \in AnyEntry /\ [v EXCEPT !.since = now].pk = v.pk /\ [v EXCEPT !.since = now].len = v.len
      BY <3>3, <1>t DEF AnyEntry
    <3> QED BY <3>2, <3>4 DEF v
  <2> QED BY <2>1, <2>2, <1>t, <1>k
<1> QED BY <1>1, <1>2, <1>3, <1>4, <1>5, <1>6, <1>7, <1>8, <1>9, <1>10, <1>11 DEF FrNext

\* Of the forum's rules in the relay (ForumPolicy and Retained of hidrarelay):
\* for any keys, names, posts and limits, the store's accounts are what it
\* holds, in all, by kind, by key and by id; posts never take the room kept
\* for names, nor either the room kept for moderation, and no key is over its
\* share; a post stays the key's that first put it there, and no id is under
\* two topics. The limits are any with two reserves in the whole.
THEOREM ForumIsSound == FrSpec => []ForumSound
PROOF
<1>1. FrInit => ForumInv
  <2> SUFFICES ASSUME FrInit PROVE ForumInv
    OBVIOUS
  <2> USE ForumConstants
  <2>1. /\ DOMAIN kv = {} /\ DOMAIN firstKey = {} /\ bytes = 0 /\ counts = [k \in Classes |-> 0] /\ now = 0
        /\ by_author = [k \in FKeys |-> 0] /\ claims_by_pk = [k \in FKeys |-> 0]
    BY DEF FrInit
  <2>2. ForumTyped
    BY <2>1, FS_EmptySet DEF ForumTyped
  <2>3. (\A K : OfKind(K) = {}) /\ (\A k : OfKey(k) = {}) /\ \A k : OfKind({"u"}) \cap OfKey(k) = {}
    BY <2>1 DEF OfKind, OfKey
  <2>4. SumOf(lens, {}) = 0 /\ Cardinality({}) = 0
    BY SumEmpty, FS_EmptySet
  <2>5. AccountsExact
    BY <2>1, <2>3, <2>4 DEF AccountsExact
  <2>6. SharesKept
    <3>1. MAX_RETAINED_BYTES \in Nat /\ RETAINED_RESERVE_BYTES \in Nat /\ MAX_BYTES_PER_AUTHOR \in Nat
      OBVIOUS
    <3>2. 0 <= MAX_RETAINED_BYTES - 2 * RETAINED_RESERVE_BYTES /\ 0 <= MAX_RETAINED_BYTES - RETAINED_RESERVE_BYTES
      BY <3>1
    <3>3. \A K : SumOf(lens, OfKind(K)) = 0
      BY <2>3, <2>4
    <3>4. bytes <= MAX_RETAINED_BYTES /\ \A k \in FKeys : by_author[k] <= MAX_BYTES_PER_AUTHOR
      BY <3>1, <2>1
    <3> QED BY <3>2, <3>3, <3>4 DEF SharesKept
  <2>7. PostsStayTheirs
    BY <2>1 DEF PostsStayTheirs
  <2> QED BY <2>1, <2>2, <2>5, <2>6, <2>7 DEF ForumInv
<1>2. ForumInv /\ [FrNext]_frVars => ForumInv'
  <2> SUFFICES ASSUME ForumInv, [FrNext]_frVars PROVE ForumInv'
    OBVIOUS
  <2>1. CASE UNCHANGED frVars
    <3>1. UNCHANGED <<kv, bytes, counts, ids, by_author, claims_by_pk, now, firstKey>>
      BY <2>1 DEF frVars
    <3>2. lens' = lens /\ (\A K : OfKind(K)' = OfKind(K)) /\ (\A k : OfKey(k)' = OfKey(k))
          /\ \A k : (OfKind({"u"}) \cap OfKey(k))' = OfKind({"u"}) \cap OfKey(k)
      BY <3>1 DEF lens, OfKind, OfKey
    <3>3. ForumTyped' /\ PostsStayTheirs'
      BY <3>1 DEF ForumInv, ForumTyped, PostsStayTheirs
    <3>4. AccountsExact'
      BY <3>1, <3>2 DEF ForumInv, AccountsExact
    <3>5. SharesKept'
      BY <3>1, <3>2 DEF ForumInv, SharesKept
    <3> QED BY <3>1, <3>3, <3>4, <3>5 DEF ForumInv
  <2> QED BY <2>1, ForumStep
<1>3. ForumInv => ForumSound
  BY DEF ForumInv, ForumSound
<1> QED BY <1>1, <1>2, <1>3, PTL DEF FrSpec

-----------------------------------------------------------------------------
(* SevenNine's sites.                                                        *)

site_steps == {"", "begin", "key", "insert", "publish", "meta", "writing", "withdraw", "folder"}

LEMMA IdleReq ==
  ASSUME SmTyped
  PROVE  /\ Idle7 \in AnyReq /\ Idle7.op = "none" /\ Idle7.name = "" /\ Idle7.at = "" /\ Idle7.key = NoKey
         /\ keyNo' = keyNo => AnyReq' = AnyReq
PROOF
<1>1. keyNo \in Nat
  BY DEF SmTyped
<1>2. Idle7 \in AnyReq
  BY <1>1 DEF AnyReq, Idle7, NoKey
<1>3. keyNo' = keyNo => AnyReq' = AnyReq
  BY DEF AnyReq
<1>4. Idle7.op = "none" /\ Idle7.name = "" /\ Idle7.at = "" /\ Idle7.key = NoKey
  BY DEF Idle7
<1> QED BY <1>2, <1>3, <1>4

\* A request goes on to its next step, or ends.
LEMMA ReqGoes ==
  ASSUME SmTyped, NEW r \in Reqs, NEW step \in site_steps, goes(r, step), keyNo' = keyNo
  PROVE  /\ (req \in [Reqs -> AnyReq] /\ \A x \in Reqs : (req[x].name = "" <=> req[x].op = "none"))'
         /\ \A x \in Reqs : /\ req'[x].op = req[x].op /\ req'[x].name = req[x].name /\ req'[x].key = req[x].key
                            /\ req'[x].at = IF x = r THEN step ELSE req[x].at
         /\ \A x \in Reqs : x # r => req'[x] = req[x]
PROOF
<1> DEFINE q == [req[r] EXCEPT !.at = step]
<1>1. req[r] \in AnyReq /\ AnyReq' = AnyReq
  BY DEF SmTyped, AnyReq
<1>2. q \in AnyReq /\ q.op = req[r].op /\ q.name = req[r].name /\ q.key = req[r].key /\ q.at = step
  BY <1>1 DEF AnyReq, site_steps
<1>3. req' = [req EXCEPT ![r] = q]
  BY DEF goes, SmTyped
<1> HIDE DEF q
<1>4. req' \in [Reqs -> AnyReq] /\ \A x \in Reqs : req'[x] = IF x = r THEN q ELSE req[x]
  BY <1>2, <1>3 DEF SmTyped
<1> QED BY <1>1, <1>2, <1>4 DEF SmTyped

LEMMA ReqEnds ==
  ASSUME SmTyped, NEW r \in Reqs, ends(r), keyNo' = keyNo
  PROVE  /\ (req \in [Reqs -> AnyReq] /\ \A x \in Reqs : (req[x].name = "" <=> req[x].op = "none"))'
         /\ \A x \in Reqs : req'[x] = IF x = r THEN Idle7 ELSE req[x]
PROOF
<1>1. AnyReq' = AnyReq /\ Idle7 \in AnyReq /\ Idle7.name = "" /\ Idle7.op = "none"
  BY IdleReq
<1>2. req' \in [Reqs -> AnyReq] /\ \A x \in Reqs : req'[x] = IF x = r THEN Idle7 ELSE req[x]
  BY <1>1 DEF ends, SmTyped
<1> QED BY <1>1, <1>2 DEF SmTyped

LEMMA SmFacts ==
  ASSUME SmTyped
  PROVE  /\ keyNo \in Nat
         /\ \A n \in DOMAIN sites : n \in SiteNames /\ sites[n] \in 0..keyNo
         /\ \A n \in DOMAIN loading : n \in SiteNames /\ loading[n] \in 0..keyNo
         /\ \A n \in DOMAIN made : n \in SiteNames /\ made[n] \in 1..keyNo
         /\ \A n \in DOMAIN dirs : n \in SiteNames /\ dirs[n].meta \in {"ok", "half"} /\ dirs[n].key \in 0..keyNo
         /\ \A r \in Reqs : req[r] \in AnyReq /\ req[r].key \in 0..keyNo /\ (req[r].op # "none" => req[r].name \in SiteNames)
         /\ \A e \in announcing : e[2] \in 1..keyNo
PROOF
<1>1. keyNo \in Nat
  BY DEF SmTyped
<1>2. \A n \in DOMAIN sites : n \in SiteNames /\ sites[n] \in 0..keyNo
  BY DEF SmTyped
<1>3. \A n \in DOMAIN loading : n \in SiteNames /\ loading[n] \in 0..keyNo
  BY DEF SmTyped
<1>4. \A n \in DOMAIN made : n \in SiteNames /\ made[n] \in 1..keyNo
  BY DEF SmTyped
<1>5. \A n \in DOMAIN dirs : n \in SiteNames /\ dirs[n].meta \in {"ok", "half"} /\ dirs[n].key \in 0..keyNo
  BY DEF SmTyped
<1>6. \A r \in Reqs : req[r] \in AnyReq /\ (req[r].op # "none" => req[r].name # "")
  BY DEF SmTyped
<1>7. \A r \in Reqs : req[r].key \in 0..keyNo /\ (req[r].op # "none" => req[r].name \in SiteNames)
  BY <1>6 DEF AnyReq
<1>8. \A e \in announcing : e[2] \in 1..keyNo
  <2>1. dht_tx \in Seq({"publish", "withdraw"} \X (1..keyNo))
    BY DEF SmTyped
  <2>2. \A i \in 1..Len(dht_tx) : dht_tx[i] \in {"publish", "withdraw"} \X (1..keyNo)
    BY <2>1, ElementOfSeq
  <2> QED BY <2>2 DEF announcing
<1> QED BY <1>1, <1>2, <1>3, <1>4, <1>5, <1>6, <1>7, <1>8

\* No key comes to a name that did not have it.
LEMMA KeysStayApart ==
  ASSUME KeysApart, \A n \in SiteNames : (keys_of(n))' \subseteq keys_of(n)
  PROVE  KeysApart'
PROOF
<1> SUFFICES ASSUME NEW n \in SiteNames, NEW m \in SiteNames, n # m
             PROVE  (keys_of(n))' \cap (keys_of(m))' = {}
  BY DEF KeysApart
<1>1. keys_of(n) \cap keys_of(m) = {}
  BY DEF KeysApart
<1> HIDE DEF keys_of
<1> QED BY <1>1

LEMMA SmStutters == ASSUME SmInv, UNCHANGED smVars PROVE SmInv'
PROOF
<1>0. /\ UNCHANGED <<sites, dirs, loading, boot, dht_tx, published, req, keyNo, made, unsent, raced, torn>>
      /\ announcing' = announcing /\ to_load' = to_load /\ AnyReq' = AnyReq
  BY DEF smVars, announcing, to_load, AnyReq
<1>1. SmTyped' /\ BootInOrder' /\ OneAtATime' /\ CreatesInOrder' /\ DeletesInOrder' /\ KeyInHand' /\ HalfIsWriting'
  <2>1. SmTyped' /\ BootInOrder'
    BY <1>0 DEF SmInv, SmTyped, BootInOrder
  <2>2. OneAtATime' /\ CreatesInOrder'
    BY <1>0 DEF SmInv, OneAtATime, CreatesInOrder, create_in_order
  <2>3. DeletesInOrder' /\ KeyInHand' /\ HalfIsWriting'
    BY <1>0 DEF SmInv, DeletesInOrder, KeyInHand, key_in_hand, HalfIsWriting
  <2> QED BY <2>1, <2>2, <2>3
<1>2. KeysApart'
  BY <1>0, KeysStayApart DEF SmInv, keys_of
<1>3. MadeHeld'
  BY <1>0 DEF SmInv, MadeHeld, made_held
<1>4. DueHeld'
  BY <1>0 DEF SmInv, DueHeld, due, leaving
<1> QED BY <1>1, <1>2, <1>3, <1>4 DEF SmInv

LEMMA StartKeeps == ASSUME SmInv, Start PROVE SmInv'
PROOF
<1>0. /\ boot = "off" /\ boot' = "announce"
      /\ UNCHANGED <<sites, dirs, dht_tx, published, req, wlock, keyNo, made, unsent, raced, torn>>
      /\ DOMAIN loading' = {n \in DOMAIN dirs : dirs[n].meta = "ok"} /\ \A n \in DOMAIN loading' : loading'[n] = dirs[n].key
      /\ loading' = [n \in DOMAIN loading' |-> dirs[n].key]
  BY DEF Start, ghostVars
<1>1. /\ DOMAIN sites = {} /\ DOMAIN loading = {} /\ dht_tx = <<>> /\ published = {}
      /\ \A r \in Reqs : req[r].op = "none" /\ req[r].at = "" /\ req[r].name = ""
      /\ announcing' = announcing
  <2>1. announcing' = announcing
    BY <1>0 DEF announcing
  <2>2. DOMAIN sites = {} /\ DOMAIN loading = {} /\ dht_tx = <<>> /\ published = {} /\ \A r \in Reqs : req[r] = Idle7
    BY <1>0 DEF SmInv, BootInOrder
  <2>3. Idle7.op = "none" /\ Idle7.at = "" /\ Idle7.name = ""
    BY DEF Idle7
  <2> QED BY <2>1, <2>2, <2>3
<1>2. SmTyped'
  BY <1>0 DEF SmInv, SmTyped, AnyReq
<1>3. BootInOrder' /\ OneAtATime' /\ CreatesInOrder' /\ DeletesInOrder' /\ KeyInHand' /\ HalfIsWriting'
  BY <1>0, <1>1 DEF SmInv, BootInOrder, OneAtATime, CreatesInOrder, create_in_order, DeletesInOrder, KeyInHand, key_in_hand, HalfIsWriting
<1>4. KeysApart'
  BY <1>0, <1>1, KeysStayApart DEF SmInv, keys_of
<1>5. MadeHeld'
  <2>1. \A n \in DOMAIN dirs \ (raced \cup torn) : dirs[n].meta = "ok"
    BY <1>1 DEF SmInv, SmTyped, HalfIsWriting
  <2> SUFFICES ASSUME NEW n \in DOMAIN made \ (raced \cup torn)
               PROVE  /\ n \in DOMAIN dirs /\ dirs[n].key = made[n] /\ n \in DOMAIN loading' /\ loading'[n] = made[n]
                      /\ <<"withdraw", made[n]>> \notin announcing
    BY <1>0, <1>1 DEF MadeHeld, made_held
  <2>2. n \in DOMAIN dirs /\ dirs[n].key = made[n] /\ <<"withdraw", made[n]>> \notin announcing
    BY DEF SmInv, MadeHeld, made_held
  <2>3. n \in DOMAIN loading'
    BY <1>0, <2>1, <2>2
  <2> QED BY <1>0, <2>2, <2>3
<1>6. DueHeld'
  <2>0. announcing = {}
    <3>1. dht_tx = <<>>
      BY <1>1
    <3> QED BY <3>1 DEF announcing
  <2>1. \A k : ~(due(k))'
    BY <1>0, <1>1, <2>0 DEF due
  <2>2. Len(dht_tx') = 0
    BY <1>0, <1>1
  <2> QED BY <2>1, <2>2 DEF DueHeld
<1> QED BY <1>2, <1>3, <1>4, <1>5, <1>6 DEF SmInv

LEMMA LoadKeeps == ASSUME SmInv, LoadTask PROVE SmInv'
PROOF
<1>0. /\ to_load /\ sites' = loading /\ DOMAIN loading' = {} /\ loading' = NoSites
      /\ UNCHANGED <<dirs, boot, dht_tx, published, req, wlock, keyNo, made, unsent, raced, torn>>
  BY DEF LoadTask, ghostVars, NoSites
<1>1. boot # "off" /\ DOMAIN sites \subseteq raced /\ announcing' = announcing
  BY <1>0 DEF SmInv, BootInOrder, to_load, announcing
<1>2. SmTyped'
  BY <1>0 DEF SmInv, SmTyped, AnyReq, NoSites
<1>3. BootInOrder' /\ OneAtATime' /\ CreatesInOrder' /\ DeletesInOrder' /\ KeyInHand' /\ HalfIsWriting'
  BY <1>0, <1>1 DEF SmInv, BootInOrder, OneAtATime, CreatesInOrder, create_in_order, DeletesInOrder, KeyInHand, key_in_hand, HalfIsWriting, to_load
<1>4. KeysApart'
  BY <1>0, KeysStayApart DEF SmInv, keys_of
<1>5. MadeHeld'
  BY <1>0, <1>1 DEF SmInv, MadeHeld, made_held
<1>6. DueHeld'
  BY <1>0, <1>1 DEF SmInv, DueHeld, due, leaving
<1> QED BY <1>2, <1>3, <1>4, <1>5, <1>6 DEF SmInv

LEMMA SmStopKeeps == ASSUME SmInv, Stop PROVE SmInv'
PROOF
<1>0. /\ boot' = "off" /\ DOMAIN sites' = {} /\ sites' = NoSites /\ DOMAIN loading' = {} /\ loading' = NoSites
      /\ dht_tx' = <<>> /\ published' = {} /\ req' = [r \in Reqs |-> Idle7]
      /\ torn' = torn \cup {n \in DOMAIN dirs : dirs[n].meta = "half"}
      /\ UNCHANGED <<dirs, keyNo, made, raced>>
  BY DEF Stop, NoSites
<1>1. \A r \in Reqs : req'[r] = Idle7
  BY <1>0
<1>i. /\ Idle7 \in AnyReq /\ Idle7.op = "none" /\ Idle7.name = "" /\ Idle7.at = "" /\ Idle7.key = NoKey
      /\ AnyReq' = AnyReq /\ keyNo \in Nat /\ announcing' = {}
  <2>1. announcing' = {}
    BY <1>0 DEF announcing
  <2>2. keyNo \in Nat /\ SmTyped
    BY DEF SmInv, SmTyped
  <2> QED BY <1>0, <2>1, <2>2, IdleReq
<1>2. SmTyped'
  <2>1. req' \in [Reqs -> AnyReq]
    BY <1>0, <1>i
  <2>2. sites' \in [DOMAIN sites' -> 0..keyNo] /\ loading' \in [DOMAIN loading' -> 0..keyNo]
    BY <1>0, <1>i DEF NoSites, NoKey
  <2>3. (dht_tx \in Seq({"publish", "withdraw"} \X (1..keyNo)))' /\ published' \subseteq 1..keyNo
    BY <1>0
  <2> QED BY <1>0, <1>1, <1>i, <2>1, <2>2, <2>3 DEF SmInv, SmTyped
<1>3. BootInOrder' /\ OneAtATime' /\ CreatesInOrder' /\ DeletesInOrder' /\ KeyInHand' /\ HalfIsWriting'
  <2>1. BootInOrder'
    BY <1>0, <1>1 DEF BootInOrder, to_load
  <2>2. OneAtATime'
    BY <1>1, <1>i, SitesConstants DEF OneAtATime
  <2>3. CreatesInOrder' /\ DeletesInOrder' /\ KeyInHand'
    BY <1>1, <1>i DEF CreatesInOrder, DeletesInOrder, KeyInHand, key_in_hand
  <2>4. HalfIsWriting'
    BY <1>0 DEF HalfIsWriting
  <2> QED BY <2>1, <2>2, <2>3, <2>4
<1>4. KeysApart'
  <2>1. \A m \in SiteNames : (keys_of(m))' \subseteq keys_of(m)
    <3> SUFFICES ASSUME NEW m \in SiteNames, NEW k \in (keys_of(m))' PROVE k \in keys_of(m)
      OBVIOUS
    <3>0. k \in 1..keyNo
      BY <1>0 DEF keys_of
    <3>3. keyNo \in Nat
      BY <1>i
    <3>1. k \in 1..keyNo /\ k # NoKey
      BY <3>0, <3>3 DEF NoKey
    <3>2. \A x \in Reqs : req'[x].key # k
      BY <1>1, <1>i, <3>1
    <3> QED BY <1>0, <3>1, <3>2 DEF keys_of
  <2> QED BY <2>1, KeysStayApart DEF SmInv
<1>5. MadeHeld'
  BY <1>0, <1>i DEF SmInv, MadeHeld, made_held
<1>6. DueHeld'
  <2>1. \A k : ~(due(k))'
    BY <1>0, <1>i DEF due
  <2>2. Len(dht_tx') = 0
    BY <1>0
  <2> QED BY <2>1, <2>2 DEF DueHeld
<1> QED BY <1>2, <1>3, <1>4, <1>5, <1>6 DEF SmInv

LEMMA RequestKeeps ==
  ASSUME SmInv, NEW r \in Reqs, NEW op \in {"create", "edit", "delete"}, NEW n \in SiteNames, Request(r, op, n)
  PROVE  SmInv'
PROOF
<1> DEFINE q == [op |-> op, name |-> n, at |-> "begin", key |-> NoKey]
<1>0. /\ boot = "serving" /\ req[r] = Idle7 /\ req' = [req EXCEPT ![r] = q]
      /\ raced' = (IF at_work(n) # {} \/ (op = "create" /\ to_load) THEN raced \cup {n} ELSE raced)
      /\ made' = (IF op = "delete" THEN without_n(made, n) ELSE made)
      /\ UNCHANGED <<sites, dirs, loading, boot, dht_tx, published, wlock, keyNo, unsent, torn>>
  BY DEF Request
<1>k. keyNo \in Nat /\ announcing' = announcing
  BY <1>0 DEF SmInv, SmTyped, announcing
<1>1. /\ q \in AnyReq /\ q.op = op /\ q.name = n /\ q.at = "begin" /\ q.key = NoKey /\ AnyReq' = AnyReq
      /\ Idle7.op = "none" /\ Idle7.at = "" /\ Idle7.name = ""
  BY <1>0, <1>k, IdleReq DEF AnyReq, NoKey, SmInv
<1> HIDE DEF q
<1>2. req' \in [Reqs -> AnyReq] /\ \A x \in Reqs : req'[x] = IF x = r THEN q ELSE req[x]
  BY <1>0, <1>1 DEF SmInv, SmTyped
<1>3. /\ DOMAIN made' \subseteq DOMAIN made /\ (op = "delete" => n \notin DOMAIN made')
      /\ \A m \in DOMAIN made' : made'[m] = made[m] /\ made' \in [DOMAIN made' -> 1..keyNo]
  BY <1>0 DEF without_n, SmInv, SmTyped
<1>4. raced \subseteq raced' /\ raced' \subseteq SiteNames
  BY <1>0 DEF SmInv, SmTyped
<1>5. SmTyped'
  <2>1. made' \in [DOMAIN made' -> 1..keyNo]
    BY <1>0 DEF without_n, SmInv, SmTyped
  <2> QED BY <1>0, <1>1, <1>2, <1>3, <1>4, <2>1, SitesConstants DEF SmInv, SmTyped
<1>6. BootInOrder'
  BY <1>0, <1>4 DEF SmInv, BootInOrder, to_load
<1>7. OneAtATime'
  BY <1>0, <1>1, <1>2, <1>4 DEF SmInv, OneAtATime, at_work
<1>8. CreatesInOrder'
  <2>1. announcing' = announcing /\ to_load' = to_load
    BY <1>0, <1>k DEF to_load
  <2>2. ASSUME NEW x \in Reqs, x # r, req[x].op = "create", req[x].name \notin raced'
        PROVE  req[x].name \notin raced /\ req'[x] = req[x]
    BY <1>2, <1>4, <2>2
  <2>3. req'[r].op = "create" /\ req'[r].name \notin raced' => ~to_load /\ req'[r].at = "begin"
    BY <1>0, <1>1, <1>2
  <2> QED BY <1>0, <1>2, <1>3, <2>1, <2>2, <2>3 DEF SmInv, CreatesInOrder, create_in_order
<1>9. DeletesInOrder' /\ KeyInHand'
  BY <1>0, <1>1, <1>2, <1>3, <1>4 DEF SmInv, DeletesInOrder, KeyInHand, key_in_hand
<1>10. HalfIsWriting'
  <2>1. \A x \in Reqs : req[x].op = "edit" => req'[x] = req[x]
    BY <1>0, <1>1, <1>2
  <2> QED BY <1>0, <1>4, <2>1 DEF SmInv, HalfIsWriting
<1>11. KeysApart'
  <2>1. \A m \in SiteNames : (keys_of(m))' \subseteq keys_of(m)
    <3> SUFFICES ASSUME NEW m \in SiteNames, NEW k \in (keys_of(m))' PROVE k \in keys_of(m)
      OBVIOUS
    <3>1. k \in 1..keyNo /\ k # NoKey
      BY <1>0, <1>k DEF keys_of, NoKey
    <3>2. ASSUME NEW x \in Reqs, req'[x].name = m, req'[x].key = k PROVE req[x].name = m /\ req[x].key = k
      BY <1>1, <1>2, <3>1, <3>2
    <3> QED BY <1>0, <1>3, <3>1, <3>2 DEF keys_of
  <2> QED BY <2>1, KeysStayApart DEF SmInv
<1>12. MadeHeld'
  BY <1>0, <1>k, <1>3, <1>4 DEF SmInv, MadeHeld, made_held
<1>13. DueHeld'
  <2>1. \A k : leaving(k) => (leaving(k))'
    BY <1>0, <1>1, <1>2 DEF leaving
  <2> QED BY <1>0, <1>k, <1>4, <2>1 DEF SmInv, DueHeld, due
<1> QED BY <1>5, <1>6, <1>7, <1>8, <1>9, <1>10, <1>11, <1>12, <1>13 DEF SmInv

\* A request that ends with nothing done, or goes on with nothing done.
LEMMA EndsKeeps ==
  ASSUME SmInv, NEW r \in Reqs, ends(r), req[r].at \notin {"writing", "withdraw"},
         UNCHANGED <<sites, dirs, loading, boot, dht_tx, published, keyNo, made, unsent, raced, torn>>
  PROVE  SmInv'
PROOF
<1>0. SmTyped /\ announcing' = announcing /\ to_load' = to_load
  BY DEF SmInv, announcing, to_load
<1>1. /\ (req \in [Reqs -> AnyReq] /\ \A x \in Reqs : (req[x].name = "" <=> req[x].op = "none"))'
      /\ \A x \in Reqs : req'[x] = IF x = r THEN Idle7 ELSE req[x]
  BY <1>0, ReqEnds
<1>2. Idle7.op = "none" /\ Idle7.name = "" /\ Idle7.at = "" /\ Idle7.key = NoKey /\ "" \notin SiteNames
  BY <1>0, IdleReq, SitesConstants
<1>3. SmTyped'
  BY <1>0, <1>1 DEF SmTyped
<1>4. BootInOrder'
  BY <1>0, <1>1 DEF SmInv, BootInOrder
<1>5. OneAtATime' /\ DeletesInOrder' /\ KeyInHand'
  <2>1. OneAtATime'
    BY <1>1, <1>2 DEF SmInv, OneAtATime
  <2>2. DeletesInOrder'
    BY <1>1, <1>2 DEF SmInv, DeletesInOrder
  <2>3. KeyInHand'
    BY <1>1, <1>2 DEF SmInv, KeyInHand, key_in_hand
  <2> QED BY <2>1, <2>2, <2>3
<1>6. CreatesInOrder'
  <2> SUFFICES ASSUME NEW x \in Reqs, req'[x].op = "create", req'[x].name \notin raced PROVE create_in_order(req[x].name, req[x].key, req[x].at)'
    BY <1>0 DEF CreatesInOrder
  <2>1. req'[x] = req[x]
    BY <1>1, <1>2
  <2>2. create_in_order(req[x].name, req[x].key, req[x].at)
    BY <2>1 DEF SmInv, CreatesInOrder
  <2> QED BY <1>0, <2>1, <2>2 DEF create_in_order
<1>7. HalfIsWriting'
  <2>1. \A x \in Reqs : req[x].at = "writing" => req'[x] = req[x]
    BY <1>1
  <2> QED BY <2>1 DEF SmInv, HalfIsWriting
<1>8. KeysApart'
  <2>1. \A m \in SiteNames : (keys_of(m))' \subseteq keys_of(m)
    BY <1>1, <1>2 DEF keys_of
  <2> QED BY <2>1, KeysStayApart DEF SmInv
<1>9. MadeHeld'
  BY <1>0 DEF SmInv, MadeHeld, made_held
<1>10. DueHeld'
  <2>1. \A k : leaving(k) => (leaving(k))'
    BY <1>1, <1>2 DEF leaving
  <2> QED BY <1>0, <2>1 DEF SmInv, DueHeld, due
<1> QED BY <1>3, <1>4, <1>5, <1>6, <1>7, <1>8, <1>9, <1>10 DEF SmInv

\* What a step of one request leaves alone: every other name.
LEMMA OthersApart ==
  ASSUME SmInv, NEW r \in Reqs, NEW x \in Reqs, x # r, req[x].name \notin raced, req[x].op # "none"
  PROVE  req[x].name # req[r].name
PROOF
<1>1. req[x].name \in SiteNames
  BY DEF SmInv, SmTyped, AnyReq
<1> QED BY <1>1 DEF SmInv, OneAtATime

LEMMA CreateBeginKeeps == ASSUME SmInv, NEW r \in Reqs, CreateBegin(r) PROVE SmInv'
PROOF
<1>1. CASE req[r].name \in DOMAIN sites
  BY <1>1, EndsKeeps DEF CreateBegin, at_step, ghostVars
<1>2. CASE req[r].name \notin DOMAIN sites
  <2> DEFINE n == req[r].name
             k == keyNo + 1
             q == [req[r] EXCEPT !.at = "key", !.key = k]
             d == [meta |-> "ok", key |-> IF n \in DOMAIN dirs THEN dirs[n].key ELSE NoKey]
  <2>0. /\ boot = "serving" /\ req[r].op = "create" /\ req[r].at = "begin" /\ keyNo' = k
        /\ UNCHANGED <<sites, loading, boot, dht_tx, published, made, unsent, raced, torn>>
        /\ dirs' = [x \in DOMAIN dirs \cup {n} |-> IF x = n THEN d ELSE dirs[x]]
        /\ req' = [req EXCEPT ![r].at = "key", ![r].key = k]
    BY <1>2 DEF CreateBegin, at_step, ghostVars, with_n
  <2>k. keyNo \in Nat /\ k \in 1..k /\ 1..keyNo \subseteq 1..k /\ 0..keyNo \subseteq 0..k /\ k # NoKey /\ k \notin 1..keyNo
    <3>1. keyNo \in Nat
      BY SmFacts DEF SmInv
    <3> QED BY <3>1 DEF NoKey
  <2>t. req[r] \in AnyReq /\ n \in SiteNames
    BY <2>0, SmFacts DEF SmInv
  <2>1. AnyReq \subseteq AnyReq' /\ q \in AnyReq' /\ q.op = "create" /\ q.name = n /\ q.at = "key" /\ q.key = k
    <3>1. k \in 0..k /\ AnyReq' = [op : {"none", "create", "edit", "delete"}, name : SiteNames \cup {""}, key : 0..k, at : site_steps]
      BY <2>0, <2>k DEF AnyReq, site_steps
    <3> HIDE DEF k
    <3>2. AnyReq \subseteq AnyReq'
      BY <2>k, <3>1 DEF AnyReq, site_steps
    <3> QED BY <2>0, <2>t, <3>1, <3>2 DEF AnyReq, site_steps
  <2>2. req' = [req EXCEPT ![r] = q]
    BY <2>0 DEF SmInv, SmTyped
  <2>3. d \in [meta : {"ok", "half"}, key : 0..k] /\ d.meta = "ok" /\ (n \in DOMAIN dirs => d.key = dirs[n].key)
        /\ (n \notin DOMAIN dirs => d.key = NoKey)
    <3>1. n \in DOMAIN dirs => dirs[n].key \in 0..k
      BY <2>k, SmFacts DEF SmInv
    <3>2. NoKey \in 0..k
      BY <2>k DEF NoKey
    <3> HIDE DEF k
    <3> QED BY <3>1, <3>2
  <2> HIDE DEF q, d
  <2>4. req' \in [Reqs -> AnyReq'] /\ \A x \in Reqs : req'[x] = IF x = r THEN q ELSE req[x]
    BY <2>1, <2>2 DEF SmInv, SmTyped
  <2>5. DOMAIN dirs' = DOMAIN dirs \cup {n} /\ \A x \in DOMAIN dirs' : dirs'[x] = IF x = n THEN d ELSE dirs[x]
    BY <2>0
  <2>6. announcing' = announcing /\ to_load' = to_load /\ \A e \in announcing : e[2] \in 1..keyNo
    <3>1. announcing' = announcing /\ to_load' = to_load
      BY <2>0 DEF announcing, to_load
    <3> QED BY <3>1, SmFacts DEF SmInv
  <2>7. n \notin raced => ~to_load /\ n \notin DOMAIN made \ torn
    <3> HAVE n \notin raced
    <3>1. ~to_load
      BY <2>0 DEF SmInv, CreatesInOrder, create_in_order
    <3>2. DOMAIN loading = {}
      BY <3>1 DEF to_load
    <3> QED BY <1>2, <2>0, <3>1, <3>2 DEF SmInv, MadeHeld, made_held
  <2> HIDE DEF n, k
  <2>8. SmTyped'
    <3>1. /\ sites' \in [DOMAIN sites' -> 0..k] /\ loading' \in [DOMAIN loading' -> 0..k] /\ made' \in [DOMAIN made' -> 1..k]
          /\ dht_tx' \in Seq({"publish", "withdraw"} \X (1..k)) /\ published' \subseteq 1..k
      <4>1. sites \in [DOMAIN sites -> 0..k] /\ loading \in [DOMAIN loading -> 0..k]
        BY <2>k DEF SmInv, SmTyped
      <4>2. made \in [DOMAIN made -> 1..k] /\ published \subseteq 1..k
        BY <2>k DEF SmInv, SmTyped
      <4>3. dht_tx \in Seq({"publish", "withdraw"} \X (1..keyNo))
        BY DEF SmInv, SmTyped
      <4>4. dht_tx \in Seq({"publish", "withdraw"} \X (1..k))
        BY <2>k, <4>3
      <4> QED BY <2>0, <4>1, <4>2, <4>4
    <3>2. dirs' \in [DOMAIN dirs' -> [meta : {"ok", "half"}, key : 0..k]]
      <4>1. \A x \in DOMAIN dirs : dirs[x] \in [meta : {"ok", "half"}, key : 0..k]
        BY <2>k DEF SmInv, SmTyped
      <4> QED BY <2>0, <2>3, <4>1
    <3>3. DOMAIN dirs' \subseteq SiteNames
      BY <2>5, <2>t DEF SmInv, SmTyped
    <3>4. k \in Nat
      BY <2>k DEF k
    <3>5. \A x \in Reqs : (req'[x].name = "" <=> req'[x].op = "none")
      BY <2>1, <2>4, <2>t, SitesConstants DEF SmInv, SmTyped
    <3> QED BY <2>0, <2>4, <3>1, <3>2, <3>3, <3>4, <3>5 DEF SmInv, SmTyped
  <2>9. BootInOrder'
    BY <2>0, <2>6 DEF SmInv, BootInOrder
  <2>10. OneAtATime' /\ DeletesInOrder' /\ KeyInHand'
    BY <2>0, <2>1, <2>4, <2>k DEF SmInv, OneAtATime, DeletesInOrder, KeyInHand, key_in_hand, n
  <2>11. CreatesInOrder'
    <3> SUFFICES ASSUME NEW x \in Reqs, req'[x].op = "create", req'[x].name \notin raced
                 PROVE  LET m == req'[x].name
                            y == req'[x].key
                        IN  /\ ~to_load /\ req'[x].at \in {"begin", "key", "insert", "publish"}
                            /\ req'[x].at # "begin" => /\ <<"withdraw", y>> \notin announcing
                                                      /\ m \notin DOMAIN made \ torn /\ m \in DOMAIN dirs' /\ dirs'[m].meta = "ok"
                            /\ req'[x].at \in {"key", "insert"} => m \notin DOMAIN sites
                            /\ req'[x].at \in {"insert", "publish"} => dirs'[m].key = y
                            /\ req'[x].at = "publish" => m \in DOMAIN sites /\ sites[m] = y
      BY <2>0, <2>6 DEF CreatesInOrder, create_in_order
    <3>1. CASE x = r
      <4>1. req'[x].name = n /\ req'[x].key = k /\ req'[x].at = "key"
        BY <2>1, <2>4, <3>1
      <4>2. <<"withdraw", k>> \notin announcing
        BY <2>6, <2>k
      <4> QED BY <1>2, <2>3, <2>5, <2>7, <4>1, <4>2 DEF n
    <3>2. CASE x # r
      <4>1. req'[x] = req[x] /\ req[x].name # n
        BY <2>4, <3>2, OthersApart DEF n
      <4>2. req[x].name \in DOMAIN dirs => req[x].name \in DOMAIN dirs' /\ dirs'[req[x].name] = dirs[req[x].name]
        BY <2>5, <4>1
      <4> QED BY <4>1, <4>2 DEF SmInv, CreatesInOrder, create_in_order
    <3> QED BY <3>1, <3>2
  <2>12. HalfIsWriting'
    <3>1. \A x \in Reqs : req[x].op = "edit" => req'[x] = req[x]
      BY <2>0, <2>4
    <3> SUFFICES ASSUME NEW m \in DOMAIN dirs', m \notin raced \cup torn, dirs'[m].meta = "half"
                 PROVE  \E x \in Reqs : req'[x].name = m /\ req'[x].op = "edit" /\ req'[x].at = "writing"
      BY <2>0 DEF HalfIsWriting
    <3>2. m \in DOMAIN dirs /\ dirs[m].meta = "half"
      BY <2>3, <2>5
    <3> QED BY <3>1, <3>2 DEF SmInv, HalfIsWriting
  <2>13. KeysApart'
    <3>1. ASSUME NEW m \in SiteNames, NEW y \in (keys_of(m))' PROVE y \in keys_of(m) \/ (m = n /\ y = k)
      <4>1. y \in 1..k /\ (y \in 1..keyNo \/ y = k) /\ y # NoKey
        BY <2>0, <2>k DEF keys_of, k, NoKey
      <4>2. ASSUME NEW x \in Reqs, req'[x].name = m, req'[x].key = y, x # r PROVE y \in keys_of(m)
        <5>1. y \in 1..keyNo
          <6>1. req'[x] = req[x] /\ req[x].key \in 0..keyNo
            BY <2>4, <4>2, SmFacts DEF SmInv
          <6> QED BY <4>1, <4>2, <6>1, <2>k DEF NoKey
        <5> QED BY <2>4, <4>2, <5>1 DEF keys_of
      <4>3. ASSUME NEW x \in Reqs, req'[x].name = m, req'[x].key = y, x = r PROVE m = n /\ y = k
        BY <2>1, <2>4, <4>3
      <4>4. ASSUME m \in DOMAIN dirs', dirs'[m].key = y PROVE y \in keys_of(m)
        <5>1. m \in DOMAIN dirs /\ dirs[m].key = y
          BY <2>3, <2>5, <4>1, <4>4
        <5>2. y \in 0..keyNo
          BY <5>1 DEF SmInv, SmTyped
        <5> QED BY <4>1, <5>1, <5>2, <2>k DEF keys_of, NoKey
      <4>5. ASSUME \/ m \in DOMAIN sites /\ sites[m] = y
                   \/ m \in DOMAIN loading /\ loading[m] = y
                   \/ m \in DOMAIN made /\ made[m] = y
            PROVE  y \in keys_of(m)
        <5>1. y \in 0..keyNo
          <6>1. 1..keyNo \subseteq 0..keyNo
            BY <2>k
          <6> QED BY <4>5, <6>1, SmFacts DEF SmInv
        <5> QED BY <4>1, <4>5, <5>1, <2>k DEF keys_of, NoKey
      <4> QED BY <2>0, <4>2, <4>3, <4>4, <4>5 DEF keys_of
    <3>2. \A m \in SiteNames : keys_of(m) \subseteq 1..keyNo
      BY DEF keys_of
    <3> SUFFICES ASSUME NEW m \in SiteNames, NEW m2 \in SiteNames, m # m2
                 PROVE  (keys_of(m))' \cap (keys_of(m2))' = {}
      BY DEF KeysApart
    <3>3. keys_of(m) \cap keys_of(m2) = {}
      BY DEF SmInv, KeysApart
    <3>4. ASSUME NEW y \in (keys_of(m))', y \in (keys_of(m2))' PROVE FALSE
      BY <2>k, <3>1, <3>2, <3>3, <3>4
    <3> QED BY <3>4
  <2>14. MadeHeld'
    <3> SUFFICES ASSUME NEW m \in DOMAIN made \ (raced \cup torn)
                 PROVE  /\ m \in DOMAIN dirs' /\ dirs'[m].key = made[m]
                        /\ (m \in DOMAIN sites /\ sites[m] = made[m]) \/ (m \in DOMAIN loading /\ loading[m] = made[m])
                        /\ made[m] \in published \cup unsent \/ <<"publish", made[m]>> \in announcing
                        /\ <<"withdraw", made[m]>> \notin announcing
      BY <2>0, <2>6 DEF MadeHeld, made_held
    <3>1. m # n
      BY <2>7
    <3> QED BY <2>0, <2>5, <3>1 DEF SmInv, MadeHeld, made_held
  <2>15. DueHeld'
    <3>1. \A y : leaving(y) => (leaving(y))'
      BY <2>0, <2>4 DEF leaving
    <3>2. \A y : (due(y))' => due(y) /\ y \in 1..keyNo
      BY <2>0, <2>6 DEF due, SmInv, SmTyped
    <3> QED BY <2>0, <2>6, <3>1, <3>2 DEF SmInv, DueHeld
  <2> QED BY <2>8, <2>9, <2>10, <2>11, <2>12, <2>13, <2>14, <2>15 DEF SmInv
<1> QED BY <1>1, <1>2

\* What a step of a request for n leaves of the other names, and what is left
\* to show of n itself.
SameBut(f, g, n) == \A m : m # n => (m \in DOMAIN g <=> m \in DOMAIN f) /\ (m \in DOMAIN f => g[m] = f[m])
OthersSame(r, n) ==
  /\ req[r].name = n /\ boot = "serving" /\ req'[r].name \in {n, ""} /\ (req'[r].op # "none" => req'[r].name = n)
  /\ \A x \in Reqs : x # r => req'[x] = req[x]
  /\ SameBut(sites, sites', n) /\ SameBut(dirs, dirs', n) /\ SameBut(made, made', n)
  /\ UNCHANGED <<loading, boot, published, keyNo, raced, torn>>
  /\ announcing \subseteq announcing' /\ unsent \subseteq unsent'
  /\ \A k : <<"withdraw", k>> \in announcing' => <<"withdraw", k>> \in announcing \/ (k = req[r].key /\ req[r].op = "delete" /\ k # NoKey)
OwnKept(r, n) ==
  /\ (req'[r].op = "create" /\ n \notin raced => create_in_order(n, req[r].key, req[r].at)')
  /\ (req'[r].op = "delete" /\ n \notin raced => n \notin DOMAIN made')
  /\ ((req'[r].op = "create" /\ req'[r].at # "begin") \/ (req'[r].op = "delete" /\ req'[r].at = "withdraw") => req'[r].key # NoKey)
  /\ (n \notin raced \cup torn /\ n \in DOMAIN dirs' /\ dirs'[n].meta = "half" =>
        \E x \in Reqs : req'[x].name = n /\ req'[x].op = "edit" /\ req'[x].at = "writing")
  /\ (req[r].at = "writing" => n \notin DOMAIN dirs' \/ dirs'[n].meta = "ok")
  /\ (n \notin raced \cup torn /\ n \in DOMAIN made' => made_held(n, made[n])')
  /\ (keys_of(n))' \subseteq keys_of(n)

LEMMA RequestStep ==
  ASSUME SmInv, NEW r \in Reqs, NEW n \in SiteNames, OthersSame(r, n), OwnKept(r, n)
  PROVE  OneAtATime' /\ CreatesInOrder' /\ DeletesInOrder' /\ KeyInHand' /\ HalfIsWriting' /\ KeysApart' /\ MadeHeld'
PROOF
<1>0. /\ req[r].name = n /\ req'[r].name \in {n, ""} /\ raced' = raced /\ torn' = torn /\ boot' = boot /\ boot = "serving"
      /\ loading' = loading /\ published' = published /\ keyNo' = keyNo /\ unsent \subseteq unsent'
      /\ announcing \subseteq announcing' /\ "" \notin SiteNames
  BY SitesConstants DEF OthersSame
<1>1. \A x \in Reqs : x # r => req'[x] = req[x]
  BY DEF OthersSame
<1>2. /\ \A m : m # n => (m \in DOMAIN sites' <=> m \in DOMAIN sites) /\ (m \in DOMAIN sites => sites'[m] = sites[m])
      /\ \A m : m # n => (m \in DOMAIN dirs' <=> m \in DOMAIN dirs) /\ (m \in DOMAIN dirs => dirs'[m] = dirs[m])
      /\ \A m : m # n => (m \in DOMAIN made' <=> m \in DOMAIN made) /\ (m \in DOMAIN made => made'[m] = made[m])
  BY DEF OthersSame, SameBut
<1>3. to_load' = to_load
  BY <1>0 DEF to_load
<1>k. /\ SmTyped /\ keyNo \in Nat /\ (\A k \in 0..keyNo : k # NoKey => k \in 1..keyNo)
      /\ \A x \in Reqs : req[x].key \in 0..keyNo /\ (req[x].op # "none" => req[x].name \in SiteNames)
  <2>1. SmTyped
    BY DEF SmInv
  <2>2. keyNo \in Nat
    BY <2>1, SmFacts
  <2> QED BY <2>1, <2>2, SmFacts DEF NoKey
<1>4. ASSUME NEW m \in SiteNames, m # n, NEW k \in keys_of(m), <<"withdraw", k>> \in announcing'
      PROVE  <<"withdraw", k>> \in announcing
  <2>1. CASE k = req[r].key
    <3>1. k \in 1..keyNo
      BY DEF keys_of
    <3>2. k \in keys_of(n)
      BY <1>0, <2>1, <3>1 DEF keys_of
    <3> QED BY <1>4, <3>2 DEF SmInv, KeysApart
  <2>2. CASE k # req[r].key
    BY <1>4, <2>2 DEF OthersSame
  <2> QED BY <2>1, <2>2
<1>5. OneAtATime'
  BY <1>0, <1>1 DEF SmInv, OneAtATime
<1>6. CreatesInOrder'
  <2> SUFFICES ASSUME NEW x \in Reqs, req'[x].op = "create", req'[x].name \notin raced
               PROVE  create_in_order(req[x].name, req[x].key, req[x].at)'
    BY <1>0 DEF CreatesInOrder
  <2>1. CASE x = r
    <3>1. req'[x].name = n
      BY <2>1 DEF OthersSame
    <3> QED BY <2>1, <3>1 DEF OwnKept
  <2>2. CASE x # r
    <3>1. req'[x] = req[x] /\ req[x].name # n /\ req[x].name \in SiteNames
      BY <1>0, <1>1, <1>k, <2>2, OthersApart
    <3>2. create_in_order(req[x].name, req[x].key, req[x].at)
      BY <3>1 DEF SmInv, CreatesInOrder
    <3>3. req[x].at # "begin" => <<"withdraw", req[x].key>> \notin announcing'
      <4> HAVE req[x].at # "begin"
      <4>1. req[x].key # NoKey
        BY <3>1, req'[x].op = "create" DEF SmInv, KeyInHand, key_in_hand
      <4>2. req[x].key \in keys_of(req[x].name)
        BY <1>k, <4>1 DEF keys_of
      <4> QED BY <1>4, <3>1, <3>2, <4>2 DEF create_in_order
    <3>4. PICK m, k, at : m = req[x].name /\ k = req[x].key /\ at = req[x].at
      OBVIOUS
    <3>5. /\ m # n /\ create_in_order(m, k, at) /\ (at # "begin" => <<"withdraw", k>> \notin announcing')
      BY <3>1, <3>2, <3>3, <3>4
    <3>6. create_in_order(m, k, at)'
      BY <1>0, <1>2, <1>3, <3>5 DEF create_in_order
    <3>7. req'[x].name = m /\ req'[x].key = k /\ req'[x].at = at
      BY <3>1, <3>4
    <3> QED BY <3>6, <3>7 DEF create_in_order
  <2> QED BY <2>1, <2>2
<1>7. DeletesInOrder'
  <2> SUFFICES ASSUME NEW x \in Reqs, req'[x].op = "delete", req'[x].name \notin raced
               PROVE  req'[x].name \notin DOMAIN made'
    BY <1>0 DEF DeletesInOrder
  <2>1. CASE x = r
    <3>1. "" \notin DOMAIN made' \/ req'[r].name = n
      BY <1>0, <1>2, <1>k DEF SmTyped
    <3> QED BY <1>0, <2>1, <3>1 DEF OwnKept
  <2>2. CASE x # r
    <3>1. req'[x] = req[x] /\ req[x].name # n
      BY <1>0, <1>1, <2>2, OthersApart
    <3> QED BY <1>2, <3>1 DEF SmInv, DeletesInOrder
  <2> QED BY <2>1, <2>2
<1>8. KeyInHand'
  BY <1>1 DEF SmInv, KeyInHand, key_in_hand, OwnKept
<1>9. HalfIsWriting'
  <2> SUFFICES ASSUME NEW m \in DOMAIN dirs', m \notin raced \cup torn, dirs'[m].meta = "half"
               PROVE  \E x \in Reqs : req'[x].name = m /\ req'[x].op = "edit" /\ req'[x].at = "writing"
    BY <1>0 DEF HalfIsWriting
  <2>1. CASE m = n
    BY <2>1 DEF OwnKept
  <2>2. CASE m # n
    <3>1. m \in DOMAIN dirs /\ dirs[m].meta = "half"
      BY <1>2, <2>2
    <3>2. PICK x \in Reqs : req[x].name = m /\ req[x].op = "edit" /\ req[x].at = "writing"
      BY <3>1 DEF SmInv, HalfIsWriting
    <3>3. req'[x] = req[x]
      BY <1>0, <1>1, <2>2, <3>2
    <3> QED BY <3>2, <3>3
  <2> QED BY <2>1, <2>2
<1>10. KeysApart'
  <2> SUFFICES ASSUME NEW m \in SiteNames PROVE (keys_of(m))' \subseteq keys_of(m)
    BY KeysStayApart DEF SmInv
  <2>1. CASE m = n
    BY <2>1 DEF OwnKept
  <2>2. CASE m # n
    <3>1. \A x \in Reqs : req'[x].name = m => req[x].name = m /\ req'[x] = req[x]
      BY <1>0, <1>1, <2>2
    <3> QED BY <1>0, <1>2, <2>2, <3>1 DEF keys_of
  <2> QED BY <2>1, <2>2
<1>11. MadeHeld'
  <2> SUFFICES ASSUME NEW m \in DOMAIN made', m \notin raced \cup torn PROVE made_held(m, made[m])'
    BY <1>0 DEF MadeHeld
  <2>1. CASE m = n
    BY <2>1 DEF OwnKept
  <2>2. CASE m # n
    <3>1. m \in DOMAIN made /\ made'[m] = made[m]
      BY <1>2, <2>2
    <3>2. made_held(m, made[m])
      BY <3>1 DEF SmInv, MadeHeld
    <3>3. m \in SiteNames /\ made[m] \in keys_of(m)
      BY <1>k, <3>1, SmFacts DEF keys_of
    <3>4. <<"withdraw", made[m]>> \notin announcing'
      BY <1>4, <2>2, <3>2, <3>3 DEF made_held
    <3> QED BY <1>0, <1>2, <2>2, <3>1, <3>2, <3>4 DEF made_held
  <2> QED BY <2>1, <2>2
<1> QED BY <1>5, <1>6, <1>7, <1>8, <1>9, <1>10, <1>11

\* The queue as it was, no key leaves the map, and what leaves goes on leaving.
LEMMA DueSame ==
  ASSUME SmInv, UNCHANGED <<dht_tx, published, keyNo, raced>>, \A k : leaving(k) => (leaving(k))',
         raced = {} => \A k \in 1..keyNo : (\E n \in DOMAIN sites : sites[n] = k)
                                           => (\E n \in DOMAIN sites' : sites'[n] = k) \/ (leaving(k))'
  PROVE  DueHeld'
PROOF
<1>1. announcing' = announcing /\ \A k : (due(k))' = due(k)
  BY DEF announcing, due
<1>3. ASSUME raced = {}, NEW k \in 1..keyNo, (due(k))'
      PROVE  (\E n \in DOMAIN sites' : sites'[n] = k) \/ (leaving(k))' \/ <<"withdraw", k>> \in announcing
  <2>1. (\E n \in DOMAIN sites : sites[n] = k) \/ leaving(k) \/ <<"withdraw", k>> \in announcing
    BY <1>1, <1>3 DEF SmInv, DueHeld
  <2> QED BY <1>3, <2>1
<1> QED BY <1>1, <1>3 DEF SmInv, DueHeld

\* The steps of a request at one of its steps: the name is a site's.
LEMMA AtStep ==
  ASSUME SmInv, NEW r \in Reqs, NEW op \in {"create", "edit", "delete"}, NEW step, at_step(r, op, step)
  PROVE  /\ boot = "serving" /\ req[r].op = op /\ req[r].at = step /\ req[r].name \in SiteNames /\ SmTyped
         /\ \E n \in SiteNames : n = req[r].name
PROOF
<1>1. SmTyped /\ req[r].op = op /\ op # "none"
  BY DEF SmInv, at_step
<1>2. req[r].name \in SiteNames
  BY <1>1, SmFacts
<1> QED BY <1>1, <1>2 DEF at_step

LEMMA CreateKeyKeeps == ASSUME SmInv, NEW r \in Reqs, CreateKey(r) PROVE SmInv'
PROOF
<1>0. /\ at_step(r, "create", "key") /\ goes(r, "insert")
      /\ UNCHANGED <<sites, loading, boot, dht_tx, published, keyNo, made, unsent, raced, torn>>
  BY DEF CreateKey, fileVars, ghostVars
<1>1. boot = "serving" /\ req[r].op = "create" /\ req[r].at = "key" /\ SmTyped
  BY <1>0, AtStep
<1>2. PICK n \in SiteNames : n = req[r].name
  BY <1>0, AtStep
<1>3. /\ (req \in [Reqs -> AnyReq] /\ \A x \in Reqs : (req[x].name = "" <=> req[x].op = "none"))'
      /\ \A x \in Reqs : /\ req'[x].op = req[x].op /\ req'[x].name = req[x].name /\ req'[x].key = req[x].key
                         /\ req'[x].at = IF x = r THEN "insert" ELSE req[x].at
      /\ \A x \in Reqs : x # r => req'[x] = req[x]
  <2>1. "insert" \in site_steps
    BY DEF site_steps
  <2> QED BY <1>0, <1>1, <2>1, ReqGoes
<1>4. PICK k \in 0..keyNo : k = req[r].key
  BY <1>1, SmFacts
<1>5. dirs' = IF n \in DOMAIN dirs THEN [dirs EXCEPT ![n].key = k] ELSE dirs
  BY <1>2, <1>4 DEF CreateKey
<1>6. /\ DOMAIN dirs' = DOMAIN dirs /\ SameBut(dirs, dirs', n)
      /\ dirs' \in [DOMAIN dirs' -> [meta : {"ok", "half"}, key : 0..keyNo]]
      /\ n \in DOMAIN dirs => dirs'[n].key = k /\ dirs'[n].meta = dirs[n].meta
  <2>1. CASE n \in DOMAIN dirs
    <3> DEFINE d == [dirs[n] EXCEPT !.key = k]
    <3>1. d \in [meta : {"ok", "half"}, key : 0..keyNo] /\ d.key = k /\ d.meta = dirs[n].meta
      BY <1>1, <2>1 DEF SmTyped
    <3>2. dirs' = [dirs EXCEPT ![n] = d]
      BY <1>1, <1>5, <2>1 DEF SmTyped
    <3> HIDE DEF d
    <3> QED BY <1>1, <2>1, <3>1, <3>2 DEF SmTyped, SameBut
  <2>2. CASE n \notin DOMAIN dirs
    BY <1>1, <1>5, <2>2 DEF SmTyped, SameBut
  <2> QED BY <2>1, <2>2
<1>7. announcing' = announcing /\ to_load' = to_load
  BY <1>0 DEF announcing, to_load
<1>8. n \notin raced => create_in_order(n, k, "key")
  BY <1>1, <1>2, <1>4 DEF SmInv, CreatesInOrder
<1>9. OthersSame(r, n)
  <2>1. SameBut(sites, sites', n) /\ SameBut(made, made', n)
    BY <1>0 DEF SameBut
  <2> QED BY <1>0, <1>1, <1>2, <1>3, <1>6, <1>7, <2>1 DEF OthersSame
<1>10. OwnKept(r, n)
  <2>1. n \notin raced => create_in_order(n, k, "insert")'
    BY <1>0, <1>6, <1>7, <1>8 DEF create_in_order
  <2>2. n \notin raced => create_in_order(n, req[r].key, req[r].at)'
    BY <1>3, <1>4, <2>1 DEF create_in_order
  <2>3. n \notin raced \cup torn => n \notin DOMAIN made'
    BY <1>0, <1>8 DEF create_in_order
  <2>4. req'[r].key # NoKey
    BY <1>1, <1>3 DEF SmInv, KeyInHand, key_in_hand
  <2>5. (keys_of(n))' \subseteq keys_of(n)
    <3> SUFFICES ASSUME NEW y \in (keys_of(n))' PROVE y \in keys_of(n)
      OBVIOUS
    <3>1. y \in 1..keyNo
      BY <1>0 DEF keys_of
    <3>2. n \in DOMAIN dirs' /\ dirs'[n].key = y => y = k \/ (n \in DOMAIN dirs /\ dirs[n].key = y)
      BY <1>6
    <3>3. (\E x \in Reqs : req'[x].name = n /\ req'[x].key = y) => \E x \in Reqs : req[x].name = n /\ req[x].key = y
      BY <1>3
    <3>4. \E x \in Reqs : req[x].name = n /\ req[x].key = k
      BY <1>2, <1>4
    <3> QED BY <1>0, <3>1, <3>2, <3>3, <3>4 DEF keys_of
  <2>6. n \notin raced \cup torn => n \in DOMAIN dirs' /\ dirs'[n].meta = "ok"
    BY <1>6, <1>8 DEF create_in_order
  <2> QED BY <1>1, <1>3, <2>2, <2>3, <2>4, <2>5, <2>6 DEF OwnKept
<1>11. SmTyped'
  BY <1>0, <1>1, <1>3, <1>6 DEF SmTyped
<1>12. BootInOrder'
  BY <1>0, <1>1, <1>7 DEF SmInv, BootInOrder
<1>13. DueHeld'
  <2>1. \A y : leaving(y) => (leaving(y))'
    BY <1>1, <1>3 DEF leaving
  <2> QED BY <1>0, <2>1, DueSame
<1> QED BY <1>9, <1>10, <1>11, <1>12, <1>13, RequestStep DEF SmInv

LEMMA CreateInsertKeeps == ASSUME SmInv, NEW r \in Reqs, CreateInsert(r) PROVE SmInv'
PROOF
<1>0. /\ at_step(r, "create", "insert") /\ goes(r, "publish")
      /\ UNCHANGED <<dirs, loading, boot, dht_tx, published, keyNo, made, unsent, raced, torn>>
  BY DEF CreateInsert, fileVars, ghostVars
<1>1. boot = "serving" /\ req[r].op = "create" /\ req[r].at = "insert" /\ SmTyped
  BY <1>0, AtStep
<1>2. PICK n \in SiteNames : n = req[r].name
  BY <1>0, AtStep
<1>3. /\ (req \in [Reqs -> AnyReq] /\ \A x \in Reqs : (req[x].name = "" <=> req[x].op = "none"))'
      /\ \A x \in Reqs : /\ req'[x].op = req[x].op /\ req'[x].name = req[x].name /\ req'[x].key = req[x].key
                         /\ req'[x].at = IF x = r THEN "publish" ELSE req[x].at
      /\ \A x \in Reqs : x # r => req'[x] = req[x]
  <2>1. "publish" \in site_steps
    BY DEF site_steps
  <2> QED BY <1>0, <1>1, <2>1, ReqGoes
<1>4. PICK k \in 0..keyNo : k = req[r].key
  BY <1>1, SmFacts
<1>5. sites' = [x \in DOMAIN sites \cup {n} |-> IF x = n THEN k ELSE sites[x]]
  BY <1>2, <1>4 DEF CreateInsert, with_n
<1>6. /\ DOMAIN sites' = DOMAIN sites \cup {n} /\ SameBut(sites, sites', n) /\ sites'[n] = k
      /\ sites' \in [DOMAIN sites' -> 0..keyNo]
  BY <1>1, <1>5 DEF SmTyped, SameBut
<1>7. announcing' = announcing /\ to_load' = to_load
  BY <1>0 DEF announcing, to_load
<1>8. n \notin raced => create_in_order(n, k, "insert")
  BY <1>1, <1>2, <1>4 DEF SmInv, CreatesInOrder
<1>9. OthersSame(r, n)
  <2>1. SameBut(dirs, dirs', n) /\ SameBut(made, made', n)
    BY <1>0 DEF SameBut
  <2> QED BY <1>0, <1>1, <1>2, <1>3, <1>6, <1>7, <2>1 DEF OthersSame
<1>10. OwnKept(r, n)
  <2>1. n \notin raced => create_in_order(n, k, "publish")'
    BY <1>0, <1>6, <1>7, <1>8 DEF create_in_order
  <2>2. n \notin raced => create_in_order(n, req[r].key, req[r].at)'
    BY <1>3, <1>4, <2>1 DEF create_in_order
  <2>3. n \notin raced \cup torn => n \notin DOMAIN made'
    BY <1>0, <1>8 DEF create_in_order
  <2>4. req'[r].key # NoKey
    BY <1>1, <1>3 DEF SmInv, KeyInHand, key_in_hand
  <2>5. (keys_of(n))' \subseteq keys_of(n)
    <3>1. \A x \in Reqs : req'[x].name = req[x].name /\ req'[x].key = req[x].key
      BY <1>3
    <3>2. ASSUME NEW y \in 1..keyNo, sites'[n] = y PROVE y \in keys_of(n)
      BY <1>2, <1>4, <1>6, <3>2 DEF keys_of
    <3> QED BY <1>0, <3>1, <3>2 DEF keys_of
  <2>6. n \notin raced \cup torn => n \in DOMAIN dirs' /\ dirs'[n].meta = "ok"
    BY <1>0, <1>8 DEF create_in_order
  <2> QED BY <1>1, <1>3, <2>2, <2>3, <2>4, <2>5, <2>6 DEF OwnKept
<1>11. SmTyped'
  BY <1>0, <1>1, <1>3, <1>6 DEF SmTyped
<1>12. BootInOrder'
  BY <1>0, <1>1, <1>6, <1>7, <1>8 DEF SmInv, BootInOrder, create_in_order
<1>13. DueHeld'
  <2>1. \A y : leaving(y) => (leaving(y))'
    BY <1>1, <1>3 DEF leaving
  <2>2. raced = {} => n \notin DOMAIN sites
    BY <1>8 DEF create_in_order
  <2>3. raced = {} => \A m \in DOMAIN sites : m \in DOMAIN sites' /\ sites'[m] = sites[m]
    BY <1>5, <1>6, <2>2
  <2> QED BY <1>0, <2>1, <2>3, DueSame
<1> QED BY <1>9, <1>10, <1>11, <1>12, <1>13, RequestStep DEF SmInv

\* An announcement put at the end of the queue.
LEMMA QueueGrows ==
  ASSUME SmTyped, NEW e \in {"publish", "withdraw"} \X (1..keyNo), dht_tx' = Append(dht_tx, e)
  PROVE  /\ dht_tx' \in Seq({"publish", "withdraw"} \X (1..keyNo))
         /\ Len(dht_tx) \in Nat /\ Len(dht_tx') = Len(dht_tx) + 1
         /\ \A i \in 1..Len(dht_tx) : dht_tx'[i] = dht_tx[i]
         /\ dht_tx'[Len(dht_tx) + 1] = e
         /\ announcing' = announcing \cup {e}
PROOF
<1>1. dht_tx \in Seq({"publish", "withdraw"} \X (1..keyNo))
  BY DEF SmTyped
<1>2. /\ dht_tx' \in Seq({"publish", "withdraw"} \X (1..keyNo))
      /\ Len(dht_tx) \in Nat /\ Len(dht_tx') = Len(dht_tx) + 1
      /\ \A i \in 1..Len(dht_tx) : dht_tx'[i] = dht_tx[i]
      /\ dht_tx'[Len(dht_tx) + 1] = e
  BY <1>1
<1>3. announcing' = announcing \cup {e}
  <2>1. 1..Len(dht_tx') = 1..Len(dht_tx) \cup {Len(dht_tx) + 1}
    BY <1>2
  <2>2. announcing' = {dht_tx'[i] : i \in 1..Len(dht_tx')}
    BY DEF announcing
  <2> QED BY <1>2, <2>1, <2>2 DEF announcing
<1> QED BY <1>2, <1>3

LEMMA CreatePublishKeeps == ASSUME SmInv, NEW r \in Reqs, CreatePublish(r) PROVE SmInv'
PROOF
<1>0. /\ at_step(r, "create", "publish") /\ ends(r)
      /\ UNCHANGED <<sites, dirs, loading, boot, published, keyNo, raced, torn>>
  BY DEF CreatePublish, fileVars
<1>1. boot = "serving" /\ req[r].op = "create" /\ req[r].at = "publish" /\ SmTyped
  BY <1>0, AtStep
<1>2. PICK n \in SiteNames : n = req[r].name
  BY <1>0, AtStep
<1>3. /\ (req \in [Reqs -> AnyReq] /\ \A x \in Reqs : (req[x].name = "" <=> req[x].op = "none"))'
      /\ \A x \in Reqs : req'[x] = IF x = r THEN Idle7 ELSE req[x]
      /\ Idle7.op = "none" /\ Idle7.name = "" /\ Idle7.at = "" /\ Idle7.key = NoKey /\ "" \notin SiteNames
  BY <1>0, <1>1, ReqEnds, IdleReq, SitesConstants
<1>4. PICK k \in 1..keyNo : k = req[r].key
  <2>1. req[r].key # NoKey /\ req[r].key \in 0..keyNo /\ keyNo \in Nat
    BY <1>1, SmFacts DEF SmInv, KeyInHand, key_in_hand
  <2> QED BY <2>1 DEF NoKey
<1>5. made' = [x \in DOMAIN made \cup {n} |-> IF x = n THEN k ELSE made[x]]
  BY <1>2, <1>4 DEF CreatePublish, with_n
<1>6. /\ DOMAIN made' = DOMAIN made \cup {n} /\ SameBut(made, made', n) /\ made'[n] = k
      /\ made' \in [DOMAIN made' -> 1..keyNo]
  BY <1>1, <1>5 DEF SmTyped, SameBut
<1> DEFINE e == <<"publish", k>>
<1>7. \/ dht_tx' = Append(dht_tx, e) /\ unsent' = unsent
      \/ dht_tx' = dht_tx /\ unsent' = unsent \cup {k}
  BY <1>4 DEF CreatePublish
<1>8. \/ /\ announcing' = announcing /\ dht_tx' = dht_tx /\ k \in unsent'
      \/ /\ announcing' = announcing \cup {e} /\ Len(dht_tx) \in Nat /\ Len(dht_tx') = Len(dht_tx) + 1
         /\ \A i \in 1..Len(dht_tx) : dht_tx'[i] = dht_tx[i]
         /\ dht_tx'[Len(dht_tx) + 1] = e
  <2>1. CASE dht_tx' = Append(dht_tx, e)
    BY <1>1, <2>1, QueueGrows
  <2>2. CASE dht_tx' = dht_tx /\ unsent' = unsent \cup {k}
    BY <2>2 DEF announcing
  <2> QED BY <1>7, <2>1, <2>2
<1>9. dht_tx' \in Seq({"publish", "withdraw"} \X (1..keyNo)) /\ unsent \subseteq unsent'
  BY <1>1, <1>7, QueueGrows DEF SmTyped
<1>10. n \notin raced => create_in_order(n, k, "publish")
  BY <1>1, <1>2, <1>4 DEF SmInv, CreatesInOrder
<1>11. to_load' = to_load
  BY <1>0 DEF to_load
<1>12. OthersSame(r, n)
  <2>1. SameBut(dirs, dirs', n) /\ SameBut(sites, sites', n)
    BY <1>0 DEF SameBut
  <2>2. \A y : <<"withdraw", y>> \in announcing' => <<"withdraw", y>> \in announcing
    BY <1>8
  <2>3. announcing \subseteq announcing'
    BY <1>8
  <2> QED BY <1>0, <1>1, <1>2, <1>3, <1>6, <1>9, <2>1, <2>2, <2>3 DEF OthersSame
<1>13. OwnKept(r, n)
  <2>1. n \notin raced => made_held(n, k)'
    <3> HAVE n \notin raced
    <3>1. create_in_order(n, k, "publish")
      BY <1>10
    <3>2. <<"withdraw", k>> \notin announcing' /\ (k \in unsent' \/ <<"publish", k>> \in announcing')
      BY <1>8, <3>1 DEF create_in_order
    <3> QED BY <1>0, <3>1, <3>2 DEF create_in_order, made_held
  <2>2. n \notin raced => made_held(n, made[n])'
    BY <1>6, <2>1 DEF made_held
  <2>3. (keys_of(n))' \subseteq keys_of(n)
    <3>1. k \in keys_of(n)
      BY <1>2, <1>4 DEF keys_of
    <3>2. \A x \in Reqs : req'[x].name = n => req[x].name = n /\ req'[x].key = req[x].key
      BY <1>3
    <3> QED BY <1>0, <1>6, <3>1, <3>2 DEF keys_of
  <2>4. n \notin raced => n \in DOMAIN dirs' /\ dirs'[n].meta = "ok"
    BY <1>0, <1>10 DEF create_in_order
  <2> QED BY <1>1, <1>3, <2>2, <2>3, <2>4 DEF OwnKept
<1>14. SmTyped'
  BY <1>0, <1>1, <1>3, <1>6, <1>9 DEF SmTyped
<1>15. BootInOrder'
  BY <1>0, <1>1, <1>11 DEF SmInv, BootInOrder
<1>16. DueHeld'
  <2>1. \A y : leaving(y) => (leaving(y))'
    BY <1>1, <1>3 DEF leaving
  <2>2. CASE dht_tx' = dht_tx
    BY <1>0, <2>1, <2>2, DueSame
  <2>3. CASE dht_tx' # dht_tx
    <3> SUFFICES ASSUME raced = {} PROVE DueHeld'
      BY <1>0 DEF DueHeld
    <3>1. /\ announcing' = announcing \cup {e} /\ Len(dht_tx) \in Nat /\ Len(dht_tx') = Len(dht_tx) + 1
          /\ \A i \in 1..Len(dht_tx) : dht_tx'[i] = dht_tx[i]
          /\ dht_tx'[Len(dht_tx) + 1] = e
      BY <1>8, <2>3
    <3>2. n \in DOMAIN sites /\ sites[n] = k /\ <<"withdraw", k>> \notin announcing
      BY <1>10 DEF create_in_order
    <3>3. ASSUME NEW y \in 1..keyNo, (due(y))'
          PROVE  (\E m \in DOMAIN sites : sites[m] = y) \/ (leaving(y))' \/ <<"withdraw", y>> \in announcing'
      <4>1. y = k \/ due(y)
        BY <1>0, <3>1, <3>3 DEF due
      <4> QED BY <2>1, <3>1, <3>2, <4>1 DEF SmInv, DueHeld
    <3>4. ASSUME NEW i \in 1..Len(dht_tx'), NEW j \in 1..Len(dht_tx'), i < j, dht_tx'[i][1] = "withdraw", dht_tx'[j][1] = "publish"
          PROVE  dht_tx'[i][2] # dht_tx'[j][2]
      <4>1. i \in 1..Len(dht_tx)
        BY <3>1, <3>4
      <4>2. CASE j \in 1..Len(dht_tx)
        BY <3>1, <3>4, <4>1, <4>2 DEF SmInv, DueHeld
      <4>3. CASE j = Len(dht_tx) + 1
        <5>1. dht_tx[i] \in announcing /\ dht_tx[i] = dht_tx'[i]
          BY <3>1, <4>1 DEF announcing
        <5>2. dht_tx[i] \in {"publish", "withdraw"} \X (1..keyNo)
          <6>1. dht_tx \in Seq({"publish", "withdraw"} \X (1..keyNo))
            BY <1>1 DEF SmTyped
          <6> QED BY <4>1, <6>1, ElementOfSeq
        <5>3. dht_tx[i] # <<"withdraw", k>>
          BY <3>2, <5>1
        <5>4. dht_tx'[j][2] = k
          BY <3>1, <4>3
        <5> QED BY <3>4, <5>1, <5>2, <5>3, <5>4
      <4> QED BY <3>1, <4>2, <4>3
    <3> QED BY <1>0, <3>3, <3>4 DEF DueHeld
  <2> QED BY <2>2, <2>3
<1> QED BY <1>12, <1>13, <1>14, <1>15, <1>16, RequestStep DEF SmInv

LEMMA EditBeginKeeps == ASSUME SmInv, NEW r \in Reqs, EditBegin(r) PROVE SmInv'
PROOF
<1>0. /\ at_step(r, "edit", "begin") /\ (goes(r, "meta") \/ ends(r))
      /\ UNCHANGED <<sites, dirs, loading, boot, dht_tx, published, keyNo, made, unsent, raced, torn>>
  BY DEF EditBegin, fileVars, ghostVars
<1>1. boot = "serving" /\ req[r].op = "edit" /\ req[r].at = "begin" /\ SmTyped
  BY <1>0, AtStep DEF EditBegin
<1>2. PICK n \in SiteNames : n = req[r].name
  BY AtStep DEF EditBegin
<1>3. CASE ends(r)
  BY <1>0, <1>1, <1>3, EndsKeeps
<1>4. CASE goes(r, "meta")
  <2>3. /\ (req \in [Reqs -> AnyReq] /\ \A x \in Reqs : (req[x].name = "" <=> req[x].op = "none"))'
        /\ \A x \in Reqs : /\ req'[x].op = req[x].op /\ req'[x].name = req[x].name /\ req'[x].key = req[x].key
                           /\ req'[x].at = IF x = r THEN "meta" ELSE req[x].at
        /\ \A x \in Reqs : x # r => req'[x] = req[x]
    <3>1. "meta" \in site_steps
      BY DEF site_steps
    <3> QED BY <1>0, <1>1, <1>4, <3>1, ReqGoes
  <2>4. announcing' = announcing /\ to_load' = to_load
    BY <1>0 DEF announcing, to_load
  <2>5. OthersSame(r, n)
    <3>1. SameBut(sites, sites', n) /\ SameBut(dirs, dirs', n) /\ SameBut(made, made', n)
      BY <1>0 DEF SameBut
    <3> QED BY <1>0, <1>1, <1>2, <2>3, <2>4, <3>1 DEF OthersSame
  <2>6. OwnKept(r, n)
    <3>1. (keys_of(n))' \subseteq keys_of(n)
      BY <1>0, <2>3 DEF keys_of
    <3>2. n \in DOMAIN made' \ (raced \cup torn) => made_held(n, made[n])'
      BY <1>0, <2>4 DEF SmInv, MadeHeld, made_held
    <3>3. n \notin raced \cup torn /\ n \in DOMAIN dirs' => dirs'[n].meta # "half"
      <4> HAVE n \notin raced \cup torn /\ n \in DOMAIN dirs'
      <4>1. \A x \in Reqs : req[x].name = n => x = r
        BY <1>2 DEF SmInv, OneAtATime
      <4> QED BY <1>0, <1>1, <4>1 DEF SmInv, HalfIsWriting
    <3> QED BY <1>0, <1>1, <2>3, <3>1, <3>2, <3>3 DEF OwnKept
  <2>7. SmTyped' /\ BootInOrder'
    BY <1>0, <1>1, <2>3, <2>4 DEF SmInv, SmTyped, BootInOrder
  <2>8. DueHeld'
    <3>1. \A y : leaving(y) => (leaving(y))'
      BY <1>1, <2>3 DEF leaving
    <3> QED BY <1>0, <3>1, DueSame
  <2> QED BY <2>5, <2>6, <2>7, <2>8, RequestStep DEF SmInv
<1> QED BY <1>0, <1>3, <1>4


LEMMA EditMetaKeeps == ASSUME SmInv, NEW r \in Reqs, EditMeta(r) PROVE SmInv'
PROOF
<1>0. /\ at_step(r, "edit", "meta")
      /\ UNCHANGED <<sites, loading, boot, dht_tx, published, keyNo, made, unsent, raced, torn>>
  BY DEF EditMeta, fileVars, ghostVars
<1>1. boot = "serving" /\ req[r].op = "edit" /\ req[r].at = "meta" /\ SmTyped
  BY <1>0, AtStep
<1>2. PICK n \in SiteNames : n = req[r].name
  BY <1>0, AtStep
<1>3. CASE ends(r) /\ dirs' = dirs
  BY <1>0, <1>1, <1>3, EndsKeeps
<1>4. CASE goes(r, "writing") /\ dirs' = IF n \in DOMAIN dirs THEN [dirs EXCEPT ![n].meta = "half"] ELSE dirs
  <2>3. /\ (req \in [Reqs -> AnyReq] /\ \A x \in Reqs : (req[x].name = "" <=> req[x].op = "none"))'
        /\ \A x \in Reqs : /\ req'[x].op = req[x].op /\ req'[x].name = req[x].name /\ req'[x].key = req[x].key
                           /\ req'[x].at = IF x = r THEN "writing" ELSE req[x].at
        /\ \A x \in Reqs : x # r => req'[x] = req[x]
    <3>1. "writing" \in site_steps
      BY DEF site_steps
    <3> QED BY <1>0, <1>1, <1>4, <3>1, ReqGoes
  <2>4. announcing' = announcing /\ to_load' = to_load
    BY <1>0 DEF announcing, to_load
  <2>d. /\ DOMAIN dirs' = DOMAIN dirs /\ SameBut(dirs, dirs', n)
        /\ dirs' \in [DOMAIN dirs' -> [meta : {"ok", "half"}, key : 0..keyNo]]
        /\ n \in DOMAIN dirs => dirs'[n].key = dirs[n].key
    <3>1. CASE n \in DOMAIN dirs
      <4> DEFINE d == [dirs[n] EXCEPT !.meta = "half"]
      <4>1. d \in [meta : {"ok", "half"}, key : 0..keyNo] /\ d.key = dirs[n].key
        BY <1>1, <3>1 DEF SmTyped
      <4>2. dirs' = [dirs EXCEPT ![n] = d]
        BY <1>1, <1>4, <3>1 DEF SmTyped
      <4> HIDE DEF d
      <4> QED BY <1>1, <3>1, <4>1, <4>2 DEF SmTyped, SameBut
    <3>2. CASE n \notin DOMAIN dirs
      BY <1>1, <1>4, <3>2 DEF SmTyped, SameBut
    <3> QED BY <3>1, <3>2
  <2>5. OthersSame(r, n)
    <3>1. SameBut(sites, sites', n) /\ SameBut(made, made', n)
      BY <1>0 DEF SameBut
    <3> QED BY <1>0, <1>1, <1>2, <2>3, <2>4, <2>d, <3>1 DEF OthersSame
  <2>6. OwnKept(r, n)
    <3>1. (keys_of(n))' \subseteq keys_of(n)
      BY <1>0, <2>3, <2>d DEF keys_of
    <3>2. n \in DOMAIN made' \ (raced \cup torn) => made_held(n, made[n])'
      BY <1>0, <2>4, <2>d DEF SmInv, MadeHeld, made_held
    <3>3. req'[r].name = n /\ req'[r].op = "edit" /\ req'[r].at = "writing"
      BY <1>1, <1>2, <2>3
    <3> QED BY <1>0, <1>1, <3>1, <3>2, <3>3 DEF OwnKept
  <2>7. SmTyped' /\ BootInOrder'
    BY <1>0, <1>1, <2>3, <2>4, <2>d DEF SmInv, SmTyped, BootInOrder
  <2>8. DueHeld'
    <3>1. \A y : leaving(y) => (leaving(y))'
      BY <1>1, <2>3 DEF leaving
    <3> QED BY <1>0, <3>1, DueSame
  <2> QED BY <2>5, <2>6, <2>7, <2>8, RequestStep DEF SmInv
<1> QED BY <1>2, <1>3, <1>4 DEF EditMeta

LEMMA EditDoneKeeps == ASSUME SmInv, NEW r \in Reqs, EditDone(r) PROVE SmInv'
PROOF
<1>0. /\ at_step(r, "edit", "writing") /\ ends(r)
      /\ UNCHANGED <<sites, loading, boot, dht_tx, published, keyNo, made, unsent, raced, torn>>
  BY DEF EditDone, fileVars, ghostVars
<1>1. boot = "serving" /\ req[r].op = "edit" /\ req[r].at = "writing" /\ SmTyped
  BY <1>0, AtStep
<1>2. PICK n \in SiteNames : n = req[r].name
  BY <1>0, AtStep
<1>3. /\ (req \in [Reqs -> AnyReq] /\ \A x \in Reqs : (req[x].name = "" <=> req[x].op = "none"))'
      /\ \A x \in Reqs : req'[x] = IF x = r THEN Idle7 ELSE req[x]
      /\ Idle7.op = "none" /\ Idle7.name = "" /\ Idle7.at = "" /\ Idle7.key = NoKey /\ "" \notin SiteNames
  BY <1>0, <1>1, ReqEnds, IdleReq, SitesConstants
<1>4. dirs' = IF n \in DOMAIN dirs THEN [dirs EXCEPT ![n].meta = "ok"] ELSE dirs
  BY <1>2 DEF EditDone
<1>5. /\ DOMAIN dirs' = DOMAIN dirs /\ SameBut(dirs, dirs', n)
      /\ dirs' \in [DOMAIN dirs' -> [meta : {"ok", "half"}, key : 0..keyNo]]
      /\ n \in DOMAIN dirs => dirs'[n].key = dirs[n].key /\ dirs'[n].meta = "ok"
  <2>1. CASE n \in DOMAIN dirs
    <3> DEFINE d == [dirs[n] EXCEPT !.meta = "ok"]
    <3>1. d \in [meta : {"ok", "half"}, key : 0..keyNo] /\ d.key = dirs[n].key /\ d.meta = "ok"
      BY <1>1, <2>1 DEF SmTyped
    <3>2. dirs' = [dirs EXCEPT ![n] = d]
      BY <1>1, <1>4, <2>1 DEF SmTyped
    <3> HIDE DEF d
    <3> QED BY <1>1, <2>1, <3>1, <3>2 DEF SmTyped, SameBut
  <2>2. CASE n \notin DOMAIN dirs
    BY <1>1, <1>4, <2>2 DEF SmTyped, SameBut
  <2> QED BY <2>1, <2>2
<1>6. announcing' = announcing /\ to_load' = to_load
  BY <1>0 DEF announcing, to_load
<1>7. OthersSame(r, n)
  <2>1. SameBut(sites, sites', n) /\ SameBut(made, made', n)
    BY <1>0 DEF SameBut
  <2> QED BY <1>0, <1>1, <1>2, <1>3, <1>5, <1>6, <2>1 DEF OthersSame
<1>8. OwnKept(r, n)
  <2>1. (keys_of(n))' \subseteq keys_of(n)
    <3>1. \A x \in Reqs : req'[x].name = n => req[x].name = n /\ req'[x].key = req[x].key
      BY <1>3
    <3> QED BY <1>0, <1>5, <3>1 DEF keys_of
  <2>2. n \in DOMAIN made' \ (raced \cup torn) => made_held(n, made[n])'
    BY <1>0, <1>5, <1>6 DEF SmInv, MadeHeld, made_held
  <2>3. n \in DOMAIN dirs' => dirs'[n].meta = "ok"
    BY <1>5
  <2> QED BY <1>0, <1>3, <2>1, <2>2, <2>3 DEF OwnKept
<1>9. SmTyped' /\ BootInOrder'
  BY <1>0, <1>1, <1>3, <1>5, <1>6 DEF SmInv, SmTyped, BootInOrder
<1>10. DueHeld'
  <2>1. \A y : leaving(y) => (leaving(y))'
    BY <1>1, <1>3 DEF leaving
  <2> QED BY <1>0, <2>1, DueSame
<1> QED BY <1>7, <1>8, <1>9, <1>10, RequestStep DEF SmInv

LEMMA DeleteBeginKeeps == ASSUME SmInv, NEW r \in Reqs, DeleteBegin(r) PROVE SmInv'
PROOF
<1>0. /\ at_step(r, "delete", "begin")
      /\ UNCHANGED <<dirs, loading, boot, dht_tx, published, keyNo, made, unsent, raced, torn>>
  BY DEF DeleteBegin, fileVars, ghostVars
<1>1. boot = "serving" /\ req[r].op = "delete" /\ req[r].at = "begin" /\ SmTyped
  BY <1>0, AtStep
<1>2. PICK n \in SiteNames : n = req[r].name
  BY <1>0, AtStep
<1>3. PICK k \in 0..keyNo : k = IF n \in DOMAIN sites THEN sites[n] ELSE NoKey
  <2>1. NoKey \in 0..keyNo
    BY <1>1, SmFacts DEF NoKey
  <2> QED BY <1>1, <2>1, SmFacts
<1> DEFINE step == IF k = NoKey THEN "folder" ELSE "withdraw"
           q == [req[r] EXCEPT !.at = step, !.key = k]
<1>4. /\ sites' = [x \in DOMAIN sites \ {n} |-> sites[x]]
      /\ req' = [req EXCEPT ![r].at = step, ![r].key = k]
  BY <1>2, <1>3 DEF DeleteBegin, without_n
<1>5. /\ (req \in [Reqs -> AnyReq] /\ \A x \in Reqs : (req[x].name = "" <=> req[x].op = "none"))'
      /\ \A x \in Reqs : x # r => req'[x] = req[x]
      /\ req'[r].op = "delete" /\ req'[r].name = n /\ req'[r].key = k /\ req'[r].at = step
  <2>1. req[r] \in AnyReq /\ AnyReq' = AnyReq
    BY <1>0, <1>1 DEF SmTyped, AnyReq
  <2>2. q \in AnyReq /\ q.op = "delete" /\ q.name = n /\ q.key = k /\ q.at = step
    BY <1>1, <1>2, <2>1 DEF AnyReq
  <2>3. req' = [req EXCEPT ![r] = q]
    BY <1>1, <1>4 DEF SmTyped
  <2> HIDE DEF q, step
  <2>4. req' \in [Reqs -> AnyReq] /\ \A x \in Reqs : req'[x] = IF x = r THEN q ELSE req[x]
    BY <1>1, <2>2, <2>3 DEF SmTyped
  <2> QED BY <1>1, <2>1, <2>2, <2>4, <1>2, SitesConstants DEF SmTyped
<1>6. /\ DOMAIN sites' = DOMAIN sites \ {n} /\ SameBut(sites, sites', n) /\ sites' \in [DOMAIN sites' -> 0..keyNo]
      /\ \A m \in DOMAIN sites' : sites'[m] = sites[m]
  BY <1>1, <1>4 DEF SmTyped, SameBut
<1>7. announcing' = announcing /\ to_load' = to_load
  BY <1>0 DEF announcing, to_load
<1>8. OthersSame(r, n)
  <2>1. SameBut(dirs, dirs', n) /\ SameBut(made, made', n)
    BY <1>0 DEF SameBut
  <2> QED BY <1>0, <1>1, <1>2, <1>5, <1>6, <1>7, <2>1 DEF OthersSame
<1>9. n \notin raced => n \notin DOMAIN made'
  BY <1>0, <1>1, <1>2 DEF SmInv, DeletesInOrder
<1>10. OwnKept(r, n)
  <2>1. (keys_of(n))' \subseteq keys_of(n)
    <3>1. ASSUME NEW x \in Reqs, req'[x].name = n, NEW y \in 1..keyNo, req'[x].key = y PROVE y \in keys_of(n)
      <4>1. CASE x # r
        BY <1>5, <3>1, <4>1 DEF keys_of
      <4>2. CASE x = r
        <5>1. y = k /\ y # NoKey
          <6>1. keyNo \in Nat
            BY <1>1, SmFacts
          <6>2. y # NoKey
            BY <6>1 DEF NoKey
          <6> QED BY <1>5, <3>1, <4>2, <6>2
        <5> QED BY <1>3, <5>1 DEF keys_of
      <4> QED BY <4>1, <4>2
    <3> QED BY <1>0, <1>6, <3>1 DEF keys_of
  <2>2. n \notin raced \cup torn /\ n \in DOMAIN dirs' => dirs'[n].meta # "half"
    <3> HAVE n \notin raced \cup torn /\ n \in DOMAIN dirs'
    <3>1. \A x \in Reqs : req[x].name = n => x = r
      BY <1>2 DEF SmInv, OneAtATime
    <3> QED BY <1>0, <1>1, <3>1 DEF SmInv, HalfIsWriting
  <2>3. req'[r].at = "withdraw" => req'[r].key # NoKey
    BY <1>5
  <2> QED BY <1>1, <1>5, <1>9, <2>1, <2>2, <2>3 DEF OwnKept
<1>11. SmTyped' /\ BootInOrder'
  BY <1>0, <1>1, <1>5, <1>6, <1>7 DEF SmInv, SmTyped, BootInOrder
<1>12. DueHeld'
  <2>1. \A y : leaving(y) => (leaving(y))'
    BY <1>1, <1>5 DEF leaving
  <2>2. \A y \in 1..keyNo : (\E m \in DOMAIN sites : sites[m] = y) => (\E m \in DOMAIN sites' : sites'[m] = y) \/ (leaving(y))'
    <3> SUFFICES ASSUME NEW y \in 1..keyNo, NEW m \in DOMAIN sites, sites[m] = y
                 PROVE  (\E m2 \in DOMAIN sites' : sites'[m2] = y) \/ (leaving(y))'
      OBVIOUS
    <3>1. CASE m # n
      BY <1>6, <3>1
    <3>2. CASE m = n
      <4>1. k = y /\ k # NoKey
        <5>1. keyNo \in Nat
          BY <1>1, SmFacts
        <5> QED BY <1>3, <3>2, <5>1 DEF NoKey
      <4> QED BY <1>5, <4>1 DEF leaving
    <3> QED BY <3>1, <3>2
  <2> QED BY <1>0, <2>1, <2>2, DueSame
<1> QED BY <1>8, <1>10, <1>11, <1>12, RequestStep DEF SmInv


LEMMA DeleteWithdrawKeeps == ASSUME SmInv, NEW r \in Reqs, DeleteWithdraw(r) PROVE SmInv'
PROOF
<1>0. /\ at_step(r, "delete", "withdraw") /\ goes(r, "folder")
      /\ UNCHANGED <<sites, dirs, loading, boot, published, keyNo, made, unsent, raced, torn>>
  BY DEF DeleteWithdraw, fileVars, ghostVars
<1>1. boot = "serving" /\ req[r].op = "delete" /\ req[r].at = "withdraw" /\ SmTyped
  BY <1>0, AtStep
<1>2. PICK n \in SiteNames : n = req[r].name
  BY <1>0, AtStep
<1>3. /\ (req \in [Reqs -> AnyReq] /\ \A x \in Reqs : (req[x].name = "" <=> req[x].op = "none"))'
      /\ \A x \in Reqs : /\ req'[x].op = req[x].op /\ req'[x].name = req[x].name /\ req'[x].key = req[x].key
                         /\ req'[x].at = IF x = r THEN "folder" ELSE req[x].at
      /\ \A x \in Reqs : x # r => req'[x] = req[x]
  <2>1. "folder" \in site_steps
    BY DEF site_steps
  <2> QED BY <1>0, <1>1, <2>1, ReqGoes
<1>4. PICK k \in 1..keyNo : k = req[r].key /\ k # NoKey
  <2>1. req[r].key # NoKey /\ req[r].key \in 0..keyNo /\ keyNo \in Nat
    BY <1>1, SmFacts DEF SmInv, KeyInHand, key_in_hand
  <2> QED BY <2>1 DEF NoKey
<1> DEFINE e == <<"withdraw", k>>
<1>5. /\ dht_tx' \in Seq({"publish", "withdraw"} \X (1..keyNo))
      /\ Len(dht_tx) \in Nat /\ Len(dht_tx') = Len(dht_tx) + 1
      /\ \A i \in 1..Len(dht_tx) : dht_tx'[i] = dht_tx[i]
      /\ dht_tx'[Len(dht_tx) + 1] = e
      /\ announcing' = announcing \cup {e}
  <2>1. dht_tx' = Append(dht_tx, e) /\ e \in {"publish", "withdraw"} \X (1..keyNo)
    BY <1>4 DEF DeleteWithdraw
  <2> HIDE DEF e
  <2> QED BY <1>1, <2>1, QueueGrows
<1>6. to_load' = to_load
  BY <1>0 DEF to_load
<1>7. OthersSame(r, n)
  <2>1. SameBut(sites, sites', n) /\ SameBut(dirs, dirs', n) /\ SameBut(made, made', n)
    BY <1>0 DEF SameBut
  <2>2. announcing \subseteq announcing' /\ \A y : <<"withdraw", y>> \in announcing' => <<"withdraw", y>> \in announcing \/ y = k
    BY <1>5
  <2> QED BY <1>0, <1>1, <1>2, <1>3, <1>4, <2>1, <2>2 DEF OthersSame
<1>8. OwnKept(r, n)
  <2>1. (keys_of(n))' \subseteq keys_of(n)
    BY <1>0, <1>3 DEF keys_of
  <2>2. n \notin raced \cup torn /\ n \in DOMAIN dirs' => dirs'[n].meta # "half"
    <3> HAVE n \notin raced \cup torn /\ n \in DOMAIN dirs'
    <3>1. \A x \in Reqs : req[x].name = n => x = r
      BY <1>2 DEF SmInv, OneAtATime
    <3> QED BY <1>0, <1>1, <3>1 DEF SmInv, HalfIsWriting
  <2>3. n \notin raced => n \notin DOMAIN made'
    BY <1>0, <1>1, <1>2 DEF SmInv, DeletesInOrder
  <2> QED BY <1>1, <1>3, <2>1, <2>2, <2>3 DEF OwnKept
<1>9. SmTyped' /\ BootInOrder'
  BY <1>0, <1>1, <1>3, <1>5, <1>6 DEF SmInv, SmTyped, BootInOrder
<1>10. DueHeld'
  <2> SUFFICES ASSUME raced = {} PROVE DueHeld'
    BY <1>0 DEF DueHeld
  <2>1. ASSUME NEW y \in 1..keyNo, (due(y))'
        PROVE  (\E m \in DOMAIN sites : sites[m] = y) \/ (leaving(y))' \/ <<"withdraw", y>> \in announcing'
    <3>1. due(y)
      BY <1>0, <1>5, <2>1 DEF due
    <3>2. leaving(y) /\ y # k => (leaving(y))'
      BY <1>3, <1>4 DEF leaving
    <3> QED BY <1>5, <3>1, <3>2 DEF SmInv, DueHeld
  <2>2. ASSUME NEW i \in 1..Len(dht_tx'), NEW j \in 1..Len(dht_tx'), i < j, dht_tx'[i][1] = "withdraw", dht_tx'[j][1] = "publish"
        PROVE  dht_tx'[i][2] # dht_tx'[j][2]
    <3> DEFINE len == Len(dht_tx)
    <3>0. len \in Nat /\ i \in 1..(len + 1) /\ j \in 1..(len + 1)
      BY <1>5
    <3>1. j # len + 1
      BY <1>5, <2>2
    <3>2. i \in 1..len /\ j \in 1..len
      <4> HIDE DEF len
      <4> QED BY <2>2, <3>0, <3>1
    <3>3. dht_tx'[i] = dht_tx[i] /\ dht_tx'[j] = dht_tx[j]
      BY <1>5, <3>2
    <3>4. dht_tx[i][1] = "withdraw" /\ dht_tx[j][1] = "publish"
      BY <2>2, <3>3
    <3>5. dht_tx[i][2] # dht_tx[j][2]
      BY <2>2, <3>2, <3>4 DEF SmInv, DueHeld
    <3> QED BY <3>3, <3>5
  <2> QED BY <1>0, <2>1, <2>2 DEF DueHeld
<1> QED BY <1>7, <1>8, <1>9, <1>10, RequestStep DEF SmInv

LEMMA DeleteFolderKeeps == ASSUME SmInv, NEW r \in Reqs, DeleteFolder(r) PROVE SmInv'
PROOF
<1>0. /\ at_step(r, "delete", "folder") /\ ends(r)
      /\ UNCHANGED <<sites, loading, boot, dht_tx, published, keyNo, made, unsent, raced, torn>>
  BY DEF DeleteFolder, fileVars, ghostVars
<1>1. boot = "serving" /\ req[r].op = "delete" /\ req[r].at = "folder" /\ SmTyped
  BY <1>0, AtStep
<1>2. PICK n \in SiteNames : n = req[r].name
  BY <1>0, AtStep
<1>3. /\ (req \in [Reqs -> AnyReq] /\ \A x \in Reqs : (req[x].name = "" <=> req[x].op = "none"))'
      /\ \A x \in Reqs : req'[x] = IF x = r THEN Idle7 ELSE req[x]
      /\ Idle7.op = "none" /\ Idle7.name = "" /\ Idle7.at = "" /\ Idle7.key = NoKey /\ "" \notin SiteNames
  BY <1>0, <1>1, ReqEnds, IdleReq, SitesConstants
<1>4. dirs' = [x \in DOMAIN dirs \ {n} |-> dirs[x]]
  BY <1>2 DEF DeleteFolder, without_n
<1>5. /\ DOMAIN dirs' = DOMAIN dirs \ {n} /\ SameBut(dirs, dirs', n)
      /\ dirs' \in [DOMAIN dirs' -> [meta : {"ok", "half"}, key : 0..keyNo]]
  BY <1>1, <1>4 DEF SmTyped, SameBut
<1>6. announcing' = announcing /\ to_load' = to_load
  BY <1>0 DEF announcing, to_load
<1>7. OthersSame(r, n)
  <2>1. SameBut(sites, sites', n) /\ SameBut(made, made', n)
    BY <1>0 DEF SameBut
  <2> QED BY <1>0, <1>1, <1>2, <1>3, <1>5, <1>6, <2>1 DEF OthersSame
<1>8. OwnKept(r, n)
  <2>1. (keys_of(n))' \subseteq keys_of(n)
    <3>1. \A x \in Reqs : req'[x].name = n => req[x].name = n /\ req'[x].key = req[x].key
      BY <1>3
    <3> QED BY <1>0, <1>5, <3>1 DEF keys_of
  <2>2. n \notin raced => n \notin DOMAIN made'
    BY <1>0, <1>1, <1>2 DEF SmInv, DeletesInOrder
  <2>3. n \notin DOMAIN dirs'
    BY <1>5
  <2> QED BY <1>3, <2>1, <2>2, <2>3 DEF OwnKept
<1>9. SmTyped' /\ BootInOrder'
  BY <1>0, <1>1, <1>3, <1>5, <1>6 DEF SmInv, SmTyped, BootInOrder
<1>10. DueHeld'
  <2>1. \A y : leaving(y) => (leaving(y))'
    BY <1>1, <1>3 DEF leaving
  <2> QED BY <1>0, <2>1, DueSame
<1> QED BY <1>7, <1>8, <1>9, <1>10, RequestStep DEF SmInv

\* The DHT takes an announcement from the queue.
LEMMA DhtTakesKeeps == ASSUME SmInv, DhtTakes PROVE SmInv'
PROOF
<1> DEFINE h == Head(dht_tx)
           len == Len(dht_tx)
<1>0. /\ dht_tx # <<>> /\ dht_tx' = Tail(dht_tx)
      /\ published' = (IF h[1] = "publish" THEN published \cup {h[2]} ELSE published \ {h[2]})
      /\ UNCHANGED <<sites, dirs, req, loading, boot, keyNo, made, unsent, raced, torn>>
  BY DEF DhtTakes, fileVars, ghostVars
<1>1. SmTyped /\ dht_tx \in Seq({"publish", "withdraw"} \X (1..keyNo)) /\ published \subseteq 1..keyNo
  BY DEF SmInv, SmTyped
<1>2. /\ len \in Nat /\ len > 0 /\ h = dht_tx[1] /\ h \in {"publish", "withdraw"} \X (1..keyNo)
      /\ dht_tx' \in Seq({"publish", "withdraw"} \X (1..keyNo))
      /\ Len(dht_tx') = len - 1 /\ \A i \in 1..(len - 1) : dht_tx'[i] = dht_tx[i + 1]
  BY <1>0, <1>1
<1>3. announcing' \subseteq announcing /\ announcing \subseteq announcing' \cup {h}
  <2>1. ASSUME NEW i \in 1..(len - 1) PROVE dht_tx'[i] \in announcing
    <3> DEFINE j == i + 1
    <3>1. j \in 1..len /\ dht_tx'[i] = dht_tx[j]
      BY <1>2
    <3> HIDE DEF j
    <3> QED BY <3>1 DEF announcing
  <2>2. ASSUME NEW i \in 1..len, i # 1 PROVE dht_tx[i] \in announcing'
    <3> DEFINE j == i - 1
    <3>1. j \in 1..(len - 1) /\ j + 1 = i
      BY <1>2, <2>2
    <3>2. j \in 1..Len(dht_tx') /\ dht_tx'[j] = dht_tx[i]
      BY <1>2, <3>1
    <3> HIDE DEF j
    <3> QED BY <3>2 DEF announcing
  <2> HIDE DEF h, len
  <2>3. announcing' \subseteq announcing
    <3> SUFFICES ASSUME NEW a \in announcing' PROVE a \in announcing
      OBVIOUS
    <3>1. PICK i \in 1..Len(dht_tx') : a = dht_tx'[i]
      BY DEF announcing
    <3> QED BY <1>2, <2>1, <3>1
  <2>4. announcing \subseteq announcing' \cup {h}
    <3> SUFFICES ASSUME NEW a \in announcing, a # h PROVE a \in announcing'
      OBVIOUS
    <3>1. PICK i \in 1..len : a = dht_tx[i]
      BY DEF announcing, len
    <3> QED BY <1>2, <2>2, <3>1
  <2> QED BY <2>3, <2>4
<1>4. to_load' = to_load /\ AnyReq' = AnyReq /\ \A k : (leaving(k))' = leaving(k)
  BY <1>0 DEF to_load, AnyReq, leaving
<1>t. published' \subseteq 1..keyNo
  BY <1>0, <1>1, <1>2
<1>5. SmTyped'
  BY <1>0, <1>1, <1>2, <1>4, <1>t DEF SmTyped
<1>6. BootInOrder'
  BY <1>0, <1>4 DEF SmInv, BootInOrder
<1>7. OneAtATime' /\ DeletesInOrder' /\ KeyInHand'
  BY <1>0 DEF SmInv, OneAtATime, DeletesInOrder, KeyInHand
<1>8. HalfIsWriting'
  BY <1>0 DEF SmInv, HalfIsWriting
<1>9. CreatesInOrder'
  BY <1>0, <1>3, <1>4 DEF SmInv, CreatesInOrder, create_in_order
<1>10. KeysApart'
  BY <1>0, KeysStayApart DEF SmInv, keys_of
<1> HIDE DEF len
<1>11. MadeHeld'
  <2> SUFFICES ASSUME NEW n \in DOMAIN made \ (raced \cup torn), NEW k, k = made[n] PROVE made_held(n, k)'
    BY <1>0 DEF MadeHeld, made_held
  <2>1. made_held(n, k)
    BY DEF SmInv, MadeHeld
  <2>2. <<"withdraw", k>> \notin announcing /\ <<"withdraw", k>> \notin announcing'
    BY <1>3, <2>1 DEF made_held
  <2>h. h \in announcing
    BY <1>2 DEF announcing, len
  <2>3. k \in published => k \in published'
    <3>1. h = <<h[1], h[2]>> /\ h[1] \in {"publish", "withdraw"}
      BY <1>2
    <3>2. h[1] = "withdraw" => h[2] # k
      BY <2>2, <2>h, <3>1
    <3> QED BY <1>0, <3>1, <3>2
  <2>4. <<"publish", k>> \in announcing => <<"publish", k>> \in announcing' \/ k \in published'
    <3>1. h = <<"publish", k>> => h[1] = "publish" /\ h[2] = k
      OBVIOUS
    <3> HIDE DEF h
    <3> QED BY <1>0, <1>3, <3>1
  <2> QED BY <1>0, <2>1, <2>2, <2>3, <2>4 DEF made_held
<1>12. DueHeld'
  <2> SUFFICES ASSUME raced = {} PROVE DueHeld'
    BY <1>0 DEF DueHeld
  <2>1. ASSUME NEW i \in 1..Len(dht_tx'), NEW j \in 1..Len(dht_tx'), i < j, dht_tx'[i][1] = "withdraw", dht_tx'[j][1] = "publish"
        PROVE  dht_tx'[i][2] # dht_tx'[j][2]
    <3> DEFINE a == i + 1
               b == j + 1
    <3>0. i \in 1..(len - 1) /\ j \in 1..(len - 1) /\ len \in Nat
      BY <1>2
    <3>1. a \in 1..len /\ b \in 1..len /\ a < b
      BY <2>1, <3>0
    <3>2. dht_tx'[i] = dht_tx[a] /\ dht_tx'[j] = dht_tx[b]
      BY <1>2, <3>0
    <3> HIDE DEF a, b
    <3>3. dht_tx[a][1] = "withdraw" /\ dht_tx[b][1] = "publish"
      BY <2>1, <3>2
    <3>4. dht_tx[a][2] # dht_tx[b][2]
      BY <3>1, <3>3 DEF SmInv, DueHeld, len
    <3> QED BY <3>2, <3>4
  <2>2. ASSUME NEW y \in 1..keyNo, (due(y))'
        PROVE  (\E m \in DOMAIN sites : sites[m] = y) \/ leaving(y) \/ <<"withdraw", y>> \in announcing'
    <3>1. h = <<h[1], h[2]>> /\ h[1] \in {"publish", "withdraw"} /\ h \in announcing
      BY <1>2 DEF announcing, len
    <3>2. due(y)
      <4>1. CASE y \in published'
        <5>1. y \in published \/ h = <<"publish", y>>
          BY <1>0, <3>1, <4>1
        <5> QED BY <3>1, <5>1 DEF due
      <4>2. CASE <<"publish", y>> \in announcing'
        BY <1>3, <4>2 DEF due
      <4> QED BY <2>2, <4>1, <4>2 DEF due
    <3>3. h # <<"withdraw", y>>
      <4> SUFFICES ASSUME h = <<"withdraw", y>> PROVE FALSE
        OBVIOUS
      <4>1. h[1] = "withdraw" /\ h[2] = y
        OBVIOUS
      <4>2. y \notin published'
        BY <1>0, <4>1
      <4>3. <<"publish", y>> \in announcing'
        BY <2>2, <4>2 DEF due
      <4>4. PICK i \in 1..Len(dht_tx') : dht_tx'[i] = <<"publish", y>>
        BY <4>3 DEF announcing
      <4> DEFINE j == i + 1
      <4>5. j \in 1..len /\ 1 \in 1..len /\ 1 < j /\ dht_tx[j] = <<"publish", y>>
        BY <1>2, <4>4
      <4>6. dht_tx[1][1] = "withdraw" /\ dht_tx[1][2] = y
        BY <1>2, <4>1
      <4>7. dht_tx[j][1] = "publish" /\ dht_tx[j][2] = y
        BY <4>5
      <4> HIDE DEF j
      <4> QED BY <4>5, <4>6, <4>7 DEF SmInv, DueHeld, len
    <3> HIDE DEF h
    <3> QED BY <1>3, <3>2, <3>3 DEF SmInv, DueHeld
  <2> QED BY <1>0, <1>4, <2>1, <2>2 DEF DueHeld
<1> QED BY <1>5, <1>6, <1>7, <1>8, <1>9, <1>10, <1>11, <1>12 DEF SmInv

LEMMA AnnounceKeeps == ASSUME SmInv, NEW sent \in SUBSET (1..keyNo), AnnounceAllSites(sent) PROVE SmInv'
PROOF
<1> DEFINE keyed == {sites[n] : n \in DOMAIN sites} \ {NoKey}
<1>0. /\ boot = "announce" /\ boot' = "serving" /\ sent \subseteq keyed
      /\ unsent' = unsent \cup (keyed \ sent) \cup {loading[n] : n \in DOMAIN loading}
      /\ UNCHANGED <<sites, dirs, loading, published, req, keyNo, made, raced, torn>>
  BY DEF AnnounceAllSites
<1>1. PICK order \in [1..Cardinality(sent) -> sent] :
         /\ \A k \in sent : \E i \in DOMAIN order : order[i] = k
         /\ dht_tx' = dht_tx \o [i \in DOMAIN order |-> <<"publish", order[i]>>]
  BY DEF AnnounceAllSites
<1>2. /\ dht_tx = <<>> /\ published = {} /\ \A r \in Reqs : req[r] = Idle7
      /\ Idle7.op = "none" /\ Idle7.name = "" /\ Idle7.at = "" /\ Idle7.key = NoKey
      /\ SmTyped /\ keyNo \in Nat
  BY <1>0, IdleReq DEF SmInv, BootInOrder, SmTyped
<1> DEFINE N == Cardinality(sent)
<1>3. N \in Nat
  <2>n. keyNo \in Nat
    BY <1>2
  <2>0. 1 \in Int /\ keyNo \in Int
    BY ONLY <2>n
  <2>1. IsFiniteSet(1..keyNo)
    BY ONLY <2>0, FS_Interval
  <2>2. IsFiniteSet(sent)
    BY <2>1, FS_Subset
  <2> QED BY <2>2, FS_CardinalityType
<1> DEFINE s == [i \in 1..N |-> <<"publish", order[i]>>]
           Ev == {"publish", "withdraw"} \X (1..keyNo)
<1>4. DOMAIN order = 1..N /\ \A i \in 1..N : order[i] \in sent /\ order[i] \in 1..keyNo
  OBVIOUS
<1>5. s \in Seq(Ev) /\ Len(s) = N /\ \A i \in 1..N : s[i] = <<"publish", order[i]>>
  BY <1>3, <1>4
<1>6. dht_tx' = s
  <2>1. dht_tx' = <<>> \o s
    BY <1>1, <1>2, <1>4
  <2> HIDE DEF s, Ev
  <2> QED BY <1>5, <2>1, ConcatEmptySeq
<1> HIDE DEF s, N
<1>7. Len(dht_tx') = N /\ \A i \in 1..N : dht_tx'[i] = <<"publish", order[i]>> /\ order[i] \in sent
  BY <1>4, <1>5, <1>6
<1>8. \A k \in sent : <<"publish", k>> \in announcing'
  <2> SUFFICES ASSUME NEW k \in sent PROVE <<"publish", k>> \in announcing'
    OBVIOUS
  <2>1. PICK i \in 1..N : order[i] = k
    BY <1>1, <1>4
  <2> QED BY <1>7, <2>1 DEF announcing
<1>9. \A k : <<"withdraw", k>> \notin announcing' /\ (<<"publish", k>> \in announcing' => k \in sent)
  <2> SUFFICES ASSUME NEW e \in announcing' PROVE e[1] = "publish" /\ e[2] \in sent
    OBVIOUS
  <2>1. PICK i \in 1..N : e = dht_tx'[i]
    BY <1>7 DEF announcing
  <2> QED BY <1>7, <2>1
<1>10. \A r \in Reqs : req'[r] = Idle7
  BY <1>0, <1>2
<1>11. SmTyped'
  <2>1. dht_tx' \in Seq({"publish", "withdraw"} \X (1..keyNo))
    BY <1>5, <1>6
  <2>2. AnyReq' = AnyReq
    BY <1>0 DEF AnyReq
  <2> QED BY <1>0, <1>2, <2>1, <2>2 DEF SmTyped
<1>12. BootInOrder'
  BY <1>0 DEF SmInv, BootInOrder, to_load
<1>13. OneAtATime' /\ DeletesInOrder' /\ KeyInHand' /\ CreatesInOrder'
  BY <1>2, <1>10, SitesConstants DEF OneAtATime, DeletesInOrder, KeyInHand, key_in_hand, CreatesInOrder
<1>14. HalfIsWriting'
  BY <1>0 DEF SmInv, HalfIsWriting
<1>15. KeysApart'
  BY <1>0, KeysStayApart DEF SmInv, keys_of
<1>16. MadeHeld'
  <2> SUFFICES ASSUME NEW n \in DOMAIN made \ (raced \cup torn), NEW k, k = made[n] PROVE made_held(n, k)'
    BY <1>0 DEF MadeHeld, made_held
  <2>1. made_held(n, k) /\ k \in 1..keyNo
    BY <1>2, SmFacts DEF SmInv, MadeHeld
  <2>2. k # NoKey
    <3>1. k \in 1..keyNo /\ keyNo \in Nat
      BY <1>2, <2>1
    <3> QED BY ONLY <3>1 DEF NoKey
  <2>3. k \in unsent' \/ <<"publish", k>> \in announcing'
    <3>1. CASE n \in DOMAIN sites /\ sites[n] = k
      <4>1. k \in keyed
        BY <2>2, <3>1
      <4> QED BY <1>0, <1>8, <4>1
    <3>2. CASE n \in DOMAIN loading /\ loading[n] = k
      BY <1>0, <3>2
    <3> QED BY <1>0, <2>1, <3>1, <3>2 DEF made_held
  <2> QED BY <1>0, <1>9, <2>1, <2>3 DEF made_held
<1>17. DueHeld'
  <2>1. ASSUME NEW k, (due(k))' PROVE \E n \in DOMAIN sites : sites[n] = k
    <3>1. k \in sent
      BY <1>0, <1>2, <1>9, <2>1 DEF due
    <3> QED BY <1>0, <3>1
  <2>2. \A i, j \in 1..Len(dht_tx') : dht_tx'[i][1] # "withdraw"
    BY <1>7
  <2> QED BY <1>0, <2>1, <2>2 DEF DueHeld
<1> QED BY <1>11, <1>12, <1>13, <1>14, <1>15, <1>16, <1>17 DEF SmInv

LEMMA SmInitHolds == SmInit => SmInv
PROOF
<1> SUFFICES ASSUME SmInit PROVE SmInv
  OBVIOUS
<1>1. /\ sites = NoSites /\ dirs = NoSites /\ loading = NoSites /\ made = NoSites /\ boot = "off" /\ dht_tx = <<>>
      /\ published = {} /\ raced = {} /\ torn = {} /\ keyNo = 0 /\ req = [r \in Reqs |-> Idle7] /\ DOMAIN NoSites = {}
  BY DEF SmInit, NoSites
<1>k. keyNo \in Nat
  BY <1>1
<1>2. Idle7.op = "none" /\ Idle7.name = "" /\ Idle7.at = "" /\ Idle7.key = NoKey /\ Idle7 \in AnyReq
  <2>1. Idle7 \in AnyReq
    BY ONLY <1>k DEF Idle7, AnyReq, NoKey
  <2> QED BY <2>1 DEF Idle7
<1>3. \A r \in Reqs : req[r] = Idle7
  BY <1>1
<1>4. announcing = {}
  BY <1>1 DEF announcing
<1>5. SmTyped
  <2>1. NoSites \in [DOMAIN NoSites -> 0..keyNo] /\ NoSites \in [DOMAIN NoSites -> 1..keyNo]
    BY <1>1 DEF NoSites
  <2>2. NoSites \in [DOMAIN NoSites -> [meta : {"ok", "half"}, key : 0..keyNo]]
    BY <1>1 DEF NoSites
  <2>3. req \in [Reqs -> AnyReq]
    BY <1>1, <1>2
  <2>4. dht_tx \in Seq({"publish", "withdraw"} \X (1..keyNo))
    BY <1>1
  <2> QED BY <1>1, <1>2, <1>3, <2>1, <2>2, <2>3, <2>4 DEF SmTyped
<1>6. BootInOrder /\ OneAtATime /\ CreatesInOrder /\ DeletesInOrder /\ KeyInHand /\ HalfIsWriting
  BY <1>1, <1>2, <1>3, SitesConstants DEF BootInOrder, to_load, OneAtATime, CreatesInOrder, DeletesInOrder, KeyInHand, key_in_hand, HalfIsWriting
<1>7. KeysApart
  BY <1>1 DEF KeysApart, keys_of
<1>8. MadeHeld
  BY <1>1 DEF MadeHeld
<1>9. DueHeld
  BY <1>1 DEF DueHeld
<1> QED BY <1>5, <1>6, <1>7, <1>8, <1>9 DEF SmInv

LEMMA SmStep == SmInv /\ [SmNext]_smVars => SmInv'
PROOF
<1> SUFFICES ASSUME SmInv, [SmNext]_smVars PROVE SmInv'
  OBVIOUS
<1>1. CASE Start
  BY <1>1, StartKeeps
<1>2. CASE LoadTask
  BY <1>2, LoadKeeps
<1>3. CASE DhtTakes
  BY <1>3, DhtTakesKeeps
<1>4. CASE Stop
  BY <1>4, SmStopKeeps
<1>5. CASE \E sent \in SUBSET (1..keyNo) : AnnounceAllSites(sent)
  BY <1>5, AnnounceKeeps
<1>6. CASE \E r \in Reqs, op \in {"create", "edit", "delete"}, n \in SiteNames : Request(r, op, n)
  BY <1>6, RequestKeeps
<1>7. ASSUME NEW r \in Reqs, CreateBegin(r) \/ CreateKey(r) \/ CreateInsert(r) \/ CreatePublish(r) PROVE SmInv'
  BY <1>7, CreateBeginKeeps, CreateKeyKeeps, CreateInsertKeeps, CreatePublishKeeps
<1>8. ASSUME NEW r \in Reqs, EditBegin(r) \/ EditMeta(r) \/ EditDone(r) PROVE SmInv'
  BY <1>8, EditBeginKeeps, EditMetaKeeps, EditDoneKeeps
<1>9. ASSUME NEW r \in Reqs, DeleteBegin(r) \/ DeleteWithdraw(r) \/ DeleteFolder(r) PROVE SmInv'
  BY <1>9, DeleteBeginKeeps, DeleteWithdrawKeeps, DeleteFolderKeeps
<1>10. CASE UNCHANGED smVars
  BY <1>10, SmStutters
<1> QED BY <1>1, <1>2, <1>3, <1>4, <1>5, <1>6, <1>7, <1>8, <1>9, <1>10 DEF SmNext

LEMMA SmInvSound == SmInv => SitesSound
PROOF
<1> SUFFICES ASSUME SmInv PROVE SitesSound
  OBVIOUS
<1>1. ASSUME NEW n \in SiteNames, settled(n), n \in DOMAIN made
      PROVE  /\ n \in DOMAIN sites /\ sites[n] = made[n]
             /\ n \in DOMAIN dirs /\ dirs[n] = [meta |-> "ok", key |-> made[n]]
             /\ dht_tx = <<>> => made[n] \in published \cup unsent
  <2>1. boot = "serving" /\ DOMAIN loading = {} /\ n \notin raced \cup torn /\ \A r \in Reqs : req[r].name # n
    BY <1>1 DEF settled, to_load, at_work
  <2>2. made_held(n, made[n])
    BY <1>1, <2>1 DEF SmInv, MadeHeld
  <2>3. n \in DOMAIN sites /\ sites[n] = made[n] /\ n \in DOMAIN dirs /\ dirs[n].key = made[n]
    BY <2>1, <2>2 DEF made_held
  <2>4. dirs[n] \in [meta : {"ok", "half"}, key : 0..keyNo] /\ dirs[n].meta # "half"
    BY <2>1, <2>3 DEF SmInv, SmTyped, HalfIsWriting
  <2>5. dirs[n] = [meta |-> "ok", key |-> made[n]]
    BY <2>3, <2>4
  <2>6. dht_tx = <<>> => announcing = {}
    BY DEF announcing
  <2> QED BY <2>1, <2>2, <2>3, <2>5, <2>6 DEF made_held
<1>2. ASSUME \A n \in SiteNames : settled(n), dht_tx = <<>>
      PROVE  published \subseteq {sites[n] : n \in DOMAIN sites}
  <2> SUFFICES ASSUME NEW k \in published PROVE \E n \in DOMAIN sites : sites[n] = k
    OBVIOUS
  <2>1. raced = {} /\ \A r \in Reqs : req[r].name \notin SiteNames
    BY <1>2 DEF settled, at_work, SmInv, SmTyped
  <2>2. \A r \in Reqs : req[r].op = "none"
    BY <2>1, SmFacts DEF SmInv
  <2>3. ~leaving(k)
    BY <2>2 DEF leaving
  <2>4. announcing = {}
    BY <1>2 DEF announcing
  <2>5. k \in 1..keyNo /\ due(k)
    BY DEF SmInv, SmTyped, due
  <2> QED BY <2>1, <2>3, <2>4, <2>5 DEF SmInv, DueHeld
<1> QED BY <1>1, <1>2 DEF SitesSound

(* A SevenNine site whose creation was answered stays in the map, in its     *)
(* folder and in the DHT under one key through any requests, stops and       *)
(* restarts, and no key without a site is republished, for any requests,     *)
(* names and room of the queue.                                              *)
THEOREM SitesStaySound == SmSpec => []SitesSound
PROOF
<1>1. SmInit => SmInv
  BY SmInitHolds
<1>2. SmInv /\ [SmNext]_smVars => SmInv'
  BY SmStep
<1>3. SmInv => SitesSound
  BY SmInvSound
<1> QED BY <1>1, <1>2, <1>3, PTL DEF SmSpec
=============================================================================
