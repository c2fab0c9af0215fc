----------------------------- MODULE SpentList -----------------------------
(***************************************************************************)
(* What the list of spent passes promises to the node that uses it         *)
(* (hidravpn-node, leases.rs, struct SpentPasses), whatever its writes and *)
(* the power do: a pass taken with success, and not given back, is in the  *)
(* list as long as it is valid, now and after any restart; and nothing is  *)
(* in the list but such passes and those whose last operation failed.      *)
(*                                                                         *)
(* SpentPasses, with its snapshot and its journal, implements this module; *)
(* AdmissionNode is built on it.                                           *)
(***************************************************************************)
CONSTANT Passes     \* the passes clients redeem here, each known by its spent_tag

VARIABLES
    spent,          \* the passes the node holds as spent
    acked,          \* taken with success and not given back since
    doubt,          \* the last take or give-back of the pass failed
    expired         \* the passes whose issuer key's validity has ended

listVars == <<spent, acked, doubt, expired>>

ListTypeOK ==
    /\ spent \subseteq Passes
    /\ acked \subseteq Passes
    /\ doubt \subseteq Passes
    /\ expired \subseteq Passes

ListInit ==
    /\ spent = {}
    /\ acked = {}
    /\ doubt = {}
    /\ expired = {}

-----------------------------------------------------------------------------

\* record() is Ok.
TakeOk(p) ==
    /\ spent' = spent \cup {p}
    /\ acked' = acked \cup {p}
    /\ doubt' = doubt \ {p}
    /\ UNCHANGED expired

\* record() fails: the pass is not held as spent, or, when an earlier operation
\* failed too, it may be.
TakeFails(p) ==
    /\ \/ UNCHANGED spent
       \/ doubt # {} /\ spent' = spent \cup {p}
    /\ doubt' = doubt \cup {p}
    /\ UNCHANGED <<acked, expired>>

\* forget() is Ok.
GiveBackOk(p) ==
    /\ p \in spent
    /\ spent' = spent \ {p}
    /\ acked' = acked \ {p}
    /\ doubt' = doubt \ {p}
    /\ UNCHANGED expired

\* forget() fails: the pass stays spent until a restart, and maybe after it.
GiveBackFails(p) ==
    /\ p \in spent
    /\ acked' = acked \ {p}
    /\ doubt' = doubt \cup {p}
    /\ UNCHANGED <<spent, expired>>

\* The reaper drops what has expired, and may drop what was never admitted.
Prune ==
    /\ spent' \in SUBSET spent
    /\ spent \ spent' \subseteq expired \cup (doubt \ acked)
    /\ spent' \cap expired = {}
    /\ UNCHANGED <<acked, doubt, expired>>

\* A node that starts again holds every valid pass it took, and nothing that
\* it neither took nor failed to write.
Reload ==
    /\ spent' \in SUBSET (acked \cup doubt)
    /\ acked \ expired \subseteq spent'
    /\ UNCHANGED <<acked, doubt, expired>>

\* The validity of the pass's issuer key ends.
Lapse(p) ==
    /\ p \notin expired
    /\ expired' = expired \cup {p}
    /\ UNCHANGED <<spent, acked, doubt>>

ListNext ==
    \/ \E p \in Passes :
          \/ p \notin spent /\ TakeOk(p)
          \/ p \notin spent /\ TakeFails(p)
          \/ p \in acked /\ GiveBackOk(p)
          \/ p \in acked /\ GiveBackFails(p)
          \/ Lapse(p)
    \/ Prune
    \/ Reload

ListSpec == ListInit /\ [][ListNext]_listVars

-----------------------------------------------------------------------------

\* A pass that was taken, was not given back and is still valid is held as
\* spent: the promise the node's admissions rest on.
TakenIsHeld == acked \ expired \subseteq spent
=============================================================================
