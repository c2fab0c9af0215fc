---------------------------- MODULE SpentPasses ----------------------------
(***************************************************************************)
(* The list of spent passes of a node that admits with passes              *)
(* (hidravpn-node, leases.rs, struct SpentPasses).                         *)
(*                                                                         *)
(* In memory it is a set of tags.  On disk it is a snapshot (spent.json),  *)
(* replaced atomically, and a journal (spent.log) with one line per pass   *)
(* taken since.  A pass is written down as spent before its key is         *)
(* admitted, so that no crash lets it be spent again.                      *)
(*                                                                         *)
(* Every write may fail, and a write that fails leaves any of the file     *)
(* states the code can leave.  A power cut in the middle of an operation   *)
(* is a failed write followed by LoadSpent.                                *)
(***************************************************************************)
EXTENDS Naturals, FiniteSets

CONSTANTS
    Passes,         \* the passes clients redeem here, each known by its spent_tag
    COMPACT_AFTER,  \* journal lines after which the snapshot is rewritten
    MaxFaults       \* bound on the writes that fail in a behaviour

ASSUME SpentAssumption ==
    /\ IsFiniteSet(Passes)
    /\ COMPACT_AFTER \in Nat
    /\ MaxFaults \in Nat

VARIABLES
    \* the fields of SpentPasses
    tags,           \* the passes held as spent, in memory
    journal,        \* lines in the journal, as this process counts them
    journal_torn,   \* a write to the journal failed partway
    \* the files
    spent_json,     \* the passes in the snapshot
    log_lines,      \* the passes whose journal line is whole, newline included
    log_cut,        \* the journal does not end with a newline
    log_tail,       \* the pass the unterminated end reads as, if it reads as one
    short,          \* the passes with a copy whose date was cut short as it was written
    \* the world
    expired,        \* the passes whose issuer key's validity has ended
    faults,         \* writes that failed so far
    \* what callers were told (history)
    acked,          \* record() returned Ok, and no forget() was carried out since
    doubt           \* the last record() or forget() of the pass returned an error

logVars   == <<log_lines, log_cut, log_tail>>
diskVars  == <<spent_json, log_lines, log_cut, log_tail>>
memVars   == <<tags, journal, journal_torn>>
spentVars == <<tags, journal, journal_torn, spent_json, log_lines, log_cut,
               log_tail, short, expired, faults, acked, doubt>>

SpentTypeOK ==
    /\ tags \subseteq Passes
    /\ journal \in Nat
    /\ journal_torn \in BOOLEAN
    /\ spent_json \subseteq Passes
    /\ log_lines \subseteq Passes
    /\ log_cut \in BOOLEAN
    /\ log_tail \subseteq Passes
    /\ short \subseteq Passes
    /\ expired \subseteq Passes
    /\ faults \in Nat
    /\ acked \subseteq Passes
    /\ doubt \subseteq Passes

\* What load_from would read: the snapshot and every line that reads as one.
OnDisk == spent_json \cup log_lines \cup log_tail

SpentInit ==
    /\ tags = {}
    /\ journal = 0
    /\ journal_torn = FALSE
    /\ spent_json = {}
    /\ log_lines = {}
    /\ log_cut = FALSE
    /\ log_tail = {}
    /\ short = {}
    /\ expired = {}
    /\ faults = 0
    /\ acked = {}
    /\ doubt = {}

-----------------------------------------------------------------------------
(* Writing to the files.                                                   *)

\* One write of the disk or the device fails.
Fault == faults < MaxFaults /\ faults' = faults + 1

\* A whole line "tag until\n" at the end of the journal.  After an end with no
\* newline the two run together, and the line they make reads as no pass.
AppendLine(p) ==
    /\ log_lines' = IF log_cut THEN log_lines ELSE log_lines \cup {p}
    /\ log_cut'   = FALSE
    /\ log_tail'  = {}

\* A line cut short: the part written reads as the pass when only the newline
\* is missing, as the pass with too early a date when the date lost digits,
\* and as nothing otherwise.
TearLine(p) ==
    /\ log_cut' = TRUE
    /\ \/ log_tail' = {}  /\ short' = short
       \/ log_tail' = {p} /\ short' = short
       \/ log_tail' = {p} /\ short' = short \cup {p}
    /\ UNCHANGED log_lines

EmptyJournal ==
    /\ log_lines' = {}
    /\ log_cut'   = FALSE
    /\ log_tail'  = {}

\* The journal is emptied before the snapshot has been replaced.
MutSaveJournalFirst(S) ==
    /\ Fault
    /\ UNCHANGED <<journal, journal_torn>>
    /\ \/ UNCHANGED diskVars
       \/ EmptyJournal /\ UNCHANGED spent_json
       \/ EmptyJournal /\ spent_json' = S

\* save(): the set S as the new snapshot (written beside, flushed, renamed
\* over), then the journal emptied.
SaveOk(S) ==
    /\ spent_json' = S
    /\ EmptyJournal
    /\ journal' = 0
    /\ journal_torn' = FALSE
    /\ UNCHANGED faults

\* save() fails before the rename, at the journal, or as the emptied journal
\* is flushed.
SaveFails(S) ==
    /\ Fault
    /\ UNCHANGED <<journal, journal_torn>>
    /\ \/ UNCHANGED diskVars
       \/ spent_json' = S /\ UNCHANGED logVars
       \/ spent_json' = S /\ EmptyJournal

-----------------------------------------------------------------------------
(* The operations of SpentPasses.                                          *)

\* The torn flag is not looked at: the line goes to the journal in any case.
MutRecordIgnoresTear(p) ==
    /\ tags' = tags \cup {p}
    /\ AppendLine(p)
    /\ journal' = journal + 1
    /\ acked' = acked \cup {p}
    /\ doubt' = doubt \ {p}
    /\ short' = short \ {p}
    /\ UNCHANGED <<journal_torn, spent_json, faults, expired>>

\* record() returns Ok: one line more, or the snapshot rewritten when the
\* journal is torn.
RecordOk(p) ==
    /\ tags' = tags \cup {p}
    /\ IF journal_torn
       THEN SaveOk(tags \cup {p})
       ELSE /\ AppendLine(p)
            /\ journal' = journal + 1
            /\ UNCHANGED <<journal_torn, spent_json, faults>>
    /\ acked' = acked \cup {p}
    /\ doubt' = doubt \ {p}
    /\ short' = short \ {p}
    /\ UNCHANGED expired

\* record() returns an error.  With a torn journal the tag is in memory by
\* then; otherwise the journal could not be opened, or its line could not be
\* written and flushed: nothing of it, part of it or all of it is there.
RecordFails(p) ==
    /\ \/ /\ journal_torn
          /\ tags' = tags \cup {p}
          /\ SaveFails(tags \cup {p})
          /\ UNCHANGED short
       \/ /\ ~journal_torn
          /\ Fault
          /\ UNCHANGED <<tags, journal, spent_json>>
          /\ \/ UNCHANGED <<journal_torn, logVars, short>>
             \/ /\ journal_torn' = TRUE
                /\ \/ (UNCHANGED logVars \/ AppendLine(p)) /\ UNCHANGED short
                   \/ TearLine(p)
    /\ doubt' = doubt \cup {p}
    /\ UNCHANGED <<acked, expired>>

\* Only the count and the memory are put right, and no file is rewritten.
MutForgetInMemory(p) ==
    /\ p \in tags
    /\ tags' = tags \ {p}
    /\ journal' = journal - 1
    /\ acked' = acked \ {p}
    /\ doubt' = doubt \ {p}
    /\ UNCHANGED <<journal_torn, diskVars, short, expired, faults>>

\* forget() returns Ok: nothing to take back, or the list saved without it.
ForgetOk(p) ==
    /\ \/ p \notin tags /\ UNCHANGED <<memVars, diskVars, faults, acked, doubt>>
       \/ /\ p \in tags
          /\ tags' = tags \ {p}
          /\ SaveOk(tags \ {p})
          /\ acked' = acked \ {p}
          /\ doubt' = doubt \ {p}
    /\ UNCHANGED <<short, expired>>

\* forget() returns an error: the tag is put back in memory.
ForgetFails(p) ==
    /\ p \in tags
    /\ SaveFails(tags \ {p})
    /\ acked' = acked \ {p}
    /\ doubt' = doubt \cup {p}
    /\ UNCHANGED <<tags, short, expired>>

\* The torn journal is left to the next pass.
MutCompactOnLength == journal >= COMPACT_AFTER

needs_compacting == journal >= COMPACT_AFTER \/ journal_torn

\* What the reaper does with the list at every tick: prune(), and save() when
\* something was pruned or the journal has grown or is torn.  An error is
\* logged and nothing else.  A date that lost digits is long past.
ReapSpent ==
    \E cut \in SUBSET (short \cap tags) :
    LET kept == tags \ (expired \cup cut)
    IN  /\ tags' = kept
        /\ IF kept # tags \/ needs_compacting
           THEN SaveOk(kept) \/ SaveFails(kept)
           ELSE UNCHANGED <<journal, journal_torn, diskVars, faults>>
        /\ UNCHANGED <<short, expired, acked, doubt>>

\* The journal's end is not looked at.
MutLoadSkipsTear ==
    /\ tags' = OnDisk
    /\ journal' = Cardinality(log_lines) + Cardinality(log_tail)
    /\ journal_torn' = FALSE
    /\ UNCHANGED <<diskVars, short, expired, faults, acked, doubt>>

\* load_from(): the snapshot, then the journal line by line.
LoadSpent ==
    /\ tags' = OnDisk
    /\ journal' = Cardinality(log_lines) + Cardinality(log_tail)
    /\ journal_torn' = log_cut
    /\ UNCHANGED <<diskVars, short, expired, faults, acked, doubt>>

\* The validity of the pass's issuer key ends (not_after is in the past).
Expire(p) ==
    /\ p \notin expired
    /\ expired' = expired \cup {p}
    /\ UNCHANGED <<memVars, diskVars, short, faults, acked, doubt>>

-----------------------------------------------------------------------------
(* The list on its own: a caller that records only what is not held, and   *)
(* takes back only what it recorded.                                       *)

SpentNext ==
    \/ \E p \in Passes :
          \/ p \notin tags /\ RecordOk(p)
          \/ p \notin tags /\ RecordFails(p)
          \/ p \in acked /\ ForgetOk(p)
          \/ p \in acked /\ ForgetFails(p)
          \/ Expire(p)
    \/ ReapSpent
    \/ LoadSpent

\* The reaper's interval keeps ticking while the node runs.
SpentSpec == SpentInit /\ [][SpentNext]_spentVars /\ WF_spentVars(ReapSpent)

-----------------------------------------------------------------------------
(* Properties.                                                             *)

\* A pass written down with success, not taken back and still valid, is held
\* as spent in memory and would be again after a power cut at this very
\* moment, whatever writes failed before (leases.rs: "flushed before the
\* caller admits its key"; "after a power cut it is the old one or the new
\* one").
AckedIsSpent == acked \ expired \subseteq tags \cap OnDisk

\* The journal is known to be torn whenever it is, so that no line is ever
\* appended after one cut short (leases.rs: "The last line cut short: append
\* nothing after it").
TearIsKnown == log_cut => journal_torn

\* The list holds nothing as spent, in memory or on disk, but passes it said
\* it took and passes whose last operation it reported as failed.
NothingElseSpent == tags \cup OnDisk \subseteq acked \cup doubt

\* A torn journal does not stay torn: the reaper's compaction, or the next
\* pass, replaces it, as soon as writes succeed again.
TearIsRepaired == journal_torn ~> ~journal_torn

\* The snapshot and the journal together implement the abstract list: every
\* operation, failed write and restart of the code is a step its callers may
\* count on.
List == INSTANCE SpentList WITH spent <- tags
ImplementsSpentList == List!ListSpec

\* Only an end with no newline reads as a pass by itself, a torn journal goes
\* back to a pass whose last operation failed, and no copy of a valid pass that
\* was taken has its date cut short.
TailInv ==
    /\ log_tail # {} => log_cut
    /\ journal_torn => doubt # {}
    /\ short \cap acked \subseteq expired

\* The inductive invariant behind the safety properties.
SpentInv ==
    /\ SpentTypeOK
    /\ AckedIsSpent
    /\ TearIsKnown
    /\ NothingElseSpent
    /\ TailInv
=============================================================================
