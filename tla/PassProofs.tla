----------------------------- MODULE PassProofs -----------------------------
(***************************************************************************)
(* Proofs about passes: how the issuer sells them (the rate, the room for  *)
(* orders, the payments it believes in), and the list of those spent at a  *)
(* node.                                                                   *)
(***************************************************************************)
EXTENDS SpentPasses, Sales, SumTheorems, FiniteSetTheorems, TLAPS

-----------------------------------------------------------------------------
(* The list of spent passes: its safety properties for any finite set of     *)
(* passes, any compaction threshold and any number of failed writes, and the *)
(* refinement of SpentList.                                                  *)

LEMMA InitInv == SpentInit => SpentInv
<1> SUFFICES ASSUME SpentInit PROVE SpentInv
  OBVIOUS
<1>1. SpentTypeOK
  BY DEF SpentInit, SpentTypeOK
<1>2. AckedIsSpent
  BY DEF SpentInit, AckedIsSpent, OnDisk
<1>3. NothingElseSpent
  BY DEF SpentInit, NothingElseSpent, OnDisk
<1>4. TearIsKnown /\ TailInv
  BY DEF SpentInit, TearIsKnown, TailInv
<1> QED BY <1>1, <1>2, <1>3, <1>4 DEF SpentInv

\* What a save() that succeeds leaves: the set it was given, in one file.
LEMMA SaveOkEffect ==
    ASSUME NEW S, SaveOk(S)
    PROVE  /\ spent_json' = S
           /\ log_lines' = {} /\ log_tail' = {} /\ log_cut' = FALSE
           /\ journal' = 0 /\ journal_torn' = FALSE /\ faults' = faults
BY DEF SaveOk, EmptyJournal

\* What a save() that fails leaves: every pass of the set that was on disk is
\* still there, and nothing is there that was not there or in the set.
LEMMA SaveFailsEffect ==
    ASSUME NEW S, SaveFails(S)
    PROVE  /\ OnDisk \cap S \subseteq OnDisk'
           /\ OnDisk' \subseteq OnDisk \cup S
           /\ spent_json' \in {spent_json, S}
           /\ \/ log_lines' = log_lines /\ log_tail' = log_tail /\ log_cut' = log_cut
              \/ log_lines' = {} /\ log_tail' = {} /\ log_cut' = FALSE
           /\ journal' = journal /\ journal_torn' = journal_torn
           /\ faults' = faults + 1
<1>1. /\ journal' = journal /\ journal_torn' = journal_torn /\ faults' = faults + 1
  BY DEF SaveFails, Fault
<1>2. CASE spent_json' = spent_json /\ log_lines' = log_lines /\ log_cut' = log_cut
           /\ log_tail' = log_tail
  BY <1>1, <1>2 DEF OnDisk
<1>3. CASE spent_json' = S /\ log_lines' = log_lines /\ log_cut' = log_cut
           /\ log_tail' = log_tail
  BY <1>1, <1>3 DEF OnDisk
<1>4. CASE spent_json' = S /\ log_lines' = {} /\ log_cut' = FALSE /\ log_tail' = {}
  BY <1>1, <1>4 DEF OnDisk
<1> QED BY <1>2, <1>3, <1>4 DEF SaveFails, diskVars, logVars, EmptyJournal

\* The types of what save() writes, whether it succeeds or not.
LEMMA SaveFailsType ==
    ASSUME SpentTypeOK, NEW S, S \subseteq Passes, SaveFails(S)
    PROVE  /\ journal' \in Nat /\ journal_torn' \in BOOLEAN /\ faults' \in Nat
           /\ spent_json' \subseteq Passes /\ log_lines' \subseteq Passes
           /\ log_cut' \in BOOLEAN /\ log_tail' \subseteq Passes
<1>1. journal' \in Nat /\ faults' \in Nat
  BY DEF SaveFails, Fault, SpentTypeOK
<1>2. journal_torn' \in BOOLEAN
  BY Zenon DEF SaveFails, SpentTypeOK
<1>3. log_cut' \in BOOLEAN
  BY Zenon DEF SaveFails, diskVars, logVars, EmptyJournal, SpentTypeOK
<1>4. /\ spent_json' \subseteq Passes /\ log_lines' \subseteq Passes
      /\ log_tail' \subseteq Passes
  BY DEF SaveFails, diskVars, logVars, EmptyJournal, SpentTypeOK
<1> QED BY <1>1, <1>2, <1>3, <1>4

\* record() that succeeds keeps the invariant: a line goes only after a whole
\* line, and a torn journal is replaced by the snapshot.
LEMMA RecordOkInv ==
    ASSUME SpentInv, NEW p \in Passes, RecordOk(p)
    PROVE  SpentInv'
<1>0. /\ tags' = tags \cup {p} /\ expired' = expired
      /\ acked' = acked \cup {p} /\ doubt' = doubt \ {p} /\ short' = short \ {p}
  BY DEF RecordOk
<1>1. CASE journal_torn
  <2>1. /\ spent_json' = tags \cup {p}
        /\ log_lines' = {} /\ log_tail' = {} /\ log_cut' = FALSE
        /\ journal' = 0 /\ journal_torn' = FALSE /\ faults' = faults
    BY <1>1, SaveOkEffect DEF RecordOk
  <2>2. SpentTypeOK'
    BY <1>0, <2>1 DEF SpentInv, SpentTypeOK
  <2>3. AckedIsSpent'
    BY <1>0, <2>1 DEF SpentInv, AckedIsSpent, OnDisk
  <2>4. NothingElseSpent'
    BY <1>0, <2>1 DEF SpentInv, NothingElseSpent, OnDisk
  <2>5. TearIsKnown' /\ TailInv'
    BY <1>0, <2>1 DEF SpentInv, TearIsKnown, TailInv
  <2> QED BY <2>2, <2>3, <2>4, <2>5 DEF SpentInv
<1>2. CASE ~journal_torn
  <2>0. log_cut = FALSE /\ log_tail = {}
    BY <1>2 DEF SpentInv, SpentTypeOK, TearIsKnown, TailInv
  <2>1. /\ log_lines' = log_lines \cup {p} /\ log_cut' = FALSE /\ log_tail' = {}
        /\ journal' = journal + 1 /\ journal_torn' = journal_torn
        /\ spent_json' = spent_json /\ faults' = faults
    BY <1>2, <2>0 DEF RecordOk, AppendLine
  <2>2. SpentTypeOK'
    <3>1. journal_torn' \in BOOLEAN /\ log_cut' \in BOOLEAN
      BY <2>1, Zenon DEF SpentInv, SpentTypeOK
    <3>2. journal' \in Nat /\ faults' \in Nat
      BY <2>1 DEF SpentInv, SpentTypeOK
    <3> QED BY <1>0, <2>1, <3>1, <3>2 DEF SpentInv, SpentTypeOK
  <2>3. AckedIsSpent'
    BY <1>0, <2>0, <2>1 DEF SpentInv, AckedIsSpent, OnDisk
  <2>4. NothingElseSpent'
    BY <1>0, <2>1 DEF SpentInv, NothingElseSpent, OnDisk
  <2>5. TearIsKnown' /\ TailInv'
    BY <1>0, <1>2, <2>1 DEF SpentInv, TearIsKnown, TailInv
  <2> QED BY <2>2, <2>3, <2>4, <2>5 DEF SpentInv
<1> QED BY <1>1, <1>2

\* record() that fails adds nothing but the pass itself, and knows of the tear.
LEMMA RecordFailsInv ==
    ASSUME SpentInv, NEW p \in Passes, p \notin tags, RecordFails(p)
    PROVE  SpentInv'
<1>0. doubt' = doubt \cup {p} /\ acked' = acked /\ expired' = expired
  BY DEF RecordFails
<1>1. CASE journal_torn
  <2>1. tags' = tags \cup {p} /\ SaveFails(tags \cup {p}) /\ short' = short
    BY <1>1 DEF RecordFails
  <2>2. SpentTypeOK'
    <3>0. tags \cup {p} \subseteq Passes
      BY DEF SpentInv, SpentTypeOK
    <3> QED BY <1>0, <2>1, <3>0, SaveFailsType DEF SpentInv, SpentTypeOK
  <2>3. AckedIsSpent'
    BY <1>0, <2>1, SaveFailsEffect DEF SpentInv, AckedIsSpent
  <2>4. NothingElseSpent'
    BY <1>0, <2>1, SaveFailsEffect DEF SpentInv, NothingElseSpent
  <2>5. TearIsKnown'
    BY <2>1, SaveFailsEffect DEF SpentInv, TearIsKnown
  <2>6. TailInv'
    BY <1>0, <2>1, SaveFailsEffect DEF SpentInv, TailInv
  <2> QED BY <2>2, <2>3, <2>4, <2>5, <2>6 DEF SpentInv
<1>2. CASE ~journal_torn
  <2>0. log_cut = FALSE /\ log_tail = {}
    BY <1>2 DEF SpentInv, SpentTypeOK, TearIsKnown, TailInv
  <2>1. /\ tags' = tags /\ journal' = journal /\ spent_json' = spent_json
        /\ faults' = faults + 1
    BY <1>2 DEF RecordFails, Fault
  <2>2. /\ journal_torn' \in BOOLEAN
        /\ \/ /\ log_lines' \in {log_lines, log_lines \cup {p}}
              /\ log_cut' = FALSE /\ log_tail' = {} /\ short' = short
           \/ /\ log_lines' = log_lines /\ log_cut' = TRUE /\ journal_torn' = TRUE
              /\ log_tail' \in {{}, {p}}
              /\ short' \in {short, short \cup {p}}
    BY <1>2, <2>0 DEF RecordFails, logVars, AppendLine, TearLine, SpentInv, SpentTypeOK
  <2>3. SpentTypeOK'
    <3>1. journal_torn' \in BOOLEAN /\ log_cut' \in BOOLEAN
      BY <2>2, Zenon
    <3>2. journal' \in Nat /\ faults' \in Nat
      BY <2>1 DEF SpentInv, SpentTypeOK
    <3>3. log_lines' \subseteq Passes /\ log_tail' \subseteq Passes /\ short' \subseteq Passes
      BY <2>2 DEF SpentInv, SpentTypeOK
    <3> QED BY <1>0, <2>1, <3>1, <3>2, <3>3 DEF SpentInv, SpentTypeOK
  <2>4. AckedIsSpent'
    BY <1>0, <2>0, <2>1, <2>2 DEF SpentInv, AckedIsSpent, OnDisk
  <2>5. NothingElseSpent'
    BY <1>0, <2>1, <2>2 DEF SpentInv, NothingElseSpent, OnDisk
  <2>6. TearIsKnown'
    BY <2>2 DEF TearIsKnown
  <2>7. p \in acked => p \in expired
    BY DEF SpentInv, AckedIsSpent
  <2>8. TailInv'
    BY <1>0, <2>2, <2>7 DEF SpentInv, TailInv
  <2> QED BY <2>3, <2>4, <2>5, <2>6, <2>8 DEF SpentInv
<1> QED BY <1>1, <1>2

\* forget() that succeeds takes the pass out of memory and of both files.
LEMMA ForgetOkInv ==
    ASSUME SpentInv, NEW p \in Passes, ForgetOk(p)
    PROVE  SpentInv'
<1>1. CASE p \notin tags
  BY <1>1 DEF ForgetOk, memVars, diskVars, SpentInv, SpentTypeOK, AckedIsSpent,
     TearIsKnown, NothingElseSpent, TailInv, OnDisk
<1>2. CASE p \in tags
  <2>1. /\ tags' = tags \ {p} /\ acked' = acked \ {p} /\ doubt' = doubt \ {p}
        /\ short' = short /\ expired' = expired
    BY <1>2 DEF ForgetOk
  <2>2. /\ spent_json' = tags \ {p}
        /\ log_lines' = {} /\ log_tail' = {} /\ log_cut' = FALSE
        /\ journal' = 0 /\ journal_torn' = FALSE /\ faults' = faults
    BY <1>2, SaveOkEffect DEF ForgetOk
  <2>3. SpentTypeOK'
    BY <2>1, <2>2 DEF SpentInv, SpentTypeOK
  <2>4. AckedIsSpent'
    BY <2>1, <2>2 DEF SpentInv, AckedIsSpent, OnDisk
  <2>5. NothingElseSpent'
    BY <2>1, <2>2 DEF SpentInv, NothingElseSpent, OnDisk
  <2>6. TearIsKnown' /\ TailInv'
    BY <2>1, <2>2 DEF SpentInv, TearIsKnown, TailInv
  <2> QED BY <2>3, <2>4, <2>5, <2>6 DEF SpentInv
<1> QED BY <1>1, <1>2

\* forget() that fails leaves the pass in doubt, and spent in memory.
LEMMA ForgetFailsInv ==
    ASSUME SpentInv, NEW p \in Passes, ForgetFails(p)
    PROVE  SpentInv'
<1>1. /\ tags' = tags /\ acked' = acked \ {p} /\ doubt' = doubt \cup {p}
      /\ short' = short /\ expired' = expired /\ SaveFails(tags \ {p})
  BY DEF ForgetFails
<1>2. SpentTypeOK'
  <2>1. tags \ {p} \subseteq Passes
    BY DEF SpentInv, SpentTypeOK
  <2> QED BY <1>1, <2>1, SaveFailsType DEF SpentInv, SpentTypeOK
<1>0. OnDisk \cap (tags \ {p}) \subseteq OnDisk' /\ OnDisk' \subseteq OnDisk \cup tags
  BY <1>1, SaveFailsEffect
<1>3. AckedIsSpent'
  BY <1>1, <1>0 DEF SpentInv, AckedIsSpent
<1>4. NothingElseSpent'
  BY <1>1, <1>0 DEF SpentInv, NothingElseSpent
<1>5. TearIsKnown'
  BY <1>1, SaveFailsEffect DEF SpentInv, TearIsKnown
<1>6. TailInv'
  BY <1>1, SaveFailsEffect DEF SpentInv, TailInv
<1> QED BY <1>2, <1>3, <1>4, <1>5, <1>6 DEF SpentInv

\* The reaper drops only expired passes and passes never admitted, whether its
\* save() succeeds or not.
LEMMA ReapInv ==
    ASSUME SpentInv, ReapSpent
    PROVE  SpentInv'
<1>0. PICK cut \in SUBSET (short \cap tags) :
        /\ tags' = tags \ (expired \cup cut)
        /\ IF tags \ (expired \cup cut) # tags \/ needs_compacting
           THEN \/ SaveOk(tags \ (expired \cup cut))
                \/ SaveFails(tags \ (expired \cup cut))
           ELSE UNCHANGED <<journal, journal_torn, diskVars, faults>>
        /\ UNCHANGED <<short, expired, acked, doubt>>
  BY Zenon DEF ReapSpent
<1>1. /\ tags' = tags \ (expired \cup cut)
      /\ \/ SaveOk(tags \ (expired \cup cut))
         \/ SaveFails(tags \ (expired \cup cut))
         \/ UNCHANGED <<tags, journal, journal_torn, diskVars, faults>>
  BY <1>0
<1>2. UNCHANGED <<short, expired, acked, doubt>>
  BY <1>0
<1> DEFINE kept == tags \ (expired \cup cut)
<1>3. kept \subseteq Passes /\ acked \ expired \subseteq kept
  BY DEF SpentInv, SpentTypeOK, AckedIsSpent, TailInv
<1>4. CASE SaveOk(kept)
  <2>1. /\ spent_json' = kept
        /\ log_lines' = {} /\ log_tail' = {} /\ log_cut' = FALSE
        /\ journal' = 0 /\ journal_torn' = FALSE /\ faults' = faults
    BY <1>4, SaveOkEffect
  <2>2. SpentTypeOK'
    BY <1>1, <1>2, <1>3, <2>1 DEF SpentInv, SpentTypeOK
  <2>3. AckedIsSpent'
    BY <1>1, <1>2, <1>3, <2>1 DEF AckedIsSpent, OnDisk
  <2>4. NothingElseSpent'
    BY <1>1, <1>2, <2>1 DEF SpentInv, NothingElseSpent, OnDisk
  <2>5. TearIsKnown' /\ TailInv'
    BY <1>2, <2>1 DEF SpentInv, TearIsKnown, TailInv
  <2> QED BY <2>2, <2>3, <2>4, <2>5 DEF SpentInv
<1>5. CASE SaveFails(kept)
  <2>1. SpentTypeOK'
    BY <1>1, <1>2, <1>3, <1>5, SaveFailsType DEF SpentInv, SpentTypeOK
  <2>2. AckedIsSpent'
    BY <1>1, <1>2, <1>3, <1>5, SaveFailsEffect DEF SpentInv, AckedIsSpent
  <2>3. NothingElseSpent'
    BY <1>1, <1>2, <1>5, SaveFailsEffect DEF SpentInv, NothingElseSpent
  <2>4. TearIsKnown'
    BY <1>5, SaveFailsEffect DEF SpentInv, TearIsKnown
  <2>5. TailInv'
    BY <1>2, <1>5, SaveFailsEffect DEF SpentInv, TailInv
  <2> QED BY <2>1, <2>2, <2>3, <2>4, <2>5 DEF SpentInv
<1>6. CASE UNCHANGED <<tags, journal, journal_torn, diskVars, faults>>
  BY <1>2, <1>6 DEF diskVars, SpentInv, SpentTypeOK, AckedIsSpent, TearIsKnown,
     NothingElseSpent, TailInv, OnDisk
<1> QED BY <1>1, <1>4, <1>5, <1>6

\* load_from() finds every pass that matters, and the tear if there is one.
LEMMA LoadInv ==
    ASSUME SpentInv, LoadSpent
    PROVE  SpentInv'
<1>1. /\ tags' = OnDisk /\ journal_torn' = log_cut
      /\ journal' = Cardinality(log_lines) + Cardinality(log_tail)
      /\ UNCHANGED <<diskVars, short, expired, faults, acked, doubt>>
  BY DEF LoadSpent
<1>2. journal' \in Nat
  <2>1. IsFiniteSet(log_lines) /\ IsFiniteSet(log_tail)
    BY SpentAssumption, FS_Subset DEF SpentInv, SpentTypeOK
  <2>2. Cardinality(log_lines) \in Nat /\ Cardinality(log_tail) \in Nat
    BY <2>1, FS_CardinalityType
  <2> QED BY <1>1, <2>2
<1>3. journal_torn' \in BOOLEAN /\ log_cut' \in BOOLEAN
  BY <1>1, Zenon DEF diskVars, SpentInv, SpentTypeOK
<1>4. SpentTypeOK'
  BY <1>1, <1>2, <1>3 DEF diskVars, SpentInv, SpentTypeOK, OnDisk
<1>5. AckedIsSpent'
  BY <1>1 DEF diskVars, SpentInv, AckedIsSpent, OnDisk
<1>6. NothingElseSpent'
  BY <1>1 DEF diskVars, SpentInv, NothingElseSpent, OnDisk
<1>7. TearIsKnown'
  BY <1>1 DEF diskVars, TearIsKnown
<1>8. TailInv'
  BY <1>1 DEF diskVars, SpentInv, TearIsKnown, TailInv
<1> QED BY <1>4, <1>5, <1>6, <1>7, <1>8 DEF SpentInv

LEMMA ExpireInv ==
    ASSUME SpentInv, NEW p \in Passes, Expire(p)
    PROVE  SpentInv'
<1>1. /\ expired' = expired \cup {p}
      /\ UNCHANGED <<memVars, diskVars, short, faults, acked, doubt>>
  BY DEF Expire
<1>2. SpentTypeOK'
  BY <1>1 DEF memVars, diskVars, SpentInv, SpentTypeOK
<1>3. AckedIsSpent' /\ NothingElseSpent'
  BY <1>1 DEF memVars, diskVars, SpentInv, AckedIsSpent, NothingElseSpent, OnDisk
<1>4. TearIsKnown' /\ TailInv'
  BY <1>1 DEF memVars, diskVars, SpentInv, TearIsKnown, TailInv
<1> QED BY <1>2, <1>3, <1>4 DEF SpentInv

LEMMA StutterInv ==
    ASSUME SpentInv, UNCHANGED spentVars
    PROVE  SpentInv'
BY DEF spentVars, SpentInv, SpentTypeOK, AckedIsSpent, TearIsKnown,
   NothingElseSpent, TailInv, OnDisk

LEMMA NextInv == SpentInv /\ [SpentNext]_spentVars => SpentInv'
<1> SUFFICES ASSUME SpentInv, [SpentNext]_spentVars PROVE SpentInv'
  OBVIOUS
<1>1. CASE \E p \in Passes : p \notin tags /\ RecordOk(p)
  BY <1>1, RecordOkInv
<1>2. CASE \E p \in Passes : p \notin tags /\ RecordFails(p)
  BY <1>2, RecordFailsInv
<1>3. CASE \E p \in Passes : p \in acked /\ ForgetOk(p)
  BY <1>3, ForgetOkInv
<1>4. CASE \E p \in Passes : p \in acked /\ ForgetFails(p)
  BY <1>4, ForgetFailsInv
<1>5. CASE \E p \in Passes : Expire(p)
  BY <1>5, ExpireInv
<1>6. CASE ReapSpent
  BY <1>6, ReapInv
<1>7. CASE LoadSpent
  BY <1>7, LoadInv
<1>8. CASE UNCHANGED spentVars
  BY <1>8, StutterInv
<1> QED BY <1>1, <1>2, <1>3, <1>4, <1>5, <1>6, <1>7, <1>8 DEF SpentNext

\* The inductive invariant holds throughout.
THEOREM InvHolds == SpentSpec => []SpentInv
<1>1. SpentInit => SpentInv
  BY InitInv
<1>2. SpentInv /\ [SpentNext]_spentVars => SpentInv'
  BY NextInv
<1> QED BY <1>1, <1>2, PTL DEF SpentSpec

\* No crash, no failed write and no sequence of operations makes the list
\* lose a valid pass it said it took (leases.rs, record, forget, save, prune
\* and load_from together).
THEOREM TakenPassesStaySpent == SpentSpec => []AckedIsSpent
<1>1. SpentInv => AckedIsSpent
  BY DEF SpentInv
<1> QED BY <1>1, InvHolds, PTL

\* Nothing is appended to the journal after a line that was cut short.
THEOREM TearsAreKnown == SpentSpec => []TearIsKnown
<1>1. SpentInv => TearIsKnown
  BY DEF SpentInv
<1> QED BY <1>1, InvHolds, PTL

\* The list invents nothing: what it holds was taken, or its last operation
\* was reported as failed.
THEOREM NothingInvented == SpentSpec => []NothingElseSpent
<1>1. SpentInv => NothingElseSpent
  BY DEF SpentInv
<1> QED BY <1>1, InvHolds, PTL

-----------------------------------------------------------------------------
(* The refinement of SpentList.                                            *)

LEMMA InitRefines == SpentInit => List!ListInit
BY DEF SpentInit, List!ListInit

\* A step of the files and the memory, taken from a state of the invariant to
\* another one, is a step of the abstract list or changes nothing it shows.
LEMMA StepRefines ==
    ASSUME SpentInv, SpentInv', [SpentNext]_spentVars
    PROVE  [List!ListNext]_(List!listVars)
<1>1. ASSUME NEW p \in Passes, p \notin tags, RecordOk(p)
      PROVE  List!TakeOk(p)
  BY <1>1 DEF RecordOk, List!TakeOk
<1>2. ASSUME NEW p \in Passes, p \notin tags, RecordFails(p)
      PROVE  List!TakeFails(p)
  BY <1>2 DEF RecordFails, List!TakeFails, SpentInv, TailInv
<1>3. ASSUME NEW p \in Passes, p \in acked, ForgetOk(p)
      PROVE  List!GiveBackOk(p) \/ UNCHANGED List!listVars
  BY <1>3 DEF ForgetOk, memVars, List!GiveBackOk, List!listVars
<1>4. ASSUME NEW p \in Passes, p \in acked, ForgetFails(p)
      PROVE  List!GiveBackFails(p)
  BY <1>4 DEF ForgetFails, List!GiveBackFails
<1>5. ASSUME NEW p \in Passes, Expire(p)
      PROVE  List!Lapse(p)
  BY <1>5 DEF Expire, memVars, List!Lapse
<1>6. ASSUME ReapSpent
      PROVE  List!Prune
  <2>1. PICK cut \in SUBSET (short \cap tags) : tags' = tags \ (expired \cup cut)
    BY <1>6, Zenon DEF ReapSpent
  <2>2. UNCHANGED <<acked, doubt, expired>>
    BY <1>6, Zenon DEF ReapSpent
  <2>3. cut \subseteq expired \cup (doubt \ acked)
    BY DEF SpentInv, NothingElseSpent, TailInv
  <2> QED BY <2>1, <2>2, <2>3 DEF List!Prune
<1>7. ASSUME LoadSpent
      PROVE  List!Reload
  <2>1. tags' = OnDisk /\ UNCHANGED <<acked, doubt, expired>>
    BY <1>7 DEF LoadSpent
  <2> QED BY <2>1 DEF SpentInv, AckedIsSpent, NothingElseSpent, List!Reload
<1>8. ASSUME UNCHANGED spentVars
      PROVE  UNCHANGED List!listVars
  BY <1>8 DEF spentVars, List!listVars
<1> QED
  BY <1>1, <1>2, <1>3, <1>4, <1>5, <1>6, <1>7, <1>8 DEF SpentNext, List!ListNext

\* The snapshot and the journal implement the abstract list, whatever fails:
\* what AdmissionNode assumes of its list is what leases.rs gives it.
THEOREM SpentPassesImplementsSpentList == SpentSpec => ImplementsSpentList
<1>1. SpentInit => List!ListInit
  BY InitRefines
<1>2. SpentInv /\ SpentInv' /\ [SpentNext]_spentVars => [List!ListNext]_(List!listVars)
  BY StepRefines
<1> QED BY <1>1, <1>2, InvHolds, PTL DEF SpentSpec, ImplementsSpentList, List!ListSpec

-----------------------------------------------------------------------------
(* The rate.                                                                 *)

LEMMA SalesNats ==
  /\ NFeeds \in Nat /\ max_change \in Nat /\ max_age \in Nat /\ RATE_AGREE \in Nat /\ RATE_AGREE > 1
  /\ QUOTE_BURST \in Nat /\ QUOTE_RATE \in Nat /\ UNCLAIMED_LIFETIME \in Nat /\ ORDER_LIFETIME \in Nat
  /\ MAX_OPEN_ORDERS \in Nat /\ MAX_HELD_ORDERS \in Nat /\ MaxRestarts \in Nat
BY SalesConstants

LEMMA NoRateIsNone ==
  /\ \A x, t \in Nat : [rate |-> x, at |-> t] # NoRate
  /\ \A x, n \in Nat : [rate |-> x, n |-> n] # NoRate
<1>1. NoRate \notin [rate : Nat, at : Nat] /\ NoRate \notin [rate : Nat, n : Nat]
  BY SalesConstants
<1>2. ASSUME NEW x \in Nat, NEW t \in Nat
      PROVE  [rate |-> x, at |-> t] # NoRate /\ [rate |-> x, n |-> t] # NoRate
  <2>1. [rate |-> x, at |-> t] \in [rate : Nat, at : Nat] /\ [rate |-> x, n |-> t] \in [rate : Nat, n : Nat]
    OBVIOUS
  <2> QED BY <1>1, <2>1
<1> QED BY <1>2

\* Of finitely many indices, one whose value is greatest and first.
LEMMA GreatestFirst ==
  ASSUME NEW S, IsFiniteSet(S), S # {}, S \subseteq Nat, NEW f, \A i \in S : f[i] \in Nat
  PROVE  \E i \in S : \A j \in S : f[i] > f[j] \/ (f[i] = f[j] /\ i <= j)
<1> DEFINE Before(i, j) == f[i] > f[j] \/ (f[i] = f[j] /\ i <= j)
           Bad == {T \in SUBSET S : T # {} /\ ~(\E i \in T : \A j \in T : Before(i, j))}
<1>1. \A T \in SUBSET S : IsFiniteSet(T) /\ Cardinality(T) \in Nat
  BY FS_Subset, FS_CardinalityType
<1>2. SUFFICES ASSUME Bad # {} PROVE FALSE
  OBVIOUS
<1>3. PICK T \in Bad : \A U \in Bad : Cardinality(T) <= Cardinality(U)
  BY <1>1, <1>2, SmallestSet
<1>4. PICK x \in T : TRUE
  OBVIOUS
<1> DEFINE U == T \ {x}
<1>5. Cardinality(U) = Cardinality(T) - 1 /\ Cardinality(T) \in Nat /\ U \in SUBSET S /\ T \in SUBSET S
  BY <1>1, <1>4, FS_RemoveElement
<1>6. U \notin Bad
  <2> HIDE DEF U, Bad
  <2> QED BY <1>3, <1>5
<1>7. \A i, j, k \in S : Before(i, j) /\ Before(j, k) => Before(i, k)
  OBVIOUS
<1>8. \A i, j \in S : Before(i, i) /\ (Before(i, j) \/ Before(j, i))
  OBVIOUS
<1> HIDE DEF Before
<1>9. \E i \in T : \A j \in T : Before(i, j)
  <2>1. CASE U = {}
    <3>1. T = {x}
      BY <1>4, <2>1
    <3> QED BY <1>5, <1>8, <3>1
  <2>2. CASE U # {}
    <3>1. PICK i \in U : \A j \in U : Before(i, j)
      BY <1>5, <1>6, <2>2
    <3>2. x \in S /\ i \in S /\ i \in T /\ \A j \in T : j \in S /\ (j \in U \/ j = x)
      BY <1>4, <1>5
    <3>3. CASE Before(i, x)
      BY <3>1, <3>2, <3>3
    <3>4. CASE Before(x, i)
      <4>1. \A j \in T : Before(x, j)
        BY <1>7, <1>8, <3>1, <3>2, <3>4
      <4> QED BY <1>4, <4>1
    <3> QED BY <1>8, <3>2, <3>3, <3>4
  <2> QED BY <2>1, <2>2
<1> QED BY <1>9

\* What a feed gives is a price.
LEMMA RateIsPrice ==
  ASSUME NEW a \in FeedAnswers, answers_rate(a)
  PROVE  read_rate(a) \in Nat
<1> DEFINE S == usable_pairs(a)
           liq == [i \in S |-> a[i].liquidity]
<1>1. /\ Len(a) \in Nat /\ DOMAIN a = 1..Len(a)
      /\ \A i \in DOMAIN a : a[i].price \in Nat /\ a[i].liquidity \in Nat
  BY SalesConstants
<1>2. S \subseteq 1..Len(a) /\ S \subseteq Nat /\ S # {}
  BY <1>1 DEF usable_pairs, answers_rate
<1>3. IsFiniteSet(S)
  <2> DEFINE I == 1..Len(a)
  <2>1. IsFiniteSet(I)
    <3>1. \A n \in Nat : IsFiniteSet(1..n)
      BY FS_Interval
    <3>2. Len(a) \in Nat
      BY <1>1
    <3> QED BY <3>1, <3>2
  <2> HIDE DEF I, S
  <2>2. S \subseteq I
    BY <1>2 DEF I
  <2> QED BY <2>1, <2>2, FS_Subset
<1>4. \A i \in S : liq[i] \in Nat /\ liq[i] = a[i].liquidity /\ a[i].price \in Nat
  BY <1>1, <1>2
<1> HIDE DEF S, liq
<1>5. \E i \in S : \A j \in S : liq[i] > liq[j] \/ (liq[i] = liq[j] /\ i <= j)
  BY <1>2, <1>3, <1>4, GreatestFirst
<1>6. \E i \in S : \A j \in S : \/ a[i].liquidity > a[j].liquidity
                                \/ a[i].liquidity = a[j].liquidity /\ i <= j
  BY <1>4, <1>5
<1>7. (CHOOSE i \in S : \A j \in S : \/ a[i].liquidity > a[j].liquidity
                                     \/ a[i].liquidity = a[j].liquidity /\ i <= j) \in S
  BY <1>6
<1> QED BY <1>4, <1>7 DEF read_rate, S

\* A rate has not moved from itself.
LEMMA StaysItself ==
  ASSUME NEW x \in Nat
  PROVE  ~moved(x, x)
<1>1. max_change * x >= 0
  BY SalesNats
<1> QED BY <1>1, SalesNats DEF moved

\* What the rate in force and the one held back have to do with what was said.
RateTyped ==
  /\ ticks \in Nat /\ said \in Seq(Nat)
  /\ rate_cur = NoRate \/ rate_cur \in [rate : Nat, at : Nat]
  /\ rate_held = NoRate \/ rate_held \in [rate : Nat, n : Nat]
HeldMoved ==
  LET n == Len(said)  k == rate_held.n IN
  /\ rate_cur = NoRate => said = << >> /\ rate_held = NoRate
  /\ rate_cur # NoRate =>
       /\ n >= 1
       /\ rate_held = NoRate => rate_cur.rate = said[n]
       /\ rate_held # NoRate => /\ rate_held.rate = said[n] /\ k >= 1 /\ k < RATE_AGREE /\ k < n
                                /\ moved(said[n - k + 1], said[n - k])
RateInv == RateTyped /\ HeldMoved /\ RateFollows

LEMMA RateInit == SalesInit => RateInv
<1> SUFFICES ASSUME SalesInit PROVE RateInv
  OBVIOUS
<1>1. said = << >> /\ Len(said) = 0 /\ ~(Len(said) >= RATE_AGREE)
  BY SalesNats DEF SalesInit
<1> QED BY <1>1 DEF SalesInit, RateInv, RateTyped, HeldMoved, RateFollows

\* A rate that a feed gave.
LEMMA OfferKeeps ==
  ASSUME RateInv, NEW new \in Nat, offer(new), said' = Append(said, new), ticks' = ticks
  PROVE  RateInv'
<1> DEFINE n == Len(said)
<1>0. RATE_AGREE \in Nat /\ RATE_AGREE > 1
  BY SalesNats
<1>1. /\ n \in Nat /\ said' \in Seq(Nat) /\ Len(said') = n + 1 /\ said'[n + 1] = new
      /\ \A i \in 1..n : said'[i] = said[i] /\ said[i] \in Nat
  <2>1. said \in Seq(Nat)
    BY DEF RateInv, RateTyped
  <2> QED BY <2>1
<1>2. RateTyped /\ HeldMoved /\ RateFollows
  BY DEF RateInv
\* No agreement up to now leaves a rate held back.
<1>3. ASSUME rate_cur # NoRate, \A i \in 2..n : ~moved(said[i], said[i - 1])
      PROVE  rate_held = NoRate /\ rate_cur.rate = said[n]
  <2>1. ASSUME rate_held # NoRate PROVE FALSE
    <3> DEFINE k == rate_held.n
    <3>1. k \in Nat /\ k >= 1 /\ k < n /\ moved(said[n - k + 1], said[n - k])
      BY <1>2, <1>3, <2>1 DEF RateTyped, HeldMoved
    <3> HIDE DEF k
    <3>2. n - k + 1 \in 2..n /\ (n - k + 1) - 1 = n - k
      <4>1. n \in Nat
        BY <1>1
      <4> HIDE DEF n
      <4> QED BY <3>1, <4>1
    <3> QED BY <1>3, <3>1, <3>2
  <2> QED BY <1>2, <1>3, <2>1 DEF HeldMoved
<1>4. agreed(new) = 1 \/ (rate_held # NoRate /\ ~moved(new, rate_held.rate) /\ agreed(new) = rate_held.n + 1)
  BY DEF agreed
<1>5. CASE rate_cur = NoRate
  <2>1. said = << >> /\ rate_held = NoRate /\ n = 0
    BY <1>2, <1>5 DEF HeldMoved
  <2>2. rate_cur' = [rate |-> new, at |-> ticks] /\ rate_held' = NoRate
    BY <1>5, <2>1 DEF offer
  <2>3. RateTyped'
    BY <1>1, <1>2, <2>2 DEF RateTyped
  <2>4. rate_cur' # NoRate
    BY <2>2, <1>2, NoRateIsNone DEF RateTyped
  <2>5. HeldMoved'
    BY <1>1, <2>1, <2>2, <2>4 DEF HeldMoved
  <2>6. RateFollows'
    BY <1>0, <1>1, <2>1 DEF RateFollows
  <2> QED BY <2>3, <2>5, <2>6 DEF RateInv
<1>6. CASE rate_cur # NoRate /\ (~moved(new, rate_cur.rate) \/ agreed(new) >= RATE_AGREE)
  <2>1. rate_cur' = [rate |-> new, at |-> ticks] /\ rate_held' = NoRate
    BY <1>6 DEF offer
  <2>2. RateTyped'
    BY <1>1, <1>2, <2>1 DEF RateTyped
  <2>3. rate_cur' # NoRate /\ rate_cur'.rate = new
    BY <2>1, <1>2, NoRateIsNone DEF RateTyped
  <2>4. HeldMoved'
    BY <1>1, <2>1, <2>3 DEF HeldMoved
  <2>5. RateFollows'
    <3>1. ASSUME \A i \in 2..n : ~moved(said'[i], said'[i - 1]), moved(said'[n + 1], said'[n]), n >= 1 PROVE FALSE
      <4>1. \A i \in 2..n : i \in 1..n /\ i - 1 \in 1..n
        <5>1. n \in Nat
          BY <1>1
        <5> HIDE DEF n
        <5> QED BY <5>1
      <4>2. \A i \in 2..n : ~moved(said[i], said[i - 1])
        BY <1>1, <3>1, <4>1
      <4>3. rate_held = NoRate /\ rate_cur.rate = said[n]
        BY <1>3, <1>6, <4>2
      <4>4. moved(new, rate_cur.rate)
        BY <1>1, <3>1, <4>3
      <4>5. agreed(new) = 1
        BY <1>4, <4>3
      <4> QED BY <1>0, <1>6, <4>4, <4>5
    <3>2. n >= 1
      BY <1>2, <1>6 DEF HeldMoved
    <3>3. (n + 1) - 1 = n
      BY <1>1
    <3> QED BY <1>1, <2>3, <3>1, <3>2, <3>3 DEF RateFollows
  <2> QED BY <2>2, <2>4, <2>5 DEF RateInv
<1>7. CASE rate_cur # NoRate /\ moved(new, rate_cur.rate) /\ ~(agreed(new) >= RATE_AGREE)
  <2> DEFINE k == agreed(new)
  <2>1. rate_cur' = rate_cur /\ rate_held' = [rate |-> new, n |-> k]
    BY <1>7 DEF offer
  <2>2. k \in Nat /\ k >= 1 /\ k < RATE_AGREE
    <3>1. rate_held # NoRate => rate_held.n \in Nat
      BY <1>2 DEF RateTyped
    <3>2. ~(k >= RATE_AGREE) /\ (k = 1 \/ (rate_held # NoRate /\ k = rate_held.n + 1))
      BY <1>4, <1>7
    <3> HIDE DEF k
    <3> QED BY <1>0, <3>1, <3>2
  <2>3. RateTyped'
    BY <1>1, <1>2, <2>1, <2>2 DEF RateTyped
  <2>4. rate_held' # NoRate /\ rate_held'.rate = new /\ rate_held'.n = k
    BY <2>1, <2>2, NoRateIsNone
  <2>5. n >= 1
    BY <1>2, <1>7 DEF HeldMoved
  <2> HIDE DEF k
  <2>6. k < n + 1 /\ moved(said'[n - k + 2], said'[n - k + 1])
    <3>1. CASE k = 1 /\ (rate_held = NoRate \/ moved(new, rate_held.rate))
      <4>1. moved(new, said[n])
        BY <1>2, <1>7, <3>1 DEF HeldMoved
      <4> QED BY <1>1, <2>5, <3>1, <4>1
    <3>2. CASE rate_held # NoRate /\ ~moved(new, rate_held.rate)
      <4> DEFINE h == rate_held.n
      <4>1. k = h + 1
        BY <3>2 DEF agreed, k
      <4>2. h \in Nat /\ h >= 1 /\ h < n /\ moved(said[n - h + 1], said[n - h])
        BY <1>2, <1>7, <3>2 DEF RateTyped, HeldMoved
      <4> HIDE DEF h
      <4>3. n - k + 2 = n - h + 1 /\ n - k + 1 = n - h /\ n - h + 1 \in 1..n /\ n - h \in 1..n
        <5>1. n \in Nat
          BY <1>1
        <5> HIDE DEF n
        <5> QED BY <4>1, <4>2, <5>1
      <4> QED BY <1>1, <4>1, <4>2, <4>3
    <3>3. k = 1 \/ (rate_held # NoRate /\ ~moved(new, rate_held.rate))
      BY <1>4 DEF k
    <3> QED BY <3>1, <3>2, <3>3
  <2>7. HeldMoved'
    <3>1. (n + 1) - k + 1 = n - k + 2 /\ (n + 1) - k = n - k + 1 /\ n + 1 >= 1
      BY <1>1, <2>2
    <3>2. rate_cur' # NoRate
      BY <1>7, <2>1
    <3>3. moved(said'[Len(said') - rate_held'.n + 1], said'[Len(said') - rate_held'.n])
      BY <1>1, <2>4, <2>6, <3>1
    <3> HIDE DEF n
    <3> QED BY <1>1, <2>2, <2>4, <2>6, <3>1, <3>2, <3>3 DEF HeldMoved
  <2>8. RateFollows'
    <3>1. ASSUME \A i \in ((n + 1) - RATE_AGREE + 2)..(n + 1) : ~moved(said'[i], said'[i - 1]) PROVE FALSE
      <4>1. n - k + 2 \in ((n + 1) - RATE_AGREE + 2)..(n + 1) /\ (n - k + 2) - 1 = n - k + 1
        <5>1. n \in Nat
          BY <1>1
        <5> HIDE DEF n
        <5> QED BY <1>0, <2>2, <2>6, <5>1
      <4> QED BY <2>6, <3>1, <4>1
    <3>2. ASSUME \A i \in 2..n : ~moved(said'[i], said'[i - 1]), moved(said'[n + 1], said'[n])
          PROVE  rate_cur'.rate # said'[n + 1]
      <4>1. \A i \in 2..n : i \in 1..n /\ i - 1 \in 1..n
        <5>1. n \in Nat
          BY <1>1
        <5> HIDE DEF n
        <5> QED BY <5>1
      <4>2. \A i \in 2..n : ~moved(said[i], said[i - 1])
        BY <1>1, <3>2, <4>1
      <4>3. rate_cur.rate = said[n]
        BY <1>3, <1>7, <4>2
      <4>4. moved(new, said[n]) /\ said[n] \in Nat
        BY <1>1, <2>5, <3>2
      <4>5. new # said[n]
        BY <4>4, StaysItself
      <4> QED BY <1>1, <2>1, <4>3, <4>5
    <3>3. (n + 1) - 1 = n
      BY <1>1
    <3> QED BY <1>1, <3>1, <3>2, <3>3 DEF RateFollows
  <2> QED BY <2>3, <2>7, <2>8 DEF RateInv
<1> QED BY <1>5, <1>6, <1>7

LEMMA RateStep == RateInv /\ [SalesNext]_salesVars => RateInv'
<1> SUFFICES ASSUME RateInv, [SalesNext]_salesVars PROVE RateInv'
  OBVIOUS
<1>1. CASE UNCHANGED rateVars /\ (ticks' = ticks \/ Ticks)
  <2>1. ticks' \in Nat
    BY <1>1 DEF RateInv, RateTyped, Ticks
  <2> QED BY <1>1, <2>1 DEF RateInv, RateTyped, HeldMoved, RateFollows, rateVars
<1>2. CASE Restart
  <2>1. said' = << >> /\ rate_cur' = NoRate /\ rate_held' = NoRate /\ ticks' = ticks
    BY <1>2 DEF Restart
  <2>2. Len(said') = 0 /\ ~(Len(said') >= RATE_AGREE) /\ said' \in Seq(Nat)
    BY <2>1, SalesNats
  <2> QED BY <2>1, <2>2 DEF RateInv, RateTyped, HeldMoved, RateFollows
<1>3. ASSUME NEW answers \in [1..NFeeds -> FeedAnswers], Refresh(answers)
      PROVE  RateInv'
  <2> DEFINE good == {i \in DOMAIN answers : answers_rate(answers[i])}
             new == read_rate(answers[Min(good)])
  <2>1. CASE good = {}
    BY <1>1, <1>3, <2>1 DEF Refresh
  <2>2. CASE good # {}
    <3>1. good \subseteq Nat
      BY SalesNats
    <3>2. Min(good) \in good
      <4>1. \E m \in good : \A i \in good : m <= i
        BY <2>2, <3>1, LeastNumber
      <4> QED BY <4>1 DEF Min
    <3>3. new \in Nat
      BY <3>2, RateIsPrice
    <3>4. offer(new) /\ said' = Append(said, new) /\ ticks' = ticks
      BY <1>3, <2>2 DEF Refresh
    <3> QED BY <3>3, <3>4, OfferKeeps
  <2> QED BY <2>1, <2>2
<1>4. CASE QuoteNext
  BY <1>1, <1>4 DEF QuoteNext, QuoteAsked, TakeShare, OpenOrder, HoldOrder
<1>5. CASE UNCHANGED salesVars
  BY <1>1, <1>5 DEF salesVars, rateVars
<1>6. CASE Ticks
  BY <1>1, <1>6 DEF Ticks
<1> QED BY <1>2, <1>3, <1>4, <1>5, <1>6 DEF SalesNext, RateNext

\* The rate follows the market.
THEOREM RateFollowsHolds == SalesSpec => []RateFollows
<1>1. RateInv => RateFollows
  BY DEF RateInv
<1> QED BY <1>1, RateInit, RateStep, PTL DEF SalesSpec

-----------------------------------------------------------------------------
(* The quotes.                                                               *)

\* No quote waits longer than w for the bucket and the orders.
Prompt(w) == \A b \in Buyers : quoting[b].pc # "idle" => ticks <= quoting[b].now + w

\* With room for what the bucket lets through in that time as well.
RoomFor(w) ==
  QUOTE_BURST * (1 + MaxRestarts) + QUOTE_RATE * (UNCLAIMED_LIFETIME + w) + MAX_HELD_ORDERS < MAX_OPEN_ORDERS

Unclaimed(s) == {o \in open_orders : o.unclaimed /\ o.created >= s}
Claimed == {o \in open_orders : ~o.unclaimed}
Taken(s) == {b \in Buyers : quoting[b].pc = "open" /\ quoting[b].now >= s}

QuotesTyped ==
  /\ ticks \in Nat /\ restarts \in 0..MaxRestarts
  /\ bucket.left \in Nat /\ bucket.last \in Nat /\ bucket.last <= ticks /\ bucket.left <= QUOTE_BURST
  /\ bucket = [left |-> bucket.left, last |-> bucket.last]
  /\ IsFiniteSet(open_orders)
  /\ \A o \in open_orders : o.created \in Nat /\ o.created <= bucket.last /\ o.unclaimed \in BOOLEAN
                            /\ "unclaimed" \in DOMAIN o
  /\ DOMAIN quoting = Buyers
  /\ \A b \in Buyers : /\ quoting[b] = [pc |-> quoting[b].pc, now |-> quoting[b].now]
                       /\ quoting[b].now \in Nat
                       /\ quoting[b].pc # "idle" => quoting[b].now <= ticks
                       /\ quoting[b].pc = "open" => quoting[b].now <= bucket.last

\* What was let through since a time, with what is left, is what the bucket
\* held and was filled by.
Paced ==
  \A s \in Nat : s <= bucket.last =>
    Cardinality(Unclaimed(s)) + Cardinality(Taken(s)) + bucket.left
      <= QUOTE_BURST * (1 + restarts) + QUOTE_RATE * (bucket.last - s)

QuotesInv == QuotesTyped /\ Paced /\ Cardinality(Claimed) <= MAX_HELD_ORDERS /\ NeverFull

LEMMA QuoteSets ==
  ASSUME QuotesTyped
  PROVE  /\ \A s : IsFiniteSet(Unclaimed(s)) /\ IsFiniteSet(Taken(s))
         /\ \A s : Cardinality(Unclaimed(s)) \in Nat /\ Cardinality(Taken(s)) \in Nat
         /\ IsFiniteSet(Claimed) /\ Cardinality(Claimed) \in Nat
         /\ IsFiniteSet(Buyers) /\ IsFiniteSet(open_orders)
<1>1. IsFiniteSet(Buyers) /\ IsFiniteSet(open_orders)
  BY SalesConstants DEF QuotesTyped
<1>2. Claimed \subseteq open_orders /\ \A s : Unclaimed(s) \subseteq open_orders /\ Taken(s) \subseteq Buyers
  BY DEF Claimed, Unclaimed, Taken
<1> QED BY <1>1, <1>2, FS_Subset, FS_CardinalityType

\* More time fills the bucket by more.
LEMMA FillGrows ==
  ASSUME NEW x \in Int, NEW y \in Int, x <= y
  PROVE  QUOTE_RATE * x <= QUOTE_RATE * y /\ QUOTE_RATE * x \in Int /\ QUOTE_RATE * y \in Int
<1>1. QUOTE_RATE \in Nat
  BY SalesNats
<1>2. QUOTE_RATE * (y - x) >= 0
  BY <1>1
<1> QED BY <1>1, <1>2

LEMMA BurstGrows ==
  ASSUME NEW x \in Int, NEW y \in Int, x <= y
  PROVE  QUOTE_BURST * x <= QUOTE_BURST * y /\ QUOTE_BURST * x \in Int /\ QUOTE_BURST * y \in Int
<1>1. QUOTE_BURST \in Nat
  BY SalesNats
<1>2. QUOTE_BURST * (y - x) >= 0
  BY <1>1
<1> QED BY <1>1, <1>2

\* At a time no more than w ago there is room.
LEMMA ThereIsRoom ==
  ASSUME QuotesInv, NEW w \in Nat, RoomFor(w), NEW now \in Nat, ticks <= now + w
  PROVE  Cardinality(open_at(open_orders, now)) < MAX_OPEN_ORDERS
<1> DEFINE s == IF now + 1 >= UNCLAIMED_LIFETIME THEN now + 1 - UNCLAIMED_LIFETIME ELSE 0
           opened == open_at(open_orders, now)
           H == Cardinality(Claimed)
           U == Cardinality(Unclaimed(s))
<1>0. QuotesTyped /\ Paced /\ H <= MAX_HELD_ORDERS
  BY DEF QuotesInv
<1>1. UNCLAIMED_LIFETIME \in Nat /\ QUOTE_RATE \in Nat /\ QUOTE_BURST \in Nat /\ MAX_OPEN_ORDERS \in Nat
      /\ MAX_HELD_ORDERS \in Nat /\ MaxRestarts \in Nat
  BY SalesNats
<1>2. s \in Nat /\ now < s + UNCLAIMED_LIFETIME
  BY <1>1
<1>3. now + 1 - s <= UNCLAIMED_LIFETIME
  BY <1>1
<1>4. opened \subseteq Unclaimed(s) \cup Claimed
  <2> SUFFICES ASSUME NEW o \in opened, o.unclaimed PROVE o.created >= s
    BY <1>0 DEF Unclaimed, Claimed, open_at, QuotesTyped
  <2>1. now < o.created + UNCLAIMED_LIFETIME /\ o.created \in Nat
    BY <1>0 DEF open_at, lapses_at, QuotesTyped
  <2> QED BY <1>1, <2>1
<1> HIDE DEF s
<1>5. H \in Nat /\ U \in Nat /\ IsFiniteSet(Unclaimed(s) \cup Claimed)
      /\ Cardinality(Unclaimed(s) \cup Claimed) <= U + H
  <2>1. IsFiniteSet(Unclaimed(s)) /\ IsFiniteSet(Claimed) /\ H \in Nat /\ U \in Nat
    BY <1>0, QuoteSets
  <2>2. Cardinality(Unclaimed(s) \cup Claimed) = U + H - Cardinality(Unclaimed(s) \cap Claimed)
        /\ IsFiniteSet(Unclaimed(s) \cup Claimed)
    BY <2>1, FS_Union
  <2>3. Cardinality(Unclaimed(s) \cap Claimed) \in Nat
    BY <2>1, FS_Intersection, FS_CardinalityType
  <2>4. Cardinality(Unclaimed(s) \cup Claimed) \in Nat
    BY <2>2, FS_CardinalityType
  <2> QED BY <2>1, <2>2, <2>3, <2>4
<1>6. Cardinality(opened) <= U + H /\ Cardinality(opened) \in Nat
  <2>1. Cardinality(opened) <= Cardinality(Unclaimed(s) \cup Claimed) /\ IsFiniteSet(opened)
    BY <1>4, <1>5, FS_Subset
  <2>2. Cardinality(opened) \in Nat /\ Cardinality(Unclaimed(s) \cup Claimed) \in Nat
    BY <1>5, <2>1, FS_CardinalityType
  <2> QED BY <1>5, <2>1, <2>2
<1>7. U <= QUOTE_BURST * (1 + MaxRestarts) + QUOTE_RATE * (UNCLAIMED_LIFETIME + w)
  <2>1. /\ ticks \in Nat /\ restarts \in 0..MaxRestarts /\ bucket.left \in Nat /\ bucket.last \in Nat
        /\ bucket.last <= ticks
    BY <1>0 DEF QuotesTyped
  <2>2. /\ QUOTE_BURST * (1 + restarts) <= QUOTE_BURST * (1 + MaxRestarts)
        /\ QUOTE_BURST * (1 + restarts) \in Int /\ QUOTE_BURST * (1 + MaxRestarts) \in Int
    BY <1>1, <2>1, BurstGrows
  <2>3. CASE s <= bucket.last
    <3>1. U + Cardinality(Taken(s)) + bucket.left <= QUOTE_BURST * (1 + restarts) + QUOTE_RATE * (bucket.last - s)
      BY <1>0, <1>2, <2>3 DEF Paced
    <3>2. Cardinality(Taken(s)) \in Nat
      BY <1>0, QuoteSets
    <3>3. bucket.last - s <= UNCLAIMED_LIFETIME + w
      BY <1>1, <1>2, <1>3, <2>1
    <3>4. /\ QUOTE_RATE * (bucket.last - s) <= QUOTE_RATE * (UNCLAIMED_LIFETIME + w)
          /\ QUOTE_RATE * (bucket.last - s) \in Int /\ QUOTE_RATE * (UNCLAIMED_LIFETIME + w) \in Int
      BY <1>1, <1>2, <2>1, <3>3, FillGrows
    <3> QED BY <1>5, <2>1, <2>2, <3>1, <3>2, <3>4
  <2>4. CASE ~(s <= bucket.last)
    <3>1. Unclaimed(s) = {}
      BY <1>0, <1>2, <2>1, <2>4 DEF Unclaimed, QuotesTyped
    <3>2. U = 0
      BY <3>1, FS_EmptySet
    <3>3. QUOTE_RATE * 0 <= QUOTE_RATE * (UNCLAIMED_LIFETIME + w) /\ QUOTE_RATE * (UNCLAIMED_LIFETIME + w) \in Int
      BY <1>1, FillGrows
    <3>4. QUOTE_BURST * 0 <= QUOTE_BURST * (1 + MaxRestarts)
      BY <1>1, BurstGrows
    <3> QED BY <1>1, <2>2, <3>2, <3>3, <3>4
  <2> QED BY <2>3, <2>4
<1>8. QUOTE_BURST * (1 + MaxRestarts) \in Int /\ QUOTE_RATE * (UNCLAIMED_LIFETIME + w) \in Int
  BY <1>1
<1> QED BY <1>0, <1>1, <1>5, <1>6, <1>7, <1>8 DEF RoomFor

LEMMA QuotesInit == SalesInit => QuotesInv
<1> SUFFICES ASSUME SalesInit PROVE QuotesInv
  OBVIOUS
<1> USE DEF SalesInit
<1>1. QuotesTyped
  BY SalesNats, FS_EmptySet DEF QuotesTyped, NoQuote
<1>2. Claimed = {} /\ \A s : Unclaimed(s) = {} /\ Taken(s) = {}
  BY DEF Claimed, Unclaimed, Taken, NoQuote
<1>3. Cardinality(Claimed) = 0 /\ \A s : Cardinality(Unclaimed(s)) = 0 /\ Cardinality(Taken(s)) = 0
  BY <1>2, FS_EmptySet
<1>4. bucket.left = QUOTE_BURST /\ bucket.last = 0 /\ restarts = 0
  OBVIOUS
<1>5. ASSUME NEW s \in Nat, s <= 0 PROVE QUOTE_BURST <= QUOTE_BURST * (1 + 0) + QUOTE_RATE * (0 - s)
  <2>1. s = 0
    BY <1>5
  <2> QED BY <2>1, SalesNats
<1>6. Paced
  <2> SUFFICES ASSUME NEW s \in Nat, s <= bucket.last
               PROVE  Cardinality(Unclaimed(s)) + Cardinality(Taken(s)) + bucket.left
                        <= QUOTE_BURST * (1 + restarts) + QUOTE_RATE * (bucket.last - s)
    BY DEF Paced
  <2>1. QUOTE_BURST <= QUOTE_BURST * (1 + 0) + QUOTE_RATE * (0 - s)
    BY <1>4, <1>5
  <2>2. Cardinality(Unclaimed(s)) + Cardinality(Taken(s)) + bucket.left = QUOTE_BURST
    BY <1>3, <1>4, SalesNats
  <2> QED BY <1>4, <2>1, <2>2
<1> QED BY <1>1, <1>3, <1>6, SalesNats DEF QuotesInv, NeverFull

\* What holds of the let-through holds on, when no more of it appears and the
\* bucket is as it was.
LEMMA PacedKept ==
  ASSUME QuotesTyped, QuotesTyped', Paced, UNCHANGED <<bucket, restarts>>,
         \A s \in Nat : Cardinality(Unclaimed(s)') + Cardinality(Taken(s)')
                          <= Cardinality(Unclaimed(s)) + Cardinality(Taken(s))
  PROVE  Paced'
<1> SUFFICES ASSUME NEW s \in Nat, s <= bucket.last
             PROVE  Cardinality(Unclaimed(s)') + Cardinality(Taken(s)') + bucket.left
                      <= QUOTE_BURST * (1 + restarts) + QUOTE_RATE * (bucket.last - s)
  BY DEF Paced
<1> DEFINE u == Cardinality(Unclaimed(s))
           k == Cardinality(Taken(s))
           v == Cardinality(Unclaimed(s)')
           l == Cardinality(Taken(s)')
           R == QUOTE_BURST * (1 + restarts) + QUOTE_RATE * (bucket.last - s)
<1>1. u + k + bucket.left <= R
  BY DEF Paced
<1>2. u \in Nat /\ k \in Nat
  BY QuoteSets
<1>3. v \in Nat /\ l \in Nat
  <2>1. IsFiniteSet(Buyers) /\ IsFiniteSet(open_orders')
    BY SalesConstants DEF QuotesTyped
  <2>2. Unclaimed(s)' \subseteq open_orders' /\ Taken(s)' \subseteq Buyers
    BY DEF Unclaimed, Taken
  <2> QED BY <2>1, <2>2, FS_Subset, FS_CardinalityType
<1>4. v + l <= u + k
  OBVIOUS
<1>5. R \in Int /\ bucket.left \in Nat
  BY SalesNats DEF QuotesTyped
<1> HIDE DEF u, k, v, l, R
<1>6. v + l + bucket.left <= R
  BY <1>1, <1>2, <1>3, <1>4, <1>5
<1> QED BY <1>6 DEF v, l, R

\* Sets that only shrink are counted by no more.
LEMMA Shrinks ==
  ASSUME NEW A, NEW B, IsFiniteSet(B), A \subseteq B
  PROVE  IsFiniteSet(A) /\ Cardinality(A) \in Nat /\ Cardinality(B) \in Nat /\ Cardinality(A) <= Cardinality(B)
BY FS_Subset, FS_CardinalityType

LEMMA OneMore ==
  ASSUME NEW A, NEW B, NEW x, IsFiniteSet(B), A \subseteq B \cup {x}
  PROVE  IsFiniteSet(A) /\ Cardinality(A) \in Nat /\ Cardinality(B) \in Nat /\ Cardinality(A) <= Cardinality(B) + 1
<1>1. IsFiniteSet(B \cup {x}) /\ Cardinality(B \cup {x}) <= Cardinality(B) + 1 /\ Cardinality(B) \in Nat
      /\ Cardinality(B \cup {x}) \in Nat
  <2>1. IsFiniteSet(B \cup {x}) /\ Cardinality(B \cup {x}) = IF x \in B THEN Cardinality(B) ELSE Cardinality(B) + 1
    BY FS_AddElement
  <2>2. Cardinality(B) \in Nat
    BY FS_CardinalityType
  <2> QED BY <2>1, <2>2
<1>2. IsFiniteSet(A) /\ Cardinality(A) <= Cardinality(B \cup {x}) /\ Cardinality(A) \in Nat
  BY <1>1, Shrinks
<1> QED BY <1>1, <1>2

LEMMA TheLesser ==
  ASSUME NEW x \in Int, NEW y \in Int
  PROVE  Min({x, y}) \in {x, y} /\ Min({x, y}) <= x /\ Min({x, y}) <= y
<1>1. \E z \in {x, y} : \A n \in {x, y} : z <= n
  BY x <= y \/ y <= x
<1> QED BY <1>1 DEF Min

LEMMA RateSplits ==
  ASSUME NEW x \in Int, NEW y \in Int
  PROVE  QUOTE_RATE * x + QUOTE_RATE * y = QUOTE_RATE * (x + y) /\ y * QUOTE_RATE = QUOTE_RATE * y
BY SalesNats


\* A step that leaves the bucket and the orders alone and takes no share.
LEMMA QuoteAskedStep ==
  ASSUME QuotesInv, NEW w \in Nat, RoomFor(w), NEW b \in Buyers, QuoteAsked(b)
  PROVE  QuotesInv'
<1>0. QuotesTyped /\ Paced /\ NeverFull /\ Cardinality(Claimed) <= MAX_HELD_ORDERS
  BY DEF QuotesInv
<1>1. UNCHANGED <<ticks, bucket, open_orders, restarts>>
  BY DEF QuoteAsked
<1>2. ticks \in Nat /\ ticks <= ticks + w
  BY <1>0 DEF QuotesTyped
<1>3. Cardinality(open_at(open_orders, ticks)) < MAX_OPEN_ORDERS
  BY <1>2, ThereIsRoom
<1>4. ~(Cardinality(open_at(open_orders, ticks)) >= MAX_OPEN_ORDERS)
  <2>1. open_at(open_orders, ticks) \subseteq open_orders
    BY DEF open_at
  <2>2. Cardinality(open_at(open_orders, ticks)) \in Nat
    BY <1>0, <2>1, QuoteSets, Shrinks
  <2> QED BY <1>3, <2>2, SalesNats
<1>5. quoting' = [quoting EXCEPT ![b] = [pc |-> "bucket", now |-> ticks]] /\ UNCHANGED refused_full
  BY <1>4 DEF QuoteAsked
<1>6. QuotesTyped'
  BY <1>0, <1>1, <1>5 DEF QuotesTyped
<1>7. Claimed' = Claimed /\ \A s \in Nat : Unclaimed(s)' = Unclaimed(s) /\ Taken(s)' \subseteq Taken(s)
  BY <1>0, <1>1, <1>5 DEF Claimed, Unclaimed, Taken, QuotesTyped
<1>8. ASSUME NEW s \in Nat
      PROVE  Cardinality(Unclaimed(s)') + Cardinality(Taken(s)')
               <= Cardinality(Unclaimed(s)) + Cardinality(Taken(s))
  <2>1. IsFiniteSet(Taken(s)) /\ Cardinality(Unclaimed(s)) \in Nat
    BY <1>0, QuoteSets
  <2>2. Cardinality(Taken(s)') <= Cardinality(Taken(s)) /\ Cardinality(Taken(s)') \in Nat
        /\ Cardinality(Taken(s)) \in Nat
    BY <1>7, <2>1, Shrinks
  <2> QED BY <1>7, <2>1, <2>2
<1>9. Paced'
  BY <1>0, <1>1, <1>6, <1>8, PacedKept
<1> QED BY <1>0, <1>5, <1>6, <1>7, <1>9 DEF QuotesInv, NeverFull

\* A day's hold: what was unclaimed is claimed, while claims hold no more than
\* they may.
LEMMA HoldOrderStep ==
  ASSUME QuotesInv, NEW o \in open_orders, HoldOrder(o)
  PROVE  QuotesInv'
<1> DEFINE opened == open_at(open_orders, ticks)
           c == [o EXCEPT !.unclaimed = FALSE]
<1>0. QuotesTyped /\ Paced /\ NeverFull
  BY DEF QuotesInv
<1>1. UNCHANGED <<ticks, bucket, quoting, restarts, refused_full>>
  BY DEF HoldOrder
<1>2. opened \subseteq open_orders /\ open_orders' = (opened \ {o}) \cup {c}
      /\ Cardinality(held_at(open_orders, ticks)) < MAX_HELD_ORDERS
  BY DEF HoldOrder, open_at
<1>3. c.created = o.created /\ c.unclaimed = FALSE
      /\ "unclaimed" \in DOMAIN c
  BY <1>0 DEF QuotesTyped
<1>4. QuotesTyped'
  <2>1. IsFiniteSet(open_orders')
    <3>1. open_orders' \subseteq open_orders \cup {c}
      BY <1>2
    <3> QED BY <1>0, <3>1, QuoteSets, OneMore
  <2>2. \A p \in open_orders' : p \in open_orders \/ p = c
    BY <1>2
  <2> HIDE DEF c
  <2> QED BY <1>0, <1>1, <1>3, <2>1, <2>2 DEF QuotesTyped
<1>5. Claimed' \subseteq held_at(open_orders, ticks) \cup {c}
  BY <1>2 DEF Claimed, held_at
<1>6. Cardinality(Claimed)' <= MAX_HELD_ORDERS
  <2>1. held_at(open_orders, ticks) \subseteq open_orders
    BY <1>2 DEF held_at
  <2>2. IsFiniteSet(held_at(open_orders, ticks))
    BY <1>0, <2>1, QuoteSets, Shrinks
  <2>3. Cardinality(Claimed') \in Nat /\ Cardinality(held_at(open_orders, ticks)) \in Nat
        /\ Cardinality(Claimed') <= Cardinality(held_at(open_orders, ticks)) + 1
    BY <1>5, <2>2, OneMore
  <2> QED BY <1>2, <2>3, SalesNats
<1>7. \A s \in Nat : Unclaimed(s)' \subseteq Unclaimed(s) /\ Taken(s)' = Taken(s)
  <2> HIDE DEF c
  <2> QED BY <1>1, <1>2, <1>3 DEF Unclaimed, Taken
<1>8. ASSUME NEW s \in Nat
      PROVE  Cardinality(Unclaimed(s)') + Cardinality(Taken(s)')
               <= Cardinality(Unclaimed(s)) + Cardinality(Taken(s))
  <2>1. IsFiniteSet(Unclaimed(s)) /\ Cardinality(Taken(s)) \in Nat
    BY <1>0, QuoteSets
  <2>2. Cardinality(Unclaimed(s)') <= Cardinality(Unclaimed(s)) /\ Cardinality(Unclaimed(s)') \in Nat
        /\ Cardinality(Unclaimed(s)) \in Nat
    BY <1>7, <2>1, Shrinks
  <2> QED BY <1>7, <2>1, <2>2
<1>9. Paced'
  BY <1>0, <1>1, <1>4, <1>8, PacedKept
<1> QED BY <1>0, <1>1, <1>4, <1>6, <1>9 DEF QuotesInv, NeverFull

\* The quote's share becomes its order.
LEMMA OpenOrderStep ==
  ASSUME QuotesInv, NEW w \in Nat, RoomFor(w), Prompt(w), NEW b \in Buyers, OpenOrder(b)
  PROVE  QuotesInv'
<1> DEFINE now == quoting[b].now
           opened == open_at(open_orders, now)
           n == [tag |-> free_tag(opened), created |-> now, unclaimed |-> TRUE]
<1>0. QuotesTyped /\ Paced /\ NeverFull /\ Cardinality(Claimed) <= MAX_HELD_ORDERS
  BY DEF QuotesInv
<1>1. UNCHANGED <<ticks, bucket, restarts>> /\ quoting[b].pc = "open" /\ quoting' = [quoting EXCEPT ![b] = NoQuote]
  BY DEF OpenOrder
<1>2. now \in Nat /\ ticks <= now + w /\ now <= bucket.last /\ now <= ticks
  BY <1>0, <1>1 DEF Prompt, QuotesTyped
<1>3. Cardinality(opened) < MAX_OPEN_ORDERS
  BY <1>2, ThereIsRoom
<1>4. opened \subseteq open_orders
  BY DEF open_at
<1>5. ~(Cardinality(opened) >= MAX_OPEN_ORDERS)
  <2>1. Cardinality(opened) \in Nat
    BY <1>0, <1>4, QuoteSets, Shrinks
  <2> QED BY <1>3, <2>1, SalesNats
<1>6. open_orders' = opened \cup {n} /\ UNCHANGED refused_full
  BY <1>5 DEF OpenOrder
<1>7. n.created = now /\ n.unclaimed = TRUE /\ "unclaimed" \in DOMAIN n
  OBVIOUS
<1> HIDE DEF n
<1>8. QuotesTyped'
  <2>1. IsFiniteSet(open_orders')
    <3>1. open_orders' \subseteq open_orders \cup {n}
      BY <1>4, <1>6
    <3> QED BY <1>0, <3>1, QuoteSets, OneMore
  <2>2. \A p \in open_orders' : p \in open_orders \/ p = n
    BY <1>4, <1>6
  <2> HIDE DEF now
  <2>3. \A p \in open_orders' : /\ p.created \in Nat /\ p.created <= bucket.last' /\ p.unclaimed \in BOOLEAN
                                /\ "unclaimed" \in DOMAIN p
    BY <1>0, <1>1, <1>2, <1>7, <2>2 DEF QuotesTyped
  <2>4. \A a \in Buyers : quoting'[a] = IF a = b THEN NoQuote ELSE quoting[a]
    BY <1>0, <1>1 DEF QuotesTyped
  <2>5. DOMAIN quoting' = Buyers
    BY <1>0, <1>1 DEF QuotesTyped
  <2>6. \A a \in Buyers : /\ quoting'[a] = [pc |-> quoting'[a].pc, now |-> quoting'[a].now]
                          /\ quoting'[a].now \in Nat
                          /\ quoting'[a].pc # "idle" => quoting'[a].now <= ticks'
                          /\ quoting'[a].pc = "open" => quoting'[a].now <= bucket.last'
    BY <1>0, <1>1, <2>4 DEF QuotesTyped, NoQuote
  <2> QED BY <1>0, <1>1, <2>1, <2>3, <2>5, <2>6 DEF QuotesTyped
<1>9. Claimed' \subseteq Claimed
  BY <1>4, <1>6, <1>7 DEF Claimed
<1>10. Cardinality(Claimed)' <= MAX_HELD_ORDERS
  <2>1. Cardinality(Claimed') <= Cardinality(Claimed) /\ Cardinality(Claimed') \in Nat /\ Cardinality(Claimed) \in Nat
    BY <1>0, <1>9, QuoteSets, Shrinks
  <2> QED BY <1>0, <2>1, SalesNats
<1>11. ASSUME NEW s \in Nat
       PROVE  Cardinality(Unclaimed(s)') + Cardinality(Taken(s)')
                <= Cardinality(Unclaimed(s)) + Cardinality(Taken(s))
  <2>1. IsFiniteSet(Unclaimed(s)) /\ IsFiniteSet(Taken(s))
    BY <1>0, QuoteSets
  <2>2. CASE now >= s
    <3>1. Unclaimed(s)' \subseteq Unclaimed(s) \cup {n}
      BY <1>4, <1>6 DEF Unclaimed
    <3>2. b \in Taken(s) /\ Taken(s)' \subseteq Taken(s) \ {b}
      BY <1>0, <1>1, <2>2 DEF Taken, NoQuote, QuotesTyped
    <3>3. /\ Cardinality(Unclaimed(s)') <= Cardinality(Unclaimed(s)) + 1 /\ Cardinality(Unclaimed(s)') \in Nat
          /\ Cardinality(Unclaimed(s)) \in Nat
      BY <2>1, <3>1, OneMore
    <3>4. IsFiniteSet(Taken(s) \ {b}) /\ Cardinality(Taken(s) \ {b}) = Cardinality(Taken(s)) - 1
      BY <2>1, <3>2, FS_RemoveElement
    <3>5. /\ Cardinality(Taken(s)') <= Cardinality(Taken(s) \ {b}) /\ Cardinality(Taken(s)') \in Nat
      BY <3>2, <3>4, Shrinks
    <3>6. Cardinality(Taken(s)) \in Nat
      BY <2>1, FS_CardinalityType
    <3> QED BY <3>3, <3>4, <3>5, <3>6
  <2>3. CASE ~(now >= s)
    <3>1. Unclaimed(s)' \subseteq Unclaimed(s)
      BY <1>4, <1>6, <1>7, <2>3 DEF Unclaimed
    <3>2. Taken(s)' \subseteq Taken(s)
      BY <1>0, <1>1 DEF Taken, NoQuote, QuotesTyped
    <3>3. /\ Cardinality(Unclaimed(s)') <= Cardinality(Unclaimed(s)) /\ Cardinality(Unclaimed(s)') \in Nat
          /\ Cardinality(Unclaimed(s)) \in Nat
      BY <2>1, <3>1, Shrinks
    <3>4. /\ Cardinality(Taken(s)') <= Cardinality(Taken(s)) /\ Cardinality(Taken(s)') \in Nat
          /\ Cardinality(Taken(s)) \in Nat
      BY <2>1, <3>2, Shrinks
    <3> QED BY <3>3, <3>4
  <2> QED BY <2>2, <2>3
<1>12. Paced'
  BY <1>0, <1>1, <1>8, <1>11, PacedKept
<1> QED BY <1>0, <1>6, <1>8, <1>10, <1>12 DEF QuotesInv, NeverFull


\* What the bucket holds when it is looked at again.
LEMMA FilledBounds ==
  ASSUME QuotesTyped
  PROVE  /\ filled(ticks) \in Nat /\ filled(ticks) <= QUOTE_BURST
         /\ filled(ticks) <= bucket.left + QUOTE_RATE * (ticks - bucket.last)
         /\ QUOTE_RATE * (ticks - bucket.last) \in Nat
<1> DEFINE x == bucket.left + (ticks - bucket.last) * QUOTE_RATE
<1>1. bucket.left \in Nat /\ ticks \in Nat /\ bucket.last \in Nat /\ bucket.last <= ticks /\ QUOTE_BURST \in Nat
      /\ QUOTE_RATE \in Nat
  BY SalesNats DEF QuotesTyped
<1>2. ticks - bucket.last \in Nat
  BY <1>1
<1>3. QUOTE_RATE * (ticks - bucket.last) \in Nat
      /\ (ticks - bucket.last) * QUOTE_RATE = QUOTE_RATE * (ticks - bucket.last)
  BY <1>1, <1>2
<1>4. x \in Nat /\ x = bucket.left + QUOTE_RATE * (ticks - bucket.last)
  BY <1>1, <1>3
<1>5. filled(ticks) = Min({x, QUOTE_BURST})
  BY DEF filled
<1> HIDE DEF x
<1>6. filled(ticks) \in {x, QUOTE_BURST} /\ filled(ticks) <= x /\ filled(ticks) <= QUOTE_BURST
  <2>1. x \in Int /\ QUOTE_BURST \in Int
    BY <1>1, <1>4
  <2>2. Min({x, QUOTE_BURST}) \in {x, QUOTE_BURST} /\ Min({x, QUOTE_BURST}) <= x
        /\ Min({x, QUOTE_BURST}) <= QUOTE_BURST
    BY <2>1, TheLesser
  <2> QED BY <1>5, <2>2
<1> QED BY <1>1, <1>3, <1>4, <1>6

\* The bucket's account goes on from its last count to now.
LEMMA CountedOn ==
  ASSUME NEW s \in Nat, NEW l \in Nat, NEW t \in Nat
  PROVE  QUOTE_RATE * (l - s) + QUOTE_RATE * (t - l) = QUOTE_RATE * (t - s)
         /\ QUOTE_RATE * (l - s) \in Int /\ QUOTE_RATE * (t - l) \in Int /\ QUOTE_RATE * (t - s) \in Int
<1>1. QUOTE_RATE * (l - s) + QUOTE_RATE * (t - l) = QUOTE_RATE * ((l - s) + (t - l))
  BY RateSplits
<1>2. (l - s) + (t - l) = t - s
  OBVIOUS
<1> QED BY <1>1, <1>2, SalesNats

\* Since a time later than the last count nothing was let through.
LEMMA NoneSince ==
  ASSUME QuotesTyped, NEW s \in Nat, ~(s <= bucket.last)
  PROVE  Cardinality(Unclaimed(s)) = 0 /\ Cardinality(Taken(s)) = 0 /\ Unclaimed(s) = {} /\ Taken(s) = {}
<1>1. Unclaimed(s) = {} /\ Taken(s) = {}
  BY DEF Unclaimed, Taken, QuotesTyped
<1> QED BY <1>1, FS_EmptySet

\* A look at the bucket: at most what it holds is let through.
LEMMA TakeShareStep ==
  ASSUME QuotesInv, NEW b \in Buyers, TakeShare(b)
  PROVE  QuotesInv'
<1> DEFINE f == filled(ticks)
<1>0. QuotesTyped /\ Paced /\ NeverFull /\ Cardinality(Claimed) <= MAX_HELD_ORDERS
  BY DEF QuotesInv
<1>1. UNCHANGED <<ticks, open_orders, restarts, refused_full>> /\ quoting[b].pc = "bucket"
      /\ bucket' = [left |-> IF f >= 1 THEN f - 1 ELSE f, last |-> ticks]
      /\ quoting' = IF f >= 1 THEN [quoting EXCEPT ![b].pc = "open"] ELSE [quoting EXCEPT ![b] = NoQuote]
  BY DEF TakeShare
<1>2. f \in Nat /\ f <= QUOTE_BURST /\ f <= bucket.left + QUOTE_RATE * (ticks - bucket.last)
  BY <1>0, FilledBounds
<1> HIDE DEF f
<1>3. bucket'.last = ticks /\ bucket'.left \in Nat /\ bucket'.left <= QUOTE_BURST
      /\ bucket'.left = (IF f >= 1 THEN f - 1 ELSE f)
  BY <1>1, <1>2, SalesNats
<1>4. \A a \in Buyers : quoting'[a] = IF a # b THEN quoting[a]
                                     ELSE IF f >= 1 THEN [pc |-> "open", now |-> quoting[a].now] ELSE NoQuote
  <2>1. quoting[b] = [pc |-> quoting[b].pc, now |-> quoting[b].now] /\ DOMAIN quoting = Buyers
    BY <1>0 DEF QuotesTyped
  <2>2. \A p, n : [[pc |-> p, now |-> n] EXCEPT !.pc = "open"] = [pc |-> "open", now |-> n]
    OBVIOUS
  <2>3. [quoting[b] EXCEPT !.pc = "open"] = [pc |-> "open", now |-> quoting[b].now]
    BY <2>1, <2>2
  <2> QED BY <1>1, <2>1, <2>3
<1>5. QuotesTyped'
  <2>1. DOMAIN quoting' = Buyers
    BY <1>0, <1>1 DEF QuotesTyped
  <2>2. \A a \in Buyers : /\ quoting'[a] = [pc |-> quoting'[a].pc, now |-> quoting'[a].now]
                          /\ quoting'[a].now \in Nat
                          /\ quoting'[a].pc # "idle" => quoting'[a].now <= ticks'
                          /\ quoting'[a].pc = "open" => quoting'[a].now <= bucket'.last
    BY <1>0, <1>1, <1>3, <1>4 DEF QuotesTyped, NoQuote
  <2>3. bucket' = [left |-> bucket'.left, last |-> bucket'.last]
    BY <1>1
  <2>4. \A o \in open_orders' : /\ o.created \in Nat /\ o.created <= bucket'.last /\ o.unclaimed \in BOOLEAN
                                /\ "unclaimed" \in DOMAIN o
    <3> SUFFICES ASSUME NEW o \in open_orders PROVE o.created \in Nat /\ o.created <= ticks /\ o.unclaimed \in BOOLEAN
                                                    /\ "unclaimed" \in DOMAIN o
      BY <1>1, <1>3
    <3> QED BY <1>0 DEF QuotesTyped
  <2>5. ticks \in Nat /\ restarts \in 0..MaxRestarts /\ IsFiniteSet(open_orders)
    BY <1>0 DEF QuotesTyped
  <2> QED BY <1>1, <1>3, <2>1, <2>2, <2>3, <2>4, <2>5 DEF QuotesTyped
<1>6. Claimed' = Claimed /\ \A s \in Nat : Unclaimed(s)' = Unclaimed(s)
  BY <1>1 DEF Claimed, Unclaimed
<1>7. ASSUME NEW s \in Nat
      PROVE  Cardinality(Taken(s)') \in Nat /\ Cardinality(Taken(s)') + bucket'.left <= Cardinality(Taken(s)) + f
  <2>1. IsFiniteSet(Taken(s)) /\ Cardinality(Taken(s)) \in Nat
    BY <1>0, QuoteSets
  <2>2. CASE f >= 1
    <3>1. Taken(s)' \subseteq Taken(s) \cup {b}
      BY <1>4 DEF Taken
    <3>2. Cardinality(Taken(s)') <= Cardinality(Taken(s)) + 1 /\ Cardinality(Taken(s)') \in Nat
      BY <2>1, <3>1, OneMore
    <3> QED BY <1>2, <1>3, <2>1, <2>2, <3>2
  <2>3. CASE ~(f >= 1)
    <3>1. Taken(s)' \subseteq Taken(s)
      BY <1>4, <2>3 DEF Taken, NoQuote
    <3>2. Cardinality(Taken(s)') <= Cardinality(Taken(s)) /\ Cardinality(Taken(s)') \in Nat
      BY <2>1, <3>1, Shrinks
    <3> QED BY <1>2, <1>3, <2>1, <2>3, <3>2
  <2> QED BY <2>2, <2>3
<1>8. Paced'
  <2> SUFFICES ASSUME NEW s \in Nat, s <= bucket'.last
               PROVE  Cardinality(Unclaimed(s)) + Cardinality(Taken(s)') + bucket'.left
                        <= QUOTE_BURST * (1 + restarts) + QUOTE_RATE * (ticks - s)
    BY <1>1, <1>3, <1>6 DEF Paced
  <2>1. /\ ticks \in Nat /\ bucket.last \in Nat /\ bucket.left \in Nat /\ restarts \in Nat
        /\ Cardinality(Unclaimed(s)) \in Nat /\ Cardinality(Taken(s)) \in Nat
        /\ Cardinality(Taken(s)') \in Nat /\ Cardinality(Taken(s)') + bucket'.left <= Cardinality(Taken(s)) + f
    BY <1>0, <1>7, QuoteSets DEF QuotesTyped
  <2>2. QUOTE_BURST * (1 + restarts) \in Int
    BY <2>1, SalesNats
  <2>3. /\ QUOTE_RATE * (bucket.last - s) + QUOTE_RATE * (ticks - bucket.last) = QUOTE_RATE * (ticks - s)
        /\ QUOTE_RATE * (bucket.last - s) \in Int /\ QUOTE_RATE * (ticks - bucket.last) \in Int
        /\ QUOTE_RATE * (ticks - s) \in Int
    BY <2>1, CountedOn
  <2>4. CASE s <= bucket.last
    <3>1. Cardinality(Unclaimed(s)) + Cardinality(Taken(s)) + bucket.left
            <= QUOTE_BURST * (1 + restarts) + QUOTE_RATE * (bucket.last - s)
      BY <1>0, <2>4 DEF Paced
    <3> QED BY <1>2, <1>3, <2>1, <2>2, <2>3, <3>1
  <2>5. CASE ~(s <= bucket.last)
    <3>1. Cardinality(Unclaimed(s)) = 0 /\ Cardinality(Taken(s)) = 0
      BY <1>0, <2>5, NoneSince
    <3>2. QUOTE_BURST * 1 <= QUOTE_BURST * (1 + restarts)
      BY <2>1, BurstGrows
    <3>3. QUOTE_RATE * 0 <= QUOTE_RATE * (ticks - s)
      BY <1>3, <2>1, FillGrows
    <3>4. QUOTE_BURST * 1 = QUOTE_BURST /\ QUOTE_RATE * 0 = 0
      BY SalesNats
    <3> QED BY <1>2, <1>3, <2>1, <2>2, <2>3, <3>1, <3>2, <3>3, <3>4, SalesNats
  <2> QED BY <2>4, <2>5
<1> QED BY <1>0, <1>1, <1>5, <1>6, <1>8 DEF QuotesInv, NeverFull

\* A start: one more burst, and nobody waiting.
LEMMA RestartStep ==
  ASSUME QuotesInv, Restart
  PROVE  QuotesInv'
<1>0. QuotesTyped /\ Paced /\ NeverFull /\ Cardinality(Claimed) <= MAX_HELD_ORDERS
  BY DEF QuotesInv
<1>1. UNCHANGED <<ticks, open_orders, refused_full>> /\ restarts < MaxRestarts /\ restarts' = restarts + 1
      /\ bucket' = [left |-> QUOTE_BURST, last |-> ticks] /\ quoting' = [b \in Buyers |-> NoQuote]
  BY DEF Restart
<1>2. bucket'.last = ticks /\ bucket'.left = QUOTE_BURST
  BY <1>1
<1>3. QuotesTyped'
  <2>1. \A a \in Buyers : quoting'[a] = NoQuote
    BY <1>1
  <2>2. restarts' \in 0..MaxRestarts
    BY <1>0, <1>1, SalesNats DEF QuotesTyped
  <2> QED BY <1>0, <1>1, <1>2, <2>1, <2>2, SalesNats DEF QuotesTyped, NoQuote
<1>4. Claimed' = Claimed /\ \A s \in Nat : Unclaimed(s)' = Unclaimed(s) /\ Taken(s)' = {}
  BY <1>1 DEF Claimed, Unclaimed, Taken, NoQuote
<1>5. Paced'
  <2> SUFFICES ASSUME NEW s \in Nat, s <= bucket'.last
               PROVE  Cardinality(Unclaimed(s)) + 0 + QUOTE_BURST
                        <= QUOTE_BURST * (1 + (restarts + 1)) + QUOTE_RATE * (ticks - s)
    BY <1>1, <1>2, <1>4, FS_EmptySet DEF Paced
  <2>1. /\ ticks \in Nat /\ bucket.last \in Nat /\ bucket.left \in Nat /\ restarts \in Nat
        /\ bucket.last <= ticks
        /\ Cardinality(Unclaimed(s)) \in Nat /\ Cardinality(Taken(s)) \in Nat
    BY <1>0, QuoteSets DEF QuotesTyped
  <2>2. /\ QUOTE_BURST * (1 + restarts) \in Int /\ QUOTE_BURST \in Nat
        /\ QUOTE_BURST * (1 + (restarts + 1)) = QUOTE_BURST * (1 + restarts) + QUOTE_BURST
    BY <2>1, SalesNats
  <2>3. /\ QUOTE_RATE * (bucket.last - s) + QUOTE_RATE * (ticks - bucket.last) = QUOTE_RATE * (ticks - s)
        /\ QUOTE_RATE * (bucket.last - s) \in Int /\ QUOTE_RATE * (ticks - bucket.last) \in Int
        /\ QUOTE_RATE * (ticks - s) \in Int
    BY <2>1, CountedOn
  <2>4. CASE s <= bucket.last
    <3>1. Cardinality(Unclaimed(s)) + Cardinality(Taken(s)) + bucket.left
            <= QUOTE_BURST * (1 + restarts) + QUOTE_RATE * (bucket.last - s)
      BY <1>0, <2>4 DEF Paced
    <3>2. QUOTE_RATE * (ticks - bucket.last) \in Nat
      BY <1>0, FilledBounds
    <3> QED BY <2>1, <2>2, <2>3, <3>1, <3>2
  <2>5. CASE ~(s <= bucket.last)
    <3>1. Cardinality(Unclaimed(s)) = 0
      BY <1>0, <2>5, NoneSince
    <3>2. QUOTE_BURST * 0 <= QUOTE_BURST * (1 + restarts)
      BY <2>1, BurstGrows
    <3>3. QUOTE_RATE * 0 <= QUOTE_RATE * (ticks - s)
      BY <1>2, <2>1, FillGrows
    <3>4. QUOTE_BURST * 0 = 0 /\ QUOTE_RATE * 0 = 0
      BY SalesNats
    <3> QED BY <2>1, <2>2, <2>3, <3>1, <3>2, <3>3, <3>4
  <2> QED BY <2>4, <2>5
<1> QED BY <1>0, <1>1, <1>3, <1>4, <1>5 DEF QuotesInv, NeverFull

\* The clock's tick and the rate's refresh touch nothing of the quotes.
LEMMA QuotesRest ==
  ASSUME QuotesInv, UNCHANGED quoteVars, UNCHANGED restarts, ticks' \in {ticks, ticks + 1}
  PROVE  QuotesInv'
<1>0. QuotesTyped /\ Paced /\ NeverFull /\ Cardinality(Claimed) <= MAX_HELD_ORDERS
  BY DEF QuotesInv
<1>1. UNCHANGED <<bucket, open_orders, quoting, refused_full, restarts>>
  BY DEF quoteVars
<1>2. ticks' \in Nat /\ ticks <= ticks' /\ ticks \in Nat
  BY <1>0 DEF QuotesTyped
<1>3. bucket.last <= ticks' /\ \A b \in Buyers : quoting[b].pc # "idle" => quoting[b].now <= ticks'
  <2>1. bucket.last \in Nat /\ bucket.last <= ticks
    BY <1>0 DEF QuotesTyped
  <2>2. \A b \in Buyers : quoting[b].now \in Nat /\ (quoting[b].pc # "idle" => quoting[b].now <= ticks)
    BY <1>0 DEF QuotesTyped
  <2> QED BY <1>2, <2>1, <2>2
<1>4. QuotesTyped'
  BY <1>0, <1>1, <1>2, <1>3 DEF QuotesTyped
<1>5. Claimed' = Claimed /\ \A s \in Nat : Unclaimed(s)' = Unclaimed(s) /\ Taken(s)' = Taken(s)
  BY <1>1 DEF Claimed, Unclaimed, Taken
<1>6. Paced'
  BY <1>0, <1>1, <1>5 DEF Paced
<1> QED BY <1>0, <1>1, <1>4, <1>5, <1>6 DEF QuotesInv, NeverFull

LEMMA QuotesStep ==
  ASSUME QuotesInv, NEW w \in Nat, RoomFor(w), Prompt(w), [SalesNext]_salesVars
  PROVE  QuotesInv'
<1>1. CASE Restart
  BY <1>1, RestartStep
<1>2. CASE Ticks
  BY <1>2, QuotesRest DEF Ticks
<1>3. ASSUME NEW answers \in [1..NFeeds -> FeedAnswers], Refresh(answers) PROVE QuotesInv'
  <2>1. UNCHANGED <<ticks, quoteVars, restarts>>
    BY <1>3 DEF Refresh
  <2> QED BY <2>1, QuotesRest
<1>4. ASSUME NEW b \in Buyers, QuoteAsked(b) PROVE QuotesInv'
  BY <1>4, QuoteAskedStep
<1>5. ASSUME NEW b \in Buyers, TakeShare(b) PROVE QuotesInv'
  BY <1>5, TakeShareStep
<1>6. ASSUME NEW b \in Buyers, OpenOrder(b) PROVE QuotesInv'
  BY <1>6, OpenOrderStep
<1>7. ASSUME NEW o \in open_orders, HoldOrder(o) PROVE QuotesInv'
  BY <1>7, HoldOrderStep
<1>8. CASE UNCHANGED salesVars
  BY <1>8, QuotesRest DEF salesVars, quoteVars
<1> QED BY <1>1, <1>2, <1>3, <1>4, <1>5, <1>6, <1>7, <1>8 DEF SalesNext, RateNext, QuoteNext

\* No quote is refused for want of room, whatever the constants, provided none
\* waits so long that the bucket fills by what the orders have no room for: the
\* bucket, the life of an order no claim reached and the orders claims hold
\* bound those open (Orders::open, the compile-time assertion beside it).
THEOREM NeverFullHolds ==
  ASSUME NEW w \in Nat, RoomFor(w)
  PROVE  SalesSpec /\ []Prompt(w) => []NeverFull
<1>1. QuotesInv /\ Prompt(w) /\ [SalesNext]_salesVars => QuotesInv'
  BY QuotesStep
<1>2. QuotesInv => NeverFull
  BY DEF QuotesInv
<1> QED BY <1>1, <1>2, QuotesInit, PTL DEF SalesSpec

-----------------------------------------------------------------------------
(* The payment.                                                              *)

\* The accounts of the wallet in one list of balances.
LEMMA OursOnce ==
  ASSUME NEW t \in Txs
  PROVE  \A list \in {t.pre, t.post} :
           /\ IsFiniteSet(ours(list))
           /\ \A e \in ours(list) : e.amount \in Nat
           /\ \A e, f \in ours(list) : e.index = f.index => e = f
<1> SUFFICES ASSUME NEW list \in {t.pre, t.post}
             PROVE  /\ IsFiniteSet(ours(list))
                    /\ \A e \in ours(list) : e.amount \in Nat
                    /\ \A e, f \in ours(list) : e.index = f.index => e = f
  OBVIOUS
<1>1. IsFiniteSet(list) /\ (\A e \in list : e.amount \in Nat) /\ \A e, f \in list : e.index = f.index => e = f
  BY TxAssumption
<1>2. ours(list) \subseteq list
  BY DEF ours
<1>3. IsFiniteSet(ours(list))
  BY <1>1, <1>2, FS_Subset
<1> QED BY <1>1, <1>2, <1>3

\* A list's total is a sum of the amounts, whatever else they are kept with.
LEMMA TotalOf ==
  ASSUME NEW F, NEW S, IsFiniteSet(S), \A e \in S : e.amount \in Nat /\ F[e] = e.amount
  PROVE  total(S) = SumOf(F, S) /\ total(S) \in Nat
<1>1. \A e \in S : [a \in S |-> a.amount][e] = F[e]
  OBVIOUS
<1>2. SumOf([a \in S |-> a.amount], S) = SumOf(F, S)
  BY <1>1, SumSame
<1>3. SumOf(F, S) \in Nat
  BY SumIsNat
<1> QED BY <1>2, <1>3 DEF total

\* Account by account, what was gained with what the closed ones held is the
\* difference of the totals.
LEMMA GainsAddUp ==
  ASSUME NEW A, NEW B, IsFiniteSet(A), IsFiniteSet(B),
         \A e \in A \cup B : e.amount \in Nat,
         \A e, f \in A : e.index = f.index => e = f,
         \A e, f \in B : e.index = f.index => e = f,
         NEW g, \A e \in B : g[e] = e.amount - amount_at(A, e.index)
  PROVE  SumOf(g, B) - total({e \in A : \A p \in B : p.index # e.index}) = total(B) - total(A)
<1> DEFINE F == [e \in A \cup B |-> e.amount]
           U(T) == {e \in A : \A p \in T : p.index # e.index}
           At(i) == {e \in A : e.index = i}
           Right(T) == SumOf(g, T) - SumOf(F, U(T)) = SumOf(F, T) - SumOf(F, A)
           Bad == {T \in SUBSET B : ~Right(T)}
<1>1. \A T \in SUBSET B : IsFiniteSet(T) /\ Cardinality(T) \in Nat
  BY FS_Subset, FS_CardinalityType
<1>2. \A T \in SUBSET A : IsFiniteSet(T) /\ SumOf(F, T) \in Int /\ total(T) = SumOf(F, T)
  <2> SUFFICES ASSUME NEW T \in SUBSET A PROVE IsFiniteSet(T) /\ SumOf(F, T) \in Int /\ total(T) = SumOf(F, T)
    OBVIOUS
  <2>1. IsFiniteSet(T)
    BY FS_Subset
  <2>2. \A e \in T : e.amount \in Nat /\ F[e] = e.amount
    OBVIOUS
  <2> HIDE DEF F
  <2>3. total(T) = SumOf(F, T) /\ total(T) \in Nat
    BY <2>1, <2>2, TotalOf
  <2> QED BY <2>1, <2>3
<1>3. total(B) = SumOf(F, B)
  <2>1. \A e \in B : e.amount \in Nat /\ F[e] = e.amount
    OBVIOUS
  <2> HIDE DEF F
  <2> QED BY <2>1, TotalOf
<1>4. \A e \in A \cup B : F[e] = e.amount /\ F[e] \in Int
  OBVIOUS
<1> HIDE DEF F
<1>5. \A e \in B : amount_at(A, e.index) = SumOf(F, At(e.index)) /\ g[e] \in Int
  <2> SUFFICES ASSUME NEW e \in B PROVE amount_at(A, e.index) = SumOf(F, At(e.index)) /\ g[e] \in Int
    OBVIOUS
  <2>1. At(e.index) \in SUBSET A
    OBVIOUS
  <2>2. total(At(e.index)) = SumOf(F, At(e.index)) /\ SumOf(F, At(e.index)) \in Int
    BY <1>2, <2>1
  <2>3. amount_at(A, e.index) = SumOf(F, At(e.index))
    BY <2>2 DEF amount_at
  <2>4. g[e] = F[e] - SumOf(F, At(e.index)) /\ F[e] \in Int
    BY <1>4, <2>3
  <2> QED BY <2>2, <2>3, <2>4
<1>6. Bad = {}
  <2> SUFFICES ASSUME Bad # {} PROVE FALSE
    OBVIOUS
  <2>1. PICK T \in Bad : \A V \in Bad : Cardinality(T) <= Cardinality(V)
    <3>1. \A V \in Bad : IsFiniteSet(V)
      BY <1>1
    <3> HIDE DEF Bad
    <3> QED BY <3>1, SmallestSet
  <2>2. T \in SUBSET B /\ ~Right(T)
    OBVIOUS
  <2>3. T # {}
    <3> SUFFICES ASSUME T = {} PROVE FALSE
      OBVIOUS
    <3>1. U(T) = A
      OBVIOUS
    <3>2. SumOf(g, T) = 0 /\ SumOf(F, T) = 0
      BY SumEmpty
    <3>3. SumOf(F, A) \in Int
      BY <1>2
    <3> QED BY <2>2, <3>1, <3>2, <3>3
  <2>4. PICK x \in T : TRUE
    BY <2>3
  <2> DEFINE S == T \ {x}
  <2>5. S \in SUBSET B /\ Cardinality(S) < Cardinality(T) /\ x \in B /\ x \notin S /\ IsFiniteSet(T) /\ IsFiniteSet(S)
    <3>1. IsFiniteSet(T) /\ Cardinality(T) \in Nat
      BY <1>1, <2>2
    <3>2. Cardinality(S) = Cardinality(T) - 1
      BY <2>4, <3>1, FS_RemoveElement
    <3> QED BY <1>1, <2>2, <2>4, <3>1, <3>2
  <2>6. Right(S)
    <3>1. S \in Bad => Cardinality(T) <= Cardinality(S)
      BY <2>1
    <3>2. Cardinality(S) \in Nat /\ Cardinality(T) \in Nat
      BY <1>1, <2>2, <2>5
    <3>3. S \notin Bad
      BY <2>5, <3>1, <3>2
    <3> QED BY <2>5, <3>3
  <2>7. SumOf(g, T) = g[x] + SumOf(g, S) /\ SumOf(g, S) \in Int
    <3>1. \A y \in T : g[y] \in Int
      BY <1>5, <2>2
    <3>2. SumOf(g, T) = g[x] + SumOf(g, S)
      BY <2>4, <2>5, <3>1, SumWithout
    <3>3. SumOf(g, S) \in Int
      BY <2>5, <3>1, SumIsInt
    <3> QED BY <3>2, <3>3
  <2>8. SumOf(F, T) = F[x] + SumOf(F, S) /\ SumOf(F, S) \in Int /\ F[x] = x.amount /\ F[x] \in Int
    <3>1. \A y \in T : F[y] \in Int
      BY <1>4, <2>2
    <3>2. SumOf(F, T) = F[x] + SumOf(F, S)
      BY <2>4, <2>5, <3>1, SumWithout
    <3>3. SumOf(F, S) \in Int
      BY <2>5, <3>1, SumIsInt
    <3> QED BY <1>4, <2>5, <3>2, <3>3
  <2>9. SumOf(F, U(S)) = SumOf(F, At(x.index)) + SumOf(F, U(T))
    <3>1. CASE At(x.index) = {}
      <4>1. U(S) = U(T)
        BY <3>1, <2>4
      <4>2. SumOf(F, At(x.index)) = 0
        BY <3>1, SumEmpty
      <4>3. SumOf(F, U(T)) \in Int
        BY <1>2
      <4> HIDE DEF U
      <4> QED BY <4>1, <4>2, <4>3
    <3>2. CASE At(x.index) # {}
      <4>1. PICK m \in A : m.index = x.index
        BY <3>2
      <4>2. At(x.index) = {m}
        BY <4>1
      <4>3. \A p \in S : p.index # m.index
        BY <2>2, <2>4, <2>5, <4>1
      <4>4. U(S) = U(T) \cup {m} /\ m \notin U(T)
        BY <2>4, <4>1, <4>3
      <4>5. U(T) \in SUBSET A /\ F[m] \in Int /\ \A y \in U(T) : F[y] \in Int
        BY <1>4
      <4>6. SumOf(F, U(T) \cup {m}) = F[m] + SumOf(F, U(T))
        <5>1. IsFiniteSet(U(T))
          BY <1>2
        <5> HIDE DEF U
        <5> QED BY <4>4, <4>5, <5>1, SumWith
      <4>7. SumOf(F, {} \cup {m}) = F[m] + SumOf(F, {})
        BY <4>5, FS_EmptySet, SumWith
      <4>8. {} \cup {m} = {m} /\ SumOf(F, {}) = 0
        BY SumEmpty
      <4>9. SumOf(F, {m}) = F[m]
        BY <4>5, <4>7, <4>8
      <4> HIDE DEF U, At
      <4> QED BY <4>2, <4>4, <4>6, <4>9
    <3> QED BY <3>1, <3>2
  <2>10. g[x] = F[x] - SumOf(F, At(x.index))
    BY <1>4, <1>5, <2>5
  <2>11. SumOf(F, A) \in Int /\ SumOf(F, U(T)) \in Int /\ SumOf(F, U(S)) \in Int /\ SumOf(F, At(x.index)) \in Int
    BY <1>2
  <2>12. SumOf(g, S) - SumOf(F, U(S)) = SumOf(F, S) - SumOf(F, A)
    BY <2>6
  <2>13. SumOf(g, T) - SumOf(F, U(T)) # SumOf(F, T) - SumOf(F, A)
    BY <2>2
  <2> HIDE DEF U, At, S
  <2> QED BY <2>7, <2>8, <2>9, <2>10, <2>11, <2>12, <2>13
<1>7. Right(B)
  BY <1>6
<1>8. total(U(B)) = SumOf(F, U(B)) /\ total(A) = SumOf(F, A)
  BY <1>2
<1> QED BY <1>3, <1>7, <1>8

\* What a transaction brought is the difference of what the wallet held.
LEMMA ReceivedIsGain ==
  ASSUME NEW t \in Txs
  PROVE  received_by(t) = total(ours(t.post)) - total(ours(t.pre))
<1> DEFINE A == ours(t.pre)
           B == ours(t.post)
           g == gained(t)
<1>1. /\ IsFiniteSet(A) /\ IsFiniteSet(B) /\ \A e \in A \cup B : e.amount \in Nat
      /\ \A e, f \in A : e.index = f.index => e = f
      /\ \A e, f \in B : e.index = f.index => e = f
  BY OursOnce
<1>2. \A e \in B : g[e] = e.amount - amount_at(A, e.index)
  BY DEF gained
<1>3. received_by(t) = SumOf(g, B) - total({e \in A : \A p \in B : p.index # e.index})
  BY DEF received_by
<1> HIDE DEF A, B, g
<1>4. SumOf(g, B) - total({e \in A : \A p \in B : p.index # e.index}) = total(B) - total(A)
  BY <1>1, <1>2, GainsAddUp
<1> QED BY <1>3, <1>4 DEF A, B

\* All that is ever said of a transaction.
Sayings == {inspect_payment(t) : t \in Txs \cup {NotYet}} \cup {Unreachable, Said("not-found")} \cup Lies

\* What the honest have said is paid, the chain says is paid.
CheckInv ==
  /\ tx \in Txs \cup {NotYet}
  /\ verdicts \in Seq(Sayings) /\ Len(verdicts) < Len(Rpcs)
  /\ \A i \in 1..Len(verdicts) :
       Rpcs[i] \notin Liars /\ verdicts[i].is = "paid" => tx # NotYet /\ verdicts[i] = inspect_payment(tx)
  /\ ConfirmedIsReal

LEMMA RpcsCounted ==
  /\ Len(Rpcs) \in Nat /\ DOMAIN Rpcs = 1..Len(Rpcs) /\ IsFiniteSet(1..Len(Rpcs))
  /\ 2 * Cardinality({i \in 1..Len(Rpcs) : Rpcs[i] \in Liars}) < Len(Rpcs)
<1>1. Len(Rpcs) \in Nat
  BY RpcAssumption
<1>2. IsFiniteSet(1..Len(Rpcs))
  BY <1>1, FS_Interval
<1> QED BY <1>1, <1>2, RpcAssumption

\* A strict majority of the RPCs is not made of liars.
LEMMA MajorityIsHonest ==
  ASSUME NEW S, S \subseteq 1..Len(Rpcs), Cardinality(S) >= need
  PROVE  \E i \in S : Rpcs[i] \notin Liars
<1> DEFINE n == Len(Rpcs)
           L == {i \in 1..Len(Rpcs) : Rpcs[i] \in Liars}
<1> SUFFICES ASSUME \A i \in S : Rpcs[i] \in Liars PROVE FALSE
  OBVIOUS
<1>1. S \subseteq L /\ L \subseteq 1..Len(Rpcs)
  OBVIOUS
<1>2. IsFiniteSet(L)
  BY <1>1, RpcsCounted, FS_Subset
<1>3. Cardinality(S) <= Cardinality(L) /\ Cardinality(S) \in Nat /\ Cardinality(L) \in Nat
  BY <1>1, <1>2, FS_Subset, FS_CardinalityType
<1>4. n \in Nat /\ 2 * Cardinality(L) < n
  BY RpcsCounted
<1>5. Cardinality(S) >= n \div 2 + 1
  BY DEF need
<1> HIDE DEF n, L
<1>6. 2 * (n \div 2 + 1) > n /\ n \div 2 \in Nat
  BY <1>4
<1> QED BY <1>3, <1>4, <1>5, <1>6

\* What the answers come to, when it is a payment, a majority said.
LEMMA TallyIsSaid ==
  ASSUME NEW vs, tally(vs).is = "paid"
  PROVE  Cardinality({i \in DOMAIN vs : vs[i] = tally(vs)}) >= need
<1> DEFINE most == {v \in ToSet(vs) : v # Unreachable /\ agree(vs, v) >= need}
<1>1. tally(vs) = IF most = {} THEN Said("undecided")
                  ELSE IF \E v \in most : v.is = "paid" THEN CHOOSE v \in most : v.is = "paid"
                  ELSE CHOOSE v \in most : TRUE
  BY DEF tally
<1>2. Said("undecided").is = "undecided"
  BY DEF Said
<1> HIDE DEF most
<1>3. most # {}
  BY <1>1, <1>2
<1>4. tally(vs) \in most
  <2>1. CASE \E v \in most : v.is = "paid"
    BY <1>1, <1>3, <2>1
  <2>2. CASE ~\E v \in most : v.is = "paid"
    BY <1>1, <1>3, <2>2
  <2> QED BY <2>1, <2>2
<1> QED BY <1>4 DEF most, agree

\* A payment the chain tells of is the gain it brought.
LEMMA PaidIsGain ==
  ASSUME NEW t \in Txs, inspect_payment(t).is = "paid", t # NotYet
  PROVE  /\ ~t.err /\ inspect_payment(t).at = t.time
         /\ inspect_payment(t).n = total(ours(t.post)) - total(ours(t.pre))
<1>1. \A w \in {"not-found", "malformed", "failed", "decimals", "no-transfer"} : Said(w).is # "paid"
  BY DEF Said
<1>2. inspect_payment(t) = Paid(received_by(t), t.time) /\ ~t.err
  <2> DEFINE bad == \E e \in ours(t.pre \cup t.post) : e.decimals # Decimals
             none == received_by(t) <= 0
  <2>1. inspect_payment(t) = IF t.shape # "read" THEN Said("malformed")
                             ELSE IF t.err THEN Said("failed")
                             ELSE IF bad THEN Said("decimals")
                             ELSE IF none THEN Said("no-transfer")
                             ELSE Paid(received_by(t), t.time)
    BY DEF inspect_payment
  <2> HIDE DEF bad, none
  <2> QED BY <1>1, <2>1
<1>3. Paid(received_by(t), t.time).n = received_by(t) /\ Paid(received_by(t), t.time).at = t.time
  BY DEF Paid
<1> QED BY <1>2, <1>3, ReceivedIsGain

LEMMA CheckInits == CheckInit => CheckInv
<1> SUFFICES ASSUME CheckInit PROVE CheckInv
  OBVIOUS
<1>1. tx = NotYet /\ verdicts = <<>> /\ quorum.is = "none"
  BY DEF CheckInit, Said
<1>2. 0 < Len(Rpcs)
  <2>1. IsFiniteSet({i \in 1..Len(Rpcs) : Rpcs[i] \in Liars})
    BY RpcsCounted, FS_Subset
  <2>2. Cardinality({i \in 1..Len(Rpcs) : Rpcs[i] \in Liars}) \in Nat
    BY <2>1, FS_CardinalityType
  <2> QED BY <2>2, RpcsCounted
<1>3. verdicts \in Seq(Sayings) /\ Len(verdicts) = 0
  BY <1>1
<1> QED BY <1>1, <1>2, <1>3 DEF CheckInv, ConfirmedIsReal

\* An answer of an honest RPC that tells of a payment tells of the one there is.
LEMMA HonestSaysTrue ==
  ASSUME tx \in Txs \cup {NotYet}, NEW r, NEW v \in may_say(r)
  PROVE  /\ v \in Sayings
         /\ r \notin Liars /\ v.is = "paid" => tx # NotYet /\ v = inspect_payment(tx)
<1>1. Unreachable.is = "unreachable" /\ Said("not-found").is = "not-found"
  BY DEF Unreachable, Said
<1>2. inspect_payment(NotYet).is = "not-found"
  BY DEF inspect_payment, Said
<1>3. v \in Sayings
  BY DEF may_say, Sayings
<1>4. ASSUME r \notin Liars, v.is = "paid" PROVE tx # NotYet /\ v = inspect_payment(tx)
  <2>1. v \in {Unreachable, inspect_payment(tx), Said("not-found")}
    BY <1>4 DEF may_say
  <2>2. v = inspect_payment(tx)
    BY <1>1, <1>4, <2>1
  <2> QED BY <1>2, <1>4, <2>2
<1> QED BY <1>3, <1>4

LEMMA CheckStep == CheckInv /\ [CheckNext]_checkVars => CheckInv'
<1> SUFFICES ASSUME CheckInv, [CheckNext]_checkVars PROVE CheckInv'
  OBVIOUS
<1>0. /\ tx \in Txs \cup {NotYet} /\ verdicts \in Seq(Sayings) /\ Len(verdicts) < Len(Rpcs)
      /\ \A i \in 1..Len(verdicts) :
           Rpcs[i] \notin Liars /\ verdicts[i].is = "paid" => tx # NotYet /\ verdicts[i] = inspect_payment(tx)
      /\ ConfirmedIsReal
  BY DEF CheckInv
<1>1. ASSUME NEW t \in Txs, Finalized(t) PROVE CheckInv'
  <2>1. tx = NotYet /\ tx' = t /\ UNCHANGED <<verdicts, quorum>>
    BY <1>1 DEF Finalized
  <2>2. \A i \in 1..Len(verdicts) : ~(Rpcs[i] \notin Liars /\ verdicts[i].is = "paid")
    BY <1>0, <2>1
  <2>3. ConfirmedIsReal'
    BY <1>0, <2>1 DEF ConfirmedIsReal
  <2> QED BY <1>0, <2>1, <2>2, <2>3 DEF CheckInv
<1>2. CASE AskRpc
  <2> DEFINE r == Rpcs[Len(verdicts) + 1]
  <2>1. PICK v \in may_say(r) :
          /\ IF Len(verdicts) + 1 < Len(Rpcs)
             THEN verdicts' = Append(verdicts, v) /\ UNCHANGED quorum
             ELSE verdicts' = <<>> /\ quorum' = tally(Append(verdicts, v))
          /\ UNCHANGED tx
    BY <1>2 DEF AskRpc
  <2> DEFINE vs == Append(verdicts, v)
  <2>2. v \in Sayings /\ (r \notin Liars /\ v.is = "paid" => tx # NotYet /\ v = inspect_payment(tx))
    BY <1>0, HonestSaysTrue
  <2>3. /\ vs \in Seq(Sayings) /\ Len(vs) = Len(verdicts) + 1 /\ vs[Len(verdicts) + 1] = v
        /\ DOMAIN vs = 1..Len(vs)
        /\ \A i \in 1..Len(verdicts) : vs[i] = verdicts[i]
    BY <1>0, <2>2
  <2>4. Len(verdicts) \in Nat /\ Len(Rpcs) \in Nat
    BY <1>0, RpcsCounted
  <2>5. \A i \in 1..Len(vs) : Rpcs[i] \notin Liars /\ vs[i].is = "paid" => tx # NotYet /\ vs[i] = inspect_payment(tx)
    <3> SUFFICES ASSUME NEW i \in 1..Len(vs), Rpcs[i] \notin Liars, vs[i].is = "paid"
                 PROVE  tx # NotYet /\ vs[i] = inspect_payment(tx)
      OBVIOUS
    <3>1. i \in 1..Len(verdicts) \/ i = Len(verdicts) + 1
      BY <2>3, <2>4
    <3> QED BY <1>0, <2>2, <2>3, <3>1
  <2> HIDE DEF vs
  <2>6. CASE Len(verdicts) + 1 < Len(Rpcs)
    <3>1. verdicts' = vs /\ UNCHANGED <<tx, quorum>>
      BY <2>1, <2>6 DEF vs
    <3>2. ConfirmedIsReal'
      BY <1>0, <3>1 DEF ConfirmedIsReal
    <3> QED BY <1>0, <2>3, <2>5, <2>6, <3>1, <3>2 DEF CheckInv
  <2>7. CASE ~(Len(verdicts) + 1 < Len(Rpcs))
    <3>1. verdicts' = <<>> /\ quorum' = tally(vs) /\ UNCHANGED tx
      BY <2>1, <2>7 DEF vs
    <3>2. Len(vs) = Len(Rpcs)
      BY <1>0, <2>3, <2>4, <2>7
    <3>3. ConfirmedIsReal'
      <4> SUFFICES ASSUME tally(vs).is = "paid"
                   PROVE  /\ tx # NotYet /\ ~tx.err
                          /\ tally(vs).n = total(ours(tx.post)) - total(ours(tx.pre)) /\ tally(vs).at = tx.time
        BY <3>1 DEF ConfirmedIsReal
      <4>1. Cardinality({i \in DOMAIN vs : vs[i] = tally(vs)}) >= need
        BY TallyIsSaid
      <4>2. {i \in DOMAIN vs : vs[i] = tally(vs)} \subseteq 1..Len(Rpcs)
        BY <2>3, <3>2
      <4>3. PICK i \in {i \in DOMAIN vs : vs[i] = tally(vs)} : Rpcs[i] \notin Liars
        BY <4>1, <4>2, MajorityIsHonest
      <4>4. i \in 1..Len(vs) /\ vs[i] = tally(vs)
        BY <2>3
      <4>5. tx # NotYet /\ tally(vs) = inspect_payment(tx)
        BY <2>5, <4>3, <4>4
      <4>6. tx \in Txs
        BY <1>0, <4>5
      <4> QED BY <4>5, <4>6, PaidIsGain
    <3>4. verdicts' \in Seq(Sayings) /\ Len(verdicts') = 0
      BY <3>1
    <3> QED BY <1>0, <2>4, <3>1, <3>3, <3>4 DEF CheckInv
  <2> QED BY <2>6, <2>7
<1>3. CASE UNCHANGED checkVars
  <2>1. UNCHANGED <<tx, verdicts, quorum>>
    BY <1>3 DEF checkVars
  <2> QED BY <1>0, <2>1 DEF CheckInv, ConfirmedIsReal
<1> QED BY <1>1, <1>2, <1>3 DEF CheckNext

\* What a claim is credited on is what its transaction brought the wallet,
\* whichever of a minority of the RPCs lie, whatever the others fail to say or
\* say too early, and however many there are (verify_payment and the tally of
\* the verdicts).
THEOREM ConfirmedHolds == CheckSpec => []ConfirmedIsReal
<1>1. CheckInv => ConfirmedIsReal
  BY DEF CheckInv
<1> QED BY <1>1, CheckInits, CheckStep, PTL DEF CheckSpec
-----------------------------------------------------------------------------
\* Passes are sold at the market's rate, to everyone there is room for, and for
\* payments the chain shows: for every number of feeds, buyers and RPCs, every
\* limit that leaves room for what the bucket lets through while the slowest
\* quote waits, and whatever a minority of the RPCs says (RateBook::offer,
\* Orders::open, verify_payment).
THEOREM SalesAreSound ==
  ASSUME NEW w \in Nat, RoomFor(w)
  PROVE  SellingSpec /\ []Prompt(w) => []SalesSound
<1>1. SalesSpec /\ []Prompt(w) => []NeverFull
  BY NeverFullHolds
<1>2. SalesSpec => []RateFollows
  BY RateFollowsHolds
<1>3. CheckSpec => []ConfirmedIsReal
  BY ConfirmedHolds
<1>4. NeverFull /\ RateFollows /\ ConfirmedIsReal => SalesSound
  BY DEF SalesSound
<1> QED BY <1>1, <1>2, <1>3, <1>4, PTL DEF SellingSpec
=============================================================================
