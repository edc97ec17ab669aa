---------------------- MODULE CorpusTransactionProofs ----------------------
(* Machine-checked theorems about CorpusTransaction.                       *)
EXTENDS CorpusTransaction, TLAPS

USE DEF PC, TxId, Tracking

-----------------------------------------------------------------------------
(* Facts about the records on disk                                         *)

\* The fields of an active marker.
LEMMA MarkerFields ==
  ASSUME NEW m \in Marker
  PROVE  /\ m.before \in UNION {[S -> Text] : S \in SUBSET Pages}
         /\ DOMAIN m.before \subseteq Pages
         /\ \A q \in DOMAIN m.before : m.before[q] \in Text
         /\ m.tx \in Nat \ {0} /\ m.tracking \in {"snapshot", "touched"}
BY DEF Marker

\* The diff of a marker against the vault is a well-formed change list.
LEMMA ChangedType ==
  ASSUME wiki \in [Pages -> Text], NEW m \in Marker
  PROVE  /\ Changed(m.before) \in UNION {[S -> Change] : S \in SUBSET Pages}
         /\ DOMAIN Changed(m.before) = {q \in DOMAIN m.before : m.before[q] # wiki[q]}
         /\ \A q \in DOMAIN Changed(m.before) :
              Changed(m.before)[q] = [before |-> m.before[q], after |-> wiki[q]]
<1> DEFINE D == {q \in DOMAIN m.before : m.before[q] # wiki[q]}
<1>1. D \in SUBSET Pages
  BY MarkerFields
<1>2. \A q \in D : [before |-> m.before[q], after |-> wiki[q]] \in Change
  BY MarkerFields DEF Change
<1>3. Changed(m.before) = [q \in D |-> [before |-> m.before[q], after |-> wiki[q]]]
  BY DEF Changed
<1>4. Changed(m.before) \in [D -> Change]
  BY <1>2, <1>3
<1> QED
  BY <1>1, <1>3, <1>4

\* What Prepare writes is a journal record.
LEMMA PreparedType ==
  ASSUME wiki \in [Pages -> Text], NEW m \in Marker, NEW e \in Nat,
         NEW st \in {"committed", "failed", "recovered"}
  PROVE  [tx |-> m.tx, epoch |-> e, changes |-> Changed(m.before), status |-> st] \in Record
BY MarkerFields, ChangedType DEF Record

\* What Begin and Touch write is a marker.
LEMMA BeginType ==
  ASSUME wiki \in [Pages -> Text], NEW t \in Nat \ {0}, NEW k \in Tracking
  PROVE  [tx |-> t, tracking |-> k,
          before |-> IF k = "snapshot" THEN wiki ELSE [q \in {} |-> Absent]] \in Marker
<1>1. [q \in {} |-> Absent] \in [{} -> Text]
  OBVIOUS
<1>2. {} \in SUBSET Pages /\ Pages \in SUBSET Pages
  OBVIOUS
<1>3. (IF k = "snapshot" THEN wiki ELSE [q \in {} |-> Absent])
        \in UNION {[S -> Text] : S \in SUBSET Pages}
  BY <1>1, <1>2
<1> QED BY <1>3 DEF Marker

LEMMA TouchType ==
  ASSUME wiki \in [Pages -> Text], NEW m \in Marker, NEW q \in Pages,
         NEW b, b = [r \in DOMAIN m.before \cup {q} |-> IF r = q THEN wiki[q] ELSE m.before[r]]
  PROVE  /\ [m EXCEPT !.before = b] \in Marker
         /\ [m EXCEPT !.before = b].tx = m.tx
         /\ [m EXCEPT !.before = b].before = b
<1>1. DOMAIN m.before \cup {q} \in SUBSET Pages
  BY MarkerFields
<1>2. b \in [DOMAIN m.before \cup {q} -> Text]
  BY MarkerFields
<1>3. b \in UNION {[S -> Text] : S \in SUBSET Pages}
  BY <1>1, <1>2
<1> QED BY <1>3 DEF Marker

-----------------------------------------------------------------------------
(* Types, and which process may be where                                   *)

Exclusive == PC \ {"idle", "wait", "relock", "read", "release"}

\* Only the holder of the exclusive flock is inside the protocol, and the
\* markers that each stage works on are there.
Staged ==
  \A p \in Procs :
    /\ pc[p] \in Exclusive => ex = p
    /\ pc[p] = "body" => active # None
    /\ pc[p] \in {"setEpoch", "append", "dropActive"} => active # None /\ prepared # None
    /\ pc[p] = "dropPrepared" => prepared # None
    /\ pc[p] = "begin" => job[p] \in Tracking

Typed == TypeOK /\ Staged

LEMMA TypedInit == Init => Typed
<1> SUFFICES ASSUME Init PROVE Typed
  OBVIOUS
<1>1. TypeOK
  BY CorpusAssumption DEF Init, TypeOK
<1>2. Staged
  BY DEF Init, Staged, Exclusive
<1> QED BY <1>1, <1>2 DEF Typed

\* A process that leaves the exclusive stages leaves them empty.
LEMMA StagedLeave ==
  ASSUME Typed, NEW p \in Procs, pc[p] \in Exclusive,
         NEW l \in PC \ Exclusive, pc' = [pc EXCEPT ![p] = l]
  PROVE  Staged' /\ pc' \in [Procs -> PC]
<1>1. \A r \in Procs : pc'[r] \notin Exclusive
  BY DEF Typed, TypeOK, Staged, Exclusive
<1>2. {"body", "setEpoch", "append", "dropActive", "dropPrepared", "begin"} \subseteq Exclusive
  BY DEF Exclusive
<1> QED
  BY <1>1, <1>2 DEF Typed, TypeOK, Staged

LEMMA TypedStep == Typed /\ [Next]_vars => Typed'
<1> SUFFICES ASSUME Typed, [Next]_vars PROVE Typed'
  OBVIOUS
<1> USE DEF Typed, TypeOK, Staged, Exclusive, Goto, disk, flock, local
<1>a. None \notin Procs /\ None \notin Marker /\ None \notin Record
  BY CorpusAssumption
<1>1. ASSUME NEW p \in Procs, NEW j \in Tracking \cup {"read"}, Enter(p, j) PROVE Typed'
  BY <1>1 DEF Enter
<1>2. ASSUME NEW p \in Procs, Acquire(p) PROVE Typed'
  BY <1>2, <1>a DEF Acquire
<1>3. ASSUME NEW p \in Procs, AcquireTimeout(p) PROVE Typed'
  BY <1>3 DEF AcquireTimeout
<1>4. ASSUME NEW p \in Procs, RecordOwner(p) PROVE Typed'
  BY <1>4 DEF RecordOwner
<1>5. ASSUME NEW p \in Procs, FinishNothing(p) PROVE Typed'
  BY <1>5 DEF FinishNothing, AfterFinish
<1>6. ASSUME NEW p \in Procs, FinishPrepared(p) PROVE Typed'
  BY <1>6 DEF FinishPrepared
<1>7. ASSUME NEW p \in Procs, Prepare(p) PROVE Typed'
  <2>1. active \in Marker
    BY <1>7 DEF Prepare
  <2>2. StatusOf(phase[p]) \in {"committed", "failed", "recovered"}
    BY DEF StatusOf
  <2> DEFINE e == IF DOMAIN Changed(active.before) = {} THEN epoch ELSE epoch + 1
  <2>3. e \in Nat
    OBVIOUS
  <2>4. prepared' = [tx |-> active.tx, epoch |-> e, changes |-> Changed(active.before),
                     status |-> StatusOf(phase[p])]
    BY <1>7 DEF Prepare
  <2> HIDE DEF e
  <2>5. prepared' \in Record
    BY <2>1, <2>2, <2>3, <2>4, PreparedType
  <2> QED BY <1>7, <2>5, <1>a DEF Prepare
<1>8. ASSUME NEW p \in Procs, SetEpoch(p) PROVE Typed'
  <2>1. prepared.epoch \in Nat
    BY <1>8 DEF Record, SetEpoch
  <2> QED BY <1>8, <2>1 DEF SetEpoch
<1>9. ASSUME NEW p \in Procs, AppendRecord(p) PROVE Typed'
  <2>1. prepared \in Record
    BY <1>9 DEF AppendRecord
  <2>2. Append(journal, prepared) \in Seq(Record)
    BY <2>1
  <2>3. journal' \in Seq(Record) /\ tail' \in Record \cup {None, Fragment}
    BY <1>9, <2>2 DEF AppendRecord
  <2> QED BY <1>9, <2>3 DEF AppendRecord
<1>10. ASSUME NEW p \in Procs, DropActive(p) PROVE Typed'
  BY <1>10 DEF DropActive
<1>11. ASSUME NEW p \in Procs, DropPrepared(p) PROVE Typed'
  BY <1>11 DEF DropPrepared, AfterFinish
<1>12. ASSUME NEW p \in Procs, Begin(p) PROVE Typed'
  <2>1. active' \in Marker
    BY <1>12, BeginType DEF Begin
  <2>2. TypeOK'
    BY <1>12, <2>1 DEF Begin
  <2>3. Staged'
    BY <1>12, <2>1, <1>a DEF Begin
  <2> QED BY <2>2, <2>3
<1>13. ASSUME NEW p \in Procs, NEW q \in Pages, Touch(p, q) PROVE Typed'
  <2>1. active' \in Marker
    BY <1>13, TouchType, ZenonT(40) DEF Touch
  <2> QED BY <1>13, <2>1, <1>a DEF Touch
<1>14. ASSUME NEW p \in Procs, NEW q \in Pages, NEW c \in Text, Write(p, q, c) PROVE Typed'
  BY <1>14 DEF Write
<1>15. ASSUME NEW p \in Procs, NEW ph \in {"commit", "fail"}, BodyEnds(p, ph) PROVE Typed'
  BY <1>15 DEF BodyEnds
<1>16. ASSUME NEW p \in Procs, Release(p) PROVE Typed'
  BY <1>16 DEF Release
<1>17. ASSUME NEW p \in Procs, DowngradeUnlock(p) PROVE Typed'
  <2>1. Staged' /\ pc' \in [Procs -> PC]
    BY <1>17, StagedLeave DEF DowngradeUnlock
  <2>2. TypeOK'
    BY <1>17, <2>1 DEF DowngradeUnlock
  <2> QED BY <2>1, <2>2
<1>18. ASSUME NEW p \in Procs, DowngradeRelock(p) PROVE Typed'
  BY <1>18 DEF DowngradeRelock
<1>19. ASSUME NEW p \in Procs, ReadEnds(p) PROVE Typed'
  BY <1>19 DEF ReadEnds
<1>20. ASSUME NEW p \in Procs, Kill(p) PROVE Typed'
  BY <1>20 DEF Kill, Drop
<1>21. ASSUME NEW p \in Procs, FinishError(p) PROVE Typed'
  BY <1>21 DEF FinishError, Drop, InFinish
<1>22. ASSUME NEW p \in Procs, NEW kind \in TornTails, DieInAppend(p, kind) PROVE Typed'
  BY <1>22 DEF DieInAppend, Drop, Torn
<1>23. CASE UNCHANGED vars
  BY <1>23 DEF vars
<1> HIDE DEF Typed
<1> QED
  BY <1>1, <1>2, <1>3, <1>4, <1>5, <1>6, <1>7, <1>8, <1>9, <1>10, <1>11, <1>12, <1>13,
     <1>14, <1>15, <1>16, <1>17, <1>18, <1>19, <1>20, <1>21, <1>22, <1>23
     DEF Next, Step, Finish, Body, Fault

\* Type correctness of the fence, the files and the processes, for any
\* number of processes, pages and faults.
THEOREM TypeCorrect == Spec => []TypeOK
<1>1. Typed => TypeOK
  BY DEF Typed
<1> QED
  BY <1>1, TypedInit, TypedStep, PTL DEF Spec

-----------------------------------------------------------------------------
(* The inductive invariant.  It describes the disk alone, plus what each   *)
(* stage of the protocol knows about it; a kill leaves both as they are.   *)

\* The text page q had when the transaction still owed to the journal began.
Old(q) ==
  IF active # None /\ ~Receipted(active.tx) /\ q \in DOMAIN active.before
    THEN active.before[q] ELSE wiki[q]

\* Exactly one record per finished transaction; ids are below nextTx.
Receipts ==
  /\ \A i \in 1..Len(journal) : journal[i].tx < nextTx
  /\ \A i, j \in 1..Len(journal) : journal[i].tx = journal[j].tx => i = j
  /\ active # None => active.tx < nextTx
  /\ \A t \in 1..(nextTx - 1) : (active # None /\ active.tx = t) \/ Receipted(t)

\* The two markers belong together.
Markers ==
  /\ tail \in {None, Fragment}
  /\ prepared # None /\ active # None =>
       prepared.tx = active.tx /\ prepared.changes = Changed(active.before)
  /\ prepared # None /\ active = None => Receipted(prepared.tx)
  /\ prepared = None /\ active # None => ~Receipted(active.tx)

\* By how much a change list advances the epoch.
Advance(changes) == IF DOMAIN changes = {} THEN 0 ELSE 1

Chained ==
  \A i \in 1..Len(journal) :
    journal[i].epoch = (IF i = 1 THEN 0 ELSE journal[i-1].epoch) + Advance(journal[i].changes)

\* Whether the prepared record is still to be appended decides what the
\* epoch file may say.
Epochs ==
  IF prepared # None /\ ~Receipted(prepared.tx)
    THEN /\ prepared.epoch = LastEpoch + Advance(prepared.changes)
         /\ epoch \in {LastEpoch, prepared.epoch}
    ELSE /\ epoch = LastEpoch
         /\ prepared # None => prepared.epoch = LastEpoch

Explained == \A q \in Pages : Explains(q, Old(q))

DiskSafe == Receipts /\ Markers /\ Chained /\ Epochs /\ Explained

\* What a process knows at each stage.
Knows ==
  \A p \in Procs :
    /\ pc[p] \in {"begin", "downgrade"} => active = None /\ prepared = None
    /\ pc[p] = "body" => prepared = None
    /\ pc[p] \in {"append", "dropActive"} => epoch = prepared.epoch
    /\ pc[p] = "dropActive" => Receipted(prepared.tx)
    /\ pc[p] = "dropPrepared" => active = None

IInv == Typed /\ DiskSafe /\ Knows

LEMMA RecordFields ==
  ASSUME TypeOK, NEW i \in 1..Len(journal)
  PROVE  journal[i] \in Record /\ journal[i].tx \in Nat /\ journal[i].epoch \in Nat
<1>1. journal[i] \in Record
  BY DEF TypeOK
<1> QED BY <1>1 DEF Record

LEMMA LastEpochNat == TypeOK => LastEpoch \in Nat
<1> SUFFICES ASSUME TypeOK, journal # <<>> PROVE journal[Len(journal)].epoch \in Nat
  BY DEF LastEpoch
<1>1. journal \in Seq(Record) /\ Len(journal) \in 1..Len(journal)
  BY DEF TypeOK
<1>2. journal[Len(journal)] \in Record
  BY <1>1
<1> QED BY <1>2 DEF Record

LEMMA SafeInit == Init => DiskSafe /\ Knows
<1> SUFFICES ASSUME Init PROVE DiskSafe /\ Knows
  OBVIOUS
<1>1. Receipts /\ Markers /\ Chained /\ Epochs
  BY DEF Init, Receipts, Markers, Chained, Epochs, LastEpoch, Receipted
<1>2. Explained
  BY DEF Init, Explained, Explains, Old
<1>3. Knows
  BY DEF Init, Knows
<1> QED BY <1>1, <1>2, <1>3 DEF DiskSafe

\* A step that leaves the journal alone leaves what it says alone.
LEMMA JournalSame ==
  ASSUME UNCHANGED journal
  PROVE  /\ \A t : Receipted(t)' <=> Receipted(t)
         /\ LastEpoch' = LastEpoch
         /\ Chained' <=> Chained
         /\ \A q, c : Explains(q, c)' <=> Explains(q, c)
BY DEF Receipted, LastEpoch, Chained, Explains, LastTouch, Advance

\* A step that leaves the files alone leaves DiskSafe alone.
LEMMA DiskSame ==
  ASSUME DiskSafe, UNCHANGED <<disk, nextTx>>
  PROVE  DiskSafe'
<1>1. UNCHANGED <<wiki, active, prepared, epoch, journal, tail, nextTx>>
  BY DEF disk
<1>2. Receipts' /\ Markers' /\ Epochs'
  BY <1>1, JournalSame DEF DiskSafe, Receipts, Markers, Epochs, Advance, Changed
<1>3. \A q \in Pages : Old(q)' = Old(q)
  BY <1>1, JournalSame DEF Old
<1>4. Explained'
  BY <1>3, <1>1, JournalSame DEF DiskSafe, Explained
<1> QED BY <1>1, <1>2, <1>4, JournalSame DEF DiskSafe

\* While p is inside the fence nobody else is.
LEMMA Alone ==
  ASSUME Typed, NEW p \in Procs, pc[p] \in Exclusive, NEW r \in Procs, r # p
  PROVE  pc[r] \in {"idle", "wait", "relock", "read", "release"}
BY DEF Typed, TypeOK, Staged, Exclusive

\* Only p's own stage matters to what the processes know.
LEMMA KnowsAlone ==
  ASSUME Typed, NEW p \in Procs, pc[p] \in Exclusive,
         NEW l \in PC, pc' = [pc EXCEPT ![p] = l],
         l \in {"begin", "downgrade"} => active' = None /\ prepared' = None,
         l = "body" => prepared' = None,
         l \notin {"append", "dropActive", "dropPrepared"}
  PROVE  Knows'
<1> SUFFICES ASSUME NEW r \in Procs PROVE Knows!(r)'
  BY DEF Knows
<1>1. CASE r = p
  <2>1. pc'[r] = l
    BY <1>1 DEF Typed, TypeOK
  <2>2. pc'[r] \notin {"append", "dropActive", "dropPrepared"}
    BY <2>1
  <2>3. pc'[r] \in {"begin", "downgrade"} => active' = None /\ prepared' = None
    BY <2>1
  <2>4. pc'[r] = "body" => prepared' = None
    BY <2>1
  <2> QED BY <2>2, <2>3, <2>4
<1>2. CASE r # p
  <2>1. pc'[r] \in {"idle", "wait", "relock", "read", "release"}
    BY <1>2, Alone DEF Typed, TypeOK
  <2> QED BY <2>1
<1> QED BY <1>1, <1>2

-----------------------------------------------------------------------------
(* The steps that write a file, one lemma each                             *)

LEMMA FinishNothingSafe ==
  ASSUME IInv, NEW p \in Procs, FinishNothing(p)
  PROVE  DiskSafe' /\ Knows'
<1> USE DEF IInv, DiskSafe
<1>1. UNCHANGED <<wiki, active, epoch, journal, tail, nextTx>> /\ active = None
  BY DEF FinishNothing
<1>2. prepared' = None
  BY <1>1 DEF FinishNothing, Markers, Journalled
<1>3. Receipts' /\ Markers' /\ Epochs'
  BY <1>1, <1>2, JournalSame DEF Receipts, Markers, Epochs
<1>4. \A q \in Pages : Old(q)' = Old(q)
  BY <1>1 DEF Old
<1>5. Explained'
  BY <1>1, <1>4, JournalSame DEF Explained
<1>6. Knows'
  <2> SUFFICES ASSUME NEW r \in Procs PROVE Knows!(r)'
    BY DEF Knows
  <2>1. pc[p] = "finish" /\ pc' = [pc EXCEPT ![p] = AfterFinish(p)]
    BY DEF FinishNothing, Goto
  <2>2. CASE r = p
    BY <1>1, <1>2, <2>1, <2>2 DEF AfterFinish, Typed, TypeOK
  <2>3. CASE r # p
    BY <2>1, <2>3, Alone DEF Exclusive, Typed, TypeOK
  <2> QED BY <2>2, <2>3
<1> QED BY <1>1, <1>3, <1>5, <1>6, JournalSame

LEMMA PrepareSafe ==
  ASSUME IInv, NEW p \in Procs, Prepare(p)
  PROVE  DiskSafe' /\ Knows'
<1> USE DEF IInv, DiskSafe
<1>1. /\ UNCHANGED <<wiki, active, epoch, journal, tail, nextTx>>
      /\ pc[p] = "finish" /\ active # None /\ prepared = None
      /\ pc' = [pc EXCEPT ![p] = "setEpoch"]
  BY DEF Prepare, Goto
<1>2. /\ prepared'.tx = active.tx
      /\ prepared'.changes = Changed(active.before)
      /\ prepared'.epoch = epoch + Advance(prepared'.changes)
  BY DEF Prepare, Advance, Typed, TypeOK
<1>3. prepared' # None
  <2>1. Typed'
    BY TypedStep DEF Next, Step, Finish
  <2> QED BY <1>1, <2>1 DEF Typed, TypeOK, Staged
<1>4. Receipts'
  BY <1>1, JournalSame DEF Receipts
<1>5. Markers'
  BY <1>1, <1>2, <1>3, JournalSame DEF Markers, Changed
<1>6. Epochs'
  BY <1>1, <1>2, <1>3, JournalSame DEF Epochs, Markers
<1>7. \A q \in Pages : Old(q)' = Old(q)
  BY <1>1, JournalSame DEF Old
<1>8. Explained'
  BY <1>1, <1>7, JournalSame DEF Explained
<1>9. Knows'
  BY <1>1, KnowsAlone DEF Exclusive
<1> QED BY <1>1, <1>4, <1>5, <1>6, <1>8, <1>9, JournalSame

LEMMA SetEpochSafe ==
  ASSUME IInv, NEW p \in Procs, SetEpoch(p)
  PROVE  DiskSafe' /\ Knows'
<1> USE DEF IInv, DiskSafe
<1>1. /\ UNCHANGED <<wiki, active, prepared, journal, tail, nextTx>>
      /\ pc[p] = "setEpoch" /\ pc' = [pc EXCEPT ![p] = "append"]
      /\ epoch' = prepared.epoch /\ prepared # None
  BY DEF SetEpoch, Goto, Typed, Staged
<1>2. Receipts' /\ Markers' /\ Epochs'
  BY <1>1, JournalSame DEF Receipts, Markers, Epochs, Changed
<1>3. \A q \in Pages : Old(q)' = Old(q)
  BY <1>1, JournalSame DEF Old
<1>4. Explained'
  BY <1>1, <1>3, JournalSame DEF Explained
<1>5. Knows'
  BY <1>1, Alone DEF Knows, Exclusive, Typed, TypeOK
<1> QED BY <1>1, <1>2, <1>4, <1>5, JournalSame

LEMMA DropActiveSafe ==
  ASSUME IInv, NEW p \in Procs, DropActive(p)
  PROVE  DiskSafe' /\ Knows'
<1> USE DEF IInv, DiskSafe
<1>1. /\ UNCHANGED <<wiki, prepared, epoch, journal, tail, nextTx>>
      /\ pc[p] = "dropActive" /\ pc' = [pc EXCEPT ![p] = "dropPrepared"]
      /\ active' = None /\ active # None /\ prepared # None
      /\ Receipted(prepared.tx) /\ prepared.tx = active.tx
  BY DEF DropActive, Goto, Typed, Staged, Knows, Markers
<1>2. Receipts'
  BY <1>1, JournalSame DEF Receipts
<1>3. Markers' /\ Epochs'
  BY <1>1, JournalSame DEF Markers, Epochs
<1>4. \A q \in Pages : Old(q)' = Old(q)
  BY <1>1, JournalSame DEF Old
<1>5. Explained'
  BY <1>1, <1>4, JournalSame DEF Explained
<1>6. Knows'
  BY <1>1, Alone DEF Knows, Exclusive, Typed, TypeOK
<1> QED BY <1>1, <1>2, <1>3, <1>5, <1>6, JournalSame

LEMMA DropPreparedSafe ==
  ASSUME IInv, NEW p \in Procs, DropPrepared(p)
  PROVE  DiskSafe' /\ Knows'
<1> USE DEF IInv, DiskSafe
<1>1. /\ UNCHANGED <<wiki, active, epoch, journal, tail, nextTx>>
      /\ pc[p] = "dropPrepared" /\ pc' = [pc EXCEPT ![p] = AfterFinish(p)]
      /\ prepared' = None /\ active = None /\ prepared # None
      /\ Receipted(prepared.tx)
  BY DEF DropPrepared, Goto, Typed, Staged, Knows, Markers
<1>2. Receipts' /\ Markers' /\ Epochs'
  BY <1>1, JournalSame DEF Receipts, Markers, Epochs
<1>3. \A q \in Pages : Old(q)' = Old(q)
  BY <1>1 DEF Old
<1>4. Explained'
  BY <1>1, <1>3, JournalSame DEF Explained
<1>5. Knows'
  <2>1. AfterFinish(p) \in {"begin", "downgrade", "release"}
    BY DEF AfterFinish
  <2> QED BY <1>1, <2>1, KnowsAlone DEF Exclusive
<1> QED BY <1>1, <1>2, <1>4, <1>5, JournalSame

LEMMA DieInAppendSafe ==
  ASSUME TornTails = {"fragment"}, IInv, NEW p \in Procs, NEW kind \in TornTails,
         DieInAppend(p, kind)
  PROVE  DiskSafe' /\ Knows'
<1> USE DEF IInv, DiskSafe
<1>1. /\ UNCHANGED <<wiki, active, prepared, epoch, journal, nextTx>>
      /\ tail' = Fragment /\ pc' = [pc EXCEPT ![p] = "idle"]
  BY DEF DieInAppend, Drop, Goto, Torn
<1>2. Receipts' /\ Markers' /\ Epochs'
  BY <1>1, JournalSame DEF Receipts, Markers, Epochs, Changed
<1>3. \A q \in Pages : Old(q)' = Old(q)
  BY <1>1, JournalSame DEF Old
<1>4. Explained'
  BY <1>1, <1>3, JournalSame DEF Explained
<1>5. Knows'
  BY <1>1, JournalSame DEF Knows, Typed, TypeOK
<1> QED BY <1>1, <1>2, <1>4, <1>5, JournalSame

LEMMA BeginSafe ==
  ASSUME IInv, NEW p \in Procs, Begin(p)
  PROVE  DiskSafe' /\ Knows'
<1> USE DEF IInv, DiskSafe
<1>1. /\ UNCHANGED <<wiki, prepared, epoch, journal, tail>>
      /\ pc[p] = "begin" /\ pc' = [pc EXCEPT ![p] = "body"]
      /\ active = None /\ prepared = None
      /\ nextTx' = nextTx + 1 /\ nextTx \in Nat \ {0}
  BY DEF Begin, Goto, Typed, TypeOK, Knows
<1>2. active' # None /\ active'.tx = nextTx
  <2>1. Typed'
    BY TypedStep DEF Next, Step
  <2> QED BY <1>1, <2>1 DEF Begin, Typed, TypeOK, Staged
<1>3. ~Receipted(nextTx)
  <2>1. \A i \in 1..Len(journal) : journal[i].tx \in Nat /\ journal[i].tx < nextTx
    BY RecordFields DEF Receipts, Typed
  <2> QED BY <1>1, <2>1 DEF Receipted
<1>4. Receipts'
  <2>1. \A i \in 1..Len(journal) : journal[i].tx \in Nat
    BY RecordFields DEF Typed
  <2> QED BY <1>1, <1>2, <2>1, JournalSame DEF Receipts
<1>5. Markers' /\ Epochs'
  BY <1>1, <1>2, <1>3, JournalSame DEF Markers, Epochs
<1>6. \A q \in Pages : q \in DOMAIN active'.before => active'.before[q] = wiki[q]
  BY DEF Begin
<1>7. \A q \in Pages : Old(q)' = Old(q)
  BY <1>1, <1>6 DEF Old
<1>8. Explained'
  BY <1>1, <1>7, JournalSame DEF Explained
<1>9. Knows'
  BY <1>1, KnowsAlone DEF Exclusive
<1> QED BY <1>1, <1>4, <1>5, <1>8, <1>9, JournalSame

LEMMA TouchSafe ==
  ASSUME IInv, NEW p \in Procs, NEW q \in Pages, Touch(p, q)
  PROVE  DiskSafe' /\ Knows'
<1> USE DEF IInv, DiskSafe
<1>1. /\ UNCHANGED <<wiki, prepared, epoch, journal, tail, nextTx, pc>>
      /\ pc[p] = "body" /\ active # None /\ active \in Marker /\ prepared = None
      /\ q \notin DOMAIN active.before
  BY DEF Touch, local, Typed, TypeOK, Staged, Knows
<1>2. /\ active' # None /\ active'.tx = active.tx
      /\ active'.before = [r \in DOMAIN active.before \cup {q} |->
                             IF r = q THEN wiki[q] ELSE active.before[r]]
  <2>1. Typed'
    BY TypedStep DEF Next, Body
  <2>2. active' # None
    BY <1>1, <2>1 DEF Typed, TypeOK, Staged
  <2> QED BY <1>1, <2>2, TouchType DEF Touch, Typed, TypeOK
<1>3. Receipts' /\ Markers' /\ Epochs'
  BY <1>1, <1>2, JournalSame DEF Receipts, Markers, Epochs
<1>4. \A r \in Pages : Old(r)' = Old(r)
  BY <1>1, <1>2, JournalSame DEF Old
<1>5. Explained'
  BY <1>1, <1>4, JournalSame DEF Explained
<1>6. Knows'
  BY <1>1, Alone DEF Knows, Exclusive
<1> QED BY <1>1, <1>3, <1>5, <1>6, JournalSame

LEMMA WriteSafe ==
  ASSUME IInv, NEW p \in Procs, NEW q \in Pages, NEW c \in Text, Write(p, q, c)
  PROVE  DiskSafe' /\ Knows'
<1> USE DEF IInv, DiskSafe
<1>1. /\ UNCHANGED <<active, prepared, epoch, journal, tail, nextTx, pc>>
      /\ pc[p] = "body" /\ active # None /\ prepared = None
      /\ q \in DOMAIN active.before /\ ~Receipted(active.tx)
      /\ wiki' = [wiki EXCEPT ![q] = c] /\ wiki \in [Pages -> Text]
  BY DEF Write, local, Typed, TypeOK, Staged, Knows, Markers
<1>2. Receipts' /\ Markers' /\ Epochs'
  BY <1>1, JournalSame DEF Receipts, Markers, Epochs
<1>3. \A r \in Pages : Old(r)' = Old(r)
  BY <1>1, JournalSame DEF Old
<1>4. Explained'
  BY <1>1, <1>3, JournalSame DEF Explained
<1>5. Knows'
  BY <1>1, Alone DEF Knows, Exclusive
<1> QED BY <1>1, <1>2, <1>4, <1>5, JournalSame

\* What appending one record does to every reading of the journal.
LEMMA JournalGrows ==
  ASSUME TypeOK, prepared \in Record, journal' = Append(journal, prepared)
  PROVE  /\ Len(journal') = Len(journal) + 1
         /\ \A i \in 1..Len(journal) : journal'[i] = journal[i]
         /\ journal'[Len(journal) + 1] = prepared
         /\ \A t : Receipted(t)' <=> (Receipted(t) \/ t = prepared.tx)
         /\ LastEpoch' = prepared.epoch
<1>1. journal \in Seq(Record)
  BY DEF TypeOK
<1>2. /\ Len(journal') = Len(journal) + 1 /\ Len(journal) \in Nat
      /\ \A i \in 1..Len(journal) : journal'[i] = journal[i]
      /\ journal'[Len(journal) + 1] = prepared
  BY <1>1
<1>3. \A t : Receipted(t)' <=> (Receipted(t) \/ t = prepared.tx)
  BY <1>2 DEF Receipted
<1>4. LastEpoch' = prepared.epoch
  BY <1>1, <1>2 DEF LastEpoch
<1> QED BY <1>2, <1>3, <1>4

\* Explains after an append: the new record decides the pages it changes.
LEMMA ExplainsGrows ==
  ASSUME TypeOK, prepared \in Record, journal' = Append(journal, prepared), NEW q, NEW c
  PROVE  Explains(q, c)' <=> IF q \in DOMAIN prepared.changes
                               THEN prepared.changes[q].after = c ELSE Explains(q, c)
<1>0. PICK n \in Nat : n = Len(journal)
  BY DEF TypeOK
<1>1. /\ Len(journal') = n + 1
      /\ \A i \in 1..n : journal'[i] = journal[i]
      /\ journal'[n + 1] = prepared
  BY <1>0, JournalGrows
<1>2. /\ 1..Len(journal)' = 1..n \cup {n + 1} /\ 1..Len(journal) = 1..n
      /\ \A i \in 1..n : i <= n + 1 /\ ~(n + 1 <= i)
      /\ n + 1 <= n + 1
  BY <1>0, <1>1
<1>3. CASE q \in DOMAIN prepared.changes
  <2>1. LastTouch(q, n + 1)'
    BY <1>1, <1>2, <1>3 DEF LastTouch
  <2>2. \A i \in 1..n : ~LastTouch(q, i)'
    BY <1>1, <1>2, <1>3 DEF LastTouch
  <2> QED BY <1>1, <1>2, <1>3, <2>1, <2>2 DEF Explains
<1>4. CASE q \notin DOMAIN prepared.changes
  <2>1. \A i \in 1..n : LastTouch(q, i)' <=> LastTouch(q, i)
    BY <1>1, <1>2, <1>4 DEF LastTouch
  <2>2. ~LastTouch(q, n + 1)'
    BY <1>1, <1>4 DEF LastTouch
  <2> QED BY <1>1, <1>2, <1>4, <2>1, <2>2 DEF Explains
<1> QED BY <1>3, <1>4

LEMMA AppendSafe ==
  ASSUME IInv, NEW p \in Procs, AppendRecord(p)
  PROVE  DiskSafe' /\ Knows'
<1> USE DEF IInv, DiskSafe
<1>1. /\ UNCHANGED <<wiki, active, prepared, epoch, nextTx>>
      /\ pc[p] = "append" /\ pc' = [pc EXCEPT ![p] = "dropActive"]
      /\ active # None /\ prepared # None /\ prepared \in Record /\ active \in Marker
      /\ prepared.tx = active.tx /\ prepared.changes = Changed(active.before)
      /\ epoch = prepared.epoch
  BY DEF AppendRecord, Goto, Typed, TypeOK, Staged, Knows, Markers
<1>2. Journalled(prepared.tx) <=> Receipted(prepared.tx)
  BY DEF Journalled, Markers
<1>3. CASE Receipted(prepared.tx)
  <2>1. UNCHANGED <<journal, tail>>
    BY <1>2, <1>3 DEF AppendRecord
  <2>2. DiskSafe'
    BY <1>1, <2>1, DiskSame DEF disk
  <2>3. Knows'
    BY <1>1, <1>3, <2>1, Alone, JournalSame DEF Knows, Exclusive, Typed, TypeOK
  <2> QED BY <2>2, <2>3
<1>4. CASE ~Receipted(prepared.tx)
  <2>1. journal' = Append(journal, prepared) /\ tail' = None
    BY <1>2, <1>4 DEF AppendRecord
  <2>2. /\ Len(journal') = Len(journal) + 1 /\ Len(journal) \in Nat
        /\ \A i \in 1..Len(journal) : journal'[i] = journal[i]
        /\ journal'[Len(journal) + 1] = prepared
        /\ \A t : Receipted(t)' <=> (Receipted(t) \/ t = prepared.tx)
        /\ LastEpoch' = prepared.epoch
    BY <1>1, <2>1, JournalGrows DEF Typed, TypeOK
  <2>3. Receipts'
    <3>1. \A i \in 1..Len(journal) : journal[i].tx # prepared.tx
      BY <1>4 DEF Receipted
    <3> QED BY <1>1, <2>2, <3>1 DEF Receipts
  <2>4. Markers' /\ Epochs'
    BY <1>1, <2>1, <2>2 DEF Markers, Epochs, Changed
  <2>5. Chained'
    <3>1. prepared.epoch = LastEpoch + Advance(prepared.changes)
      BY <1>1, <1>4 DEF Epochs
    <3>2. Len(journal) = 0 => LastEpoch = 0
      BY DEF LastEpoch, Typed, TypeOK
    <3>3. Len(journal) # 0 => LastEpoch = journal[Len(journal)].epoch
      BY DEF LastEpoch
    <3>4. ASSUME NEW i \in 1..Len(journal) PROVE Chained!(i)'
      BY <2>2, <3>4 DEF Chained, Advance
    <3>5. prepared.epoch = (IF Len(journal) + 1 = 1 THEN 0 ELSE journal'[Len(journal)].epoch)
                           + Advance(prepared.changes)
      BY <2>2, <3>1, <3>2, <3>3
    <3> QED BY <2>2, <3>4, <3>5 DEF Chained, Advance
  <2>6. Explained'
    <3> SUFFICES ASSUME NEW q \in Pages PROVE Explains(q, Old(q))'
      BY DEF Explained
    <3>1. Old(q)' = wiki[q]
      BY <1>1, <2>2 DEF Old
    <3>2. /\ DOMAIN prepared.changes = {r \in DOMAIN active.before : active.before[r] # wiki[r]}
          /\ \A r \in DOMAIN prepared.changes : prepared.changes[r].after = wiki[r]
      <4>1. wiki \in [Pages -> Text]
        BY DEF Typed, TypeOK
      <4>2. \A r \in DOMAIN Changed(active.before) :
              Changed(active.before)[r] = [before |-> active.before[r], after |-> wiki[r]]
        BY <1>1, <4>1, ChangedType
      <4>3. \A r \in DOMAIN Changed(active.before) : Changed(active.before)[r].after = wiki[r]
        <5> SUFFICES ASSUME NEW r \in DOMAIN Changed(active.before)
                     PROVE  Changed(active.before)[r].after = wiki[r]
          OBVIOUS
        <5>1. Changed(active.before)[r] = [before |-> active.before[r], after |-> wiki[r]]
          BY <4>2
        <5> QED BY <5>1
      <4>4. DOMAIN Changed(active.before) = {r \in DOMAIN active.before : active.before[r] # wiki[r]}
        BY <1>1, <4>1, ChangedType
      <4> QED BY <1>1, <4>3, <4>4
    <3>3. q \notin DOMAIN prepared.changes => Old(q) = wiki[q]
      BY <1>1, <1>4, <3>2 DEF Old
    <3>4. Explains(q, Old(q))
      BY DEF Explained
    <3>5. PICK c : c = wiki[q]
      OBVIOUS
    <3>6. Explains(q, c)'
      BY <1>1, <2>1, <3>2, <3>3, <3>4, <3>5, ExplainsGrows DEF Typed
    <3> QED BY <1>1, <3>1, <3>5, <3>6 DEF Explains
  <2>7. Knows'
    BY <1>1, <2>2, Alone DEF Knows, Exclusive, Typed, TypeOK
  <2> QED BY <2>3, <2>4, <2>5, <2>6, <2>7
<1> QED BY <1>3, <1>4

-----------------------------------------------------------------------------
(* The invariant, and the theorems it gives                                *)

\* The remaining steps change no file.
LEMMA QuietSafe ==
  ASSUME IInv, NEW p \in Procs, UNCHANGED <<disk, nextTx>>,
         NEW l \in PC, pc' = [pc EXCEPT ![p] = l],
         \/ l \in {"idle", "wait", "record", "finish", "release", "relock", "read"}
         \/ l = "setEpoch" /\ pc[p] = "finish"
  PROVE  DiskSafe' /\ Knows'
<1>1. DiskSafe'
  BY DiskSame DEF IInv
<1>2. UNCHANGED <<active, prepared, epoch, journal>>
  BY DEF disk
<1>3. Knows'
  BY <1>2, JournalSame DEF IInv, Knows, Typed, TypeOK
<1> QED BY <1>1, <1>3

LEMMA SafeStep ==
  ASSUME TornTails = {"fragment"}, IInv, [Next]_vars
  PROVE  DiskSafe' /\ Knows'
<1>1. ASSUME NEW p \in Procs, NEW j \in Tracking \cup {"read"}, Enter(p, j)
      PROVE  DiskSafe' /\ Knows'
  BY <1>1, QuietSafe DEF Enter, Goto
<1>2. ASSUME NEW p \in Procs,
             Acquire(p) \/ AcquireTimeout(p) \/ RecordOwner(p) \/ FinishPrepared(p) \/ Release(p)
      PROVE  DiskSafe' /\ Knows'
  BY <1>2, QuietSafe DEF Acquire, AcquireTimeout, RecordOwner, FinishPrepared, Release, Goto
<1>3. ASSUME NEW p \in Procs, NEW ph \in {"commit", "fail"}, BodyEnds(p, ph)
      PROVE  DiskSafe' /\ Knows'
  BY <1>3, QuietSafe DEF BodyEnds, Goto
<1>4. ASSUME NEW p \in Procs,
             DowngradeUnlock(p) \/ DowngradeRelock(p) \/ ReadEnds(p)
      PROVE  DiskSafe' /\ Knows'
  BY <1>4, QuietSafe DEF DowngradeUnlock, DowngradeRelock, ReadEnds, Goto
<1>5. ASSUME NEW p \in Procs, Kill(p) \/ FinishError(p) PROVE DiskSafe' /\ Knows'
  BY <1>5, QuietSafe DEF Kill, FinishError, Drop, Goto
<1>6. ASSUME UNCHANGED vars PROVE DiskSafe' /\ Knows'
  <2>1. UNCHANGED <<disk, nextTx, pc, active, prepared, epoch, journal>>
    BY <1>6 DEF vars, disk
  <2> QED BY <2>1, DiskSame, JournalSame DEF IInv, Knows
<1> QED
  BY <1>1, <1>2, <1>3, <1>4, <1>5, <1>6, FinishNothingSafe, PrepareSafe, SetEpochSafe,
     AppendSafe, DropActiveSafe, DropPreparedSafe, BeginSafe, TouchSafe, WriteSafe,
     DieInAppendSafe
     DEF Next, Step, Finish, Body, Fault

\* IInv is inductive as long as a torn append leaves at most a fragment.
LEMMA Inductive ==
  ASSUME TornTails = {"fragment"}
  PROVE  Spec => []IInv
<1>1. Init => IInv
  BY TypedInit, SafeInit DEF IInv
<1>2. IInv /\ [Next]_vars => IInv'
  BY TypedStep, SafeStep DEF IInv
<1> QED BY <1>1, <1>2, PTL DEF Spec

\* Kills at any point, however often and in however many processes, neither
\* lose nor duplicate a receipt.
THEOREM ExactlyOnce ==
  ASSUME TornTails = {"fragment"}
  PROVE  Spec => []ReceiptExactlyOnce
<1>1. IInv => ReceiptExactlyOnce
  BY DEF IInv, DiskSafe, Receipts, ReceiptExactlyOnce
<1> QED BY <1>1, Inductive, PTL

\* The journal accounts for every page of the vault whenever no transaction
\* is open.
THEOREM JournalComplete ==
  ASSUME TornTails = {"fragment"}
  PROVE  Spec => []JournalExplainsWiki
<1>1. IInv => JournalExplainsWiki
  BY DEF IInv, DiskSafe, Explained, Old, JournalExplainsWiki
<1> QED BY <1>1, Inductive, PTL

\* Epochs have no gap and no reuse, and the epoch file is at most one
\* prepared record ahead of the journal.
THEOREM EpochsCorrect ==
  ASSUME TornTails = {"fragment"}
  PROVE  Spec => []EpochsContiguous
<1>1. IInv => EpochsContiguous
  <2> SUFFICES ASSUME IInv PROVE EpochsContiguous
    OBVIOUS
  <2>1. epoch = LastEpoch \/ (prepared # None /\ active # None /\ epoch = prepared.epoch)
    BY DEF IInv, DiskSafe, Epochs, Markers
  <2> QED BY <2>1 DEF IInv, DiskSafe, Chained, Advance, EpochsContiguous
<1> QED BY <1>1, Inductive, PTL

\* No process ever meets the inconsistencies that recovery refuses.
THEOREM NeverRefused ==
  ASSUME TornTails = {"fragment"}
  PROVE  Spec => []RecoveryNeverRefused
<1>1. IInv => RecoveryNeverRefused
  <2> SUFFICES ASSUME IInv, prepared # None PROVE RecoveryNeverRefused
    BY DEF RecoveryNeverRefused
  <2>1. LastEpoch \in Nat
    BY LastEpochNat DEF IInv, Typed
  <2>2. epoch <= prepared.epoch
    BY <2>1 DEF IInv, DiskSafe, Epochs, Advance
  <2> QED BY <2>2 DEF IInv, DiskSafe, Markers, Journalled, RecoveryNeverRefused
<1> QED BY <1>1, Inductive, PTL

-----------------------------------------------------------------------------
(* Readers                                                                 *)

\* The shared side of the fence: while it is held nobody has the exclusive
\* side, so nothing a reader saw when it got its LOCK_SH can have moved.
Reading ==
  /\ sh # {} => ex = None
  /\ \A p \in Procs : pc[p] = "read" => p \in sh /\ seen[p] = epoch

LEMMA ReadingStep ==
  ASSUME Typed, Reading, [Next]_vars
  PROVE  Reading'
<1> USE DEF Typed, TypeOK, Reading, Goto, disk, flock, local
<1>a. None \notin Procs
  BY CorpusAssumption
<1>b. ASSUME NEW p \in Procs, pc[p] \in Exclusive
      PROVE  sh = {} /\ \A r \in Procs : pc[r] # "read"
  BY <1>a, <1>b DEF Staged
<1>1. ASSUME NEW p \in Procs, NEW j \in Tracking \cup {"read"}, Enter(p, j) PROVE Reading'
  BY <1>1 DEF Enter
<1>2. ASSUME NEW p \in Procs, Acquire(p) \/ AcquireTimeout(p) PROVE Reading'
  BY <1>2 DEF Acquire, AcquireTimeout
<1>3. ASSUME NEW p \in Procs, RecordOwner(p) \/ Begin(p) PROVE Reading'
  BY <1>3, <1>b DEF RecordOwner, Begin, Exclusive
<1>4. ASSUME NEW p \in Procs, Finish(p) PROVE Reading'
  <2>1. /\ pc[p] \in {"finish", "setEpoch", "append", "dropActive", "dropPrepared"}
        /\ \E l \in PC \ {"read", "relock"} : pc' = [pc EXCEPT ![p] = l]
        /\ UNCHANGED <<ex, sh, seen>>
    BY <1>4 DEF Finish, FinishNothing, FinishPrepared, Prepare, SetEpoch, AppendRecord,
                DropActive, DropPrepared, AfterFinish
  <2> QED BY <2>1, <1>b DEF Exclusive
<1>5. ASSUME NEW p \in Procs, Body(p) PROVE Reading'
  <2>1. pc[p] = "body" /\ UNCHANGED <<pc, ex, sh, seen>>
    BY <1>5 DEF Body, Touch, Write
  <2> QED BY <2>1, <1>b DEF Exclusive
<1>6. ASSUME NEW p \in Procs, NEW ph \in {"commit", "fail"}, BodyEnds(p, ph) PROVE Reading'
  BY <1>6 DEF BodyEnds
<1>7. ASSUME NEW p \in Procs, Release(p) \/ ReadEnds(p) PROVE Reading'
  BY <1>7 DEF Release, ReadEnds
<1>8. ASSUME NEW p \in Procs, DowngradeUnlock(p) \/ DowngradeRelock(p) PROVE Reading'
  BY <1>8, <1>b DEF DowngradeUnlock, DowngradeRelock
<1>9. ASSUME NEW p \in Procs, Kill(p) \/ FinishError(p) PROVE Reading'
  BY <1>9 DEF Kill, FinishError, Drop
<1>10. ASSUME NEW p \in Procs, NEW kind \in TornTails, DieInAppend(p, kind) PROVE Reading'
  BY <1>10 DEF DieInAppend, Drop
<1>11. ASSUME UNCHANGED vars PROVE Reading'
  BY <1>11 DEF vars
<1> QED
  BY <1>1, <1>2, <1>3, <1>4, <1>5, <1>6, <1>7, <1>8, <1>9, <1>10, <1>11
     DEF Next, Step, Fault

\* Only a process that holds LOCK_EX touches the vault or the fence's files.
LEMMA DiskStep ==
  ASSUME Typed, Reading, [Next]_vars, sh # {}
  PROVE  UNCHANGED disk
<1> USE DEF Typed, TypeOK, Staged, Exclusive
<1>a. None \notin Procs
  BY CorpusAssumption
<1>b. ASSUME NEW p \in Procs PROVE pc[p] \notin Exclusive
  BY <1>a, <1>b DEF Reading
<1>1. ASSUME NEW p \in Procs, NEW j \in Tracking \cup {"read"}, Enter(p, j) PROVE UNCHANGED disk
  BY <1>1 DEF Enter
<1>2. ASSUME NEW p \in Procs, Acquire(p) \/ AcquireTimeout(p) PROVE UNCHANGED disk
  BY <1>2 DEF Acquire, AcquireTimeout
<1>3. ASSUME NEW p \in Procs, Begin(p) \/ Finish(p) \/ Body(p) \/ (\E k \in TornTails : DieInAppend(p, k))
      PROVE  FALSE
  BY <1>3, <1>b DEF Begin, Finish, FinishNothing, FinishPrepared, Prepare, SetEpoch, AppendRecord,
                    DropActive, DropPrepared, Body, Touch, Write, DieInAppend
<1>4. ASSUME NEW p \in Procs, \/ RecordOwner(p) \/ Release(p) \/ ReadEnds(p)
                              \/ DowngradeUnlock(p) \/ DowngradeRelock(p)
                              \/ Kill(p) \/ FinishError(p)
                              \/ \E ph \in {"commit", "fail"} : BodyEnds(p, ph)
      PROVE  UNCHANGED disk
  BY <1>4 DEF RecordOwner, Release, ReadEnds, DowngradeUnlock, DowngradeRelock, Kill, FinishError,
              BodyEnds
<1>5. ASSUME UNCHANGED vars PROVE UNCHANGED disk
  BY <1>5 DEF vars, disk
<1> QED BY <1>1, <1>2, <1>3, <1>4, <1>5 DEF Next, Step, Fault

\* stable_corpus() holds a stable epoch for the whole traversal, however the
\* downgrade was scheduled: from its LOCK_SH on, a reader's epoch is the one on
\* disk, and while anybody reads, neither the vault nor the markers, the epoch or
\* the journal move.  (That no unfinished work is among them when the traversal
\* begins is more, and not so: DowngradeUnlock.)
THEOREM ReadersHoldStill ==
  Spec => /\ [](\A p \in Procs : pc[p] = "read" => seen[p] = epoch)
          /\ [][sh # {} => UNCHANGED disk]_vars
<1>1. Init => Typed /\ Reading
  BY TypedInit DEF Init, Reading
<1>2. Typed /\ Reading /\ [Next]_vars => Typed' /\ Reading'
  BY TypedStep, ReadingStep
<1>3. Typed /\ Reading => \A p \in Procs : pc[p] = "read" => seen[p] = epoch
  BY DEF Reading
<1>4. Typed /\ Reading /\ [Next]_vars => [sh # {} => UNCHANGED disk]_vars
  BY DiskStep
<1> QED BY <1>1, <1>2, <1>3, <1>4, PTL DEF Spec

-----------------------------------------------------------------------------
(* Refinement of the ledger                                                *)

\* The journal determines each page's text.
LEMMA ExplainsUnique ==
  ASSUME TypeOK, NEW q, NEW c, NEW d, Explains(q, c), Explains(q, d)
  PROVE  c = d
<1>1. \A i, j \in 1..Len(journal) : LastTouch(q, i) /\ LastTouch(q, j) => i = j
  BY DEF LastTouch
<1>2. \A i \in 1..Len(journal) : LastTouch(q, i) => q \in DOMAIN journal[i].changes
  BY DEF LastTouch
<1> QED BY <1>1, <1>2 DEF Explains

LEMMA ReplayedOld == IInv => Replayed = [q \in Pages |-> Old(q)]
<1> SUFFICES ASSUME IInv, NEW q \in Pages PROVE (CHOOSE c \in Text : Explains(q, c)) = Old(q)
  BY DEF Replayed
<1>1. Old(q) \in Text
  BY MarkerFields DEF Old, IInv, Typed, TypeOK
<1>2. Explains(q, Old(q))
  BY DEF IInv, DiskSafe, Explained
<1>3. TypeOK
  BY DEF IInv, Typed
<1>4. PICK o : o = Old(q)
  OBVIOUS
<1>5. \A c \in Text : Explains(q, c) => c = o
  BY <1>2, <1>3, <1>4, ExplainsUnique
<1>6. o \in Text /\ Explains(q, o)
  BY <1>1, <1>2, <1>4
<1> QED BY <1>4, <1>5, <1>6

\* The abstract state only moves when a record is appended.
LEMMA OnlyAppendMoves ==
  ASSUME [Next]_vars, journal' # journal
  PROVE  \E p \in Procs : AppendRecord(p)
<1> USE DEF disk
<1>1. ASSUME NEW p \in Procs, Finish(p) PROVE AppendRecord(p)
  BY <1>1 DEF Finish, FinishNothing, FinishPrepared, Prepare, SetEpoch, DropActive, DropPrepared
<1>2. ASSUME NEW p \in Procs, Body(p) PROVE FALSE
  BY <1>2 DEF Body, Touch, Write
<1>3. ASSUME NEW p \in Procs, Fault(p) PROVE FALSE
  BY <1>3 DEF Fault, Kill, FinishError, DieInAppend, Drop
<1>4. ASSUME NEW p \in Procs, NEW j \in Tracking \cup {"read"},
             Enter(p, j) \/ Acquire(p) \/ AcquireTimeout(p)
      PROVE  FALSE
  BY <1>4 DEF Enter, Acquire, AcquireTimeout
<1>5. ASSUME NEW p \in Procs, Step(p) PROVE Finish(p)
  BY <1>5 DEF Step, RecordOwner, Begin, Release, BodyEnds, DowngradeUnlock,
              DowngradeRelock, ReadEnds
<1>6. journal # journal' => ~UNCHANGED vars
  BY DEF vars
<1> QED
  BY <1>1, <1>2, <1>3, <1>4, <1>5, <1>6 DEF Next

\* The whole protocol, kills and recoveries included, implements the ledger.
THEOREM Refinement ==
  ASSUME TornTails = {"fragment"}
  PROVE  Spec => ImplementsLedger
<1>1. Init => Ledger!Init
  <2> SUFFICES ASSUME Init PROVE Ledger!Init
    OBVIOUS
  <2>1. IInv
    BY TypedInit, SafeInit DEF IInv
  <2>2. Replayed = InitialWiki
    BY <2>1, ReplayedOld, CorpusAssumption DEF Init, Old
  <2>3. LastEpoch = 0 /\ {journal[i].tx : i \in 1..Len(journal)} = {}
    BY DEF Init, LastEpoch
  <2> QED BY <2>2, <2>3 DEF Ledger!Init
<1>2. IInv /\ IInv' /\ [Next]_vars => [Ledger!Next]_Ledger!vars
  <2> SUFFICES ASSUME IInv, IInv', [Next]_vars PROVE [Ledger!Next]_Ledger!vars
    OBVIOUS
  <2>1. CASE journal' = journal
    <3>1. Replayed' = Replayed
      BY <2>1 DEF Replayed, Explains, LastTouch
    <3> QED BY <2>1, <3>1 DEF Ledger!vars, LastEpoch
  <2>2. CASE journal' # journal
    <3>1. PICK p \in Procs : AppendRecord(p)
      BY <2>2, OnlyAppendMoves
    <3>2. /\ UNCHANGED <<wiki, active, prepared>>
          /\ active # None /\ active \in Marker /\ prepared # None /\ prepared \in Record
          /\ prepared.tx = active.tx /\ prepared.changes = Changed(active.before)
      BY <3>1 DEF AppendRecord, IInv, Typed, TypeOK, Staged, DiskSafe, Markers
    <3>3. journal' = Append(journal, prepared) /\ ~Receipted(prepared.tx)
      BY <2>2, <3>1 DEF AppendRecord, Journalled
    <3>4. /\ Len(journal') = Len(journal) + 1 /\ Len(journal) \in Nat
          /\ \A i \in 1..Len(journal) : journal'[i] = journal[i]
          /\ journal'[Len(journal) + 1] = prepared
          /\ \A t : Receipted(t)' <=> (Receipted(t) \/ t = prepared.tx)
          /\ LastEpoch' = prepared.epoch
      <4>1. TypeOK /\ Len(journal) \in Nat
        BY DEF IInv, Typed, TypeOK
      <4> QED BY <3>2, <3>3, <4>1, JournalGrows
    <3>5. /\ Replayed = [q \in Pages |-> Old(q)]
          /\ Replayed' = [q \in Pages |-> Old(q)']
      <4>1. (IInv => Replayed = [q \in Pages |-> Old(q)])'
        BY ReplayedOld, PTL
      <4> QED BY <4>1, ReplayedOld
    <3>6. wiki \in [Pages -> Text]
      BY DEF IInv, Typed, TypeOK
    <3>7. \A q \in Pages : Old(q)' = wiki[q]
      BY <3>2, <3>4 DEF Old
    <3>8. Replayed' = wiki
      BY <3>5, <3>6, <3>7
    <3>9. DOMAIN prepared.changes = {q \in DOMAIN active.before : active.before[q] # wiki[q]}
      BY <3>2, <3>6, ChangedType
    <3>10. Replayed' = Replayed <=> DOMAIN prepared.changes = {}
      <4>1. DOMAIN active.before \subseteq Pages
        BY <3>2, MarkerFields
      <4>2. \A q \in Pages : Old(q) = IF q \in DOMAIN active.before THEN active.before[q]
                                      ELSE wiki[q]
        BY <3>2, <3>3 DEF Old
      <4>3. (\A q \in Pages : Old(q) = wiki[q]) <=> DOMAIN prepared.changes = {}
        BY <3>9, <4>1, <4>2
      <4> QED BY <3>5, <3>6, <3>8, <4>3
    <3>11. LastEpoch' = IF Replayed' = Replayed THEN LastEpoch ELSE LastEpoch + 1
      <4>1. prepared.epoch = LastEpoch + Advance(prepared.changes) /\ LastEpoch \in Nat
        BY <3>2, <3>3, LastEpochNat DEF IInv, Typed, DiskSafe, Epochs
      <4> QED BY <3>4, <3>10, <4>1 DEF Advance
    <3>12. /\ {journal[i].tx : i \in 1..Len(journal)}'
                = {journal[i].tx : i \in 1..Len(journal)} \cup {prepared.tx}
           /\ prepared.tx \notin {journal[i].tx : i \in 1..Len(journal)}
      BY <3>3, <3>4 DEF Receipted
    <3>13. Ledger!Commit
      BY <3>6, <3>8, <3>11, <3>12 DEF Ledger!Commit
    <3> QED BY <3>13 DEF Ledger!Next
  <2> QED BY <2>1, <2>2
<1> QED BY <1>1, <1>2, Inductive, PTL DEF Spec, ImplementsLedger, Ledger!Spec
=============================================================================
