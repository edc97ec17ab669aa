-------------------------- MODULE CorpusTransaction --------------------------
(***************************************************************************)
(* The corpus-wide fencing and receipt protocol of                         *)
(* src/src/okengine/corpus_transaction.py.                                 *)
(*                                                                         *)
(* Every governed writer of the Markdown vault (an MCP write tool, an      *)
(* operation, a repair job) runs inside `mutation()`, every audit or       *)
(* backup traversal inside `stable_corpus()`.  Both take one advisory      *)
(* flock.  A writer leaves an active marker (active.json) while it works,  *)
(* and finishes by writing, in this order: the prepared commit             *)
(* (commit.json), the epoch, one journal record, then it unlinks the two   *)
(* markers.  A process may be killed between any two of these writes; the  *)
(* next participant finishes the receipt before it does anything else.     *)
(*                                                                         *)
(* Each action below is one durable file operation together with the       *)
(* in-memory work up to the next one.  Page texts are members of Contents: *)
(* the protocol only compares digests, and a digest is modelled by the     *)
(* text it identifies.                                                     *)
(***************************************************************************)
EXTENDS Naturals, Sequences, FiniteSets

CONSTANTS
  Procs,            \* processes that enter mutation() or stable_corpus()
  Pages,            \* canonical Markdown pages under wiki/
  Contents,         \* texts a page may hold
  Absent,           \* the page does not exist (digest None in the code)
  InitialWiki,      \* the vault when the protocol was first switched on
  None,             \* a file that is not there, no holder, no owner
  Fragment,         \* an unparseable prefix of a journal line
  MaxTx,            \* bound: transactions ever begun
  MaxFaults,        \* bound: kills and I/O errors
  TornTails         \* what dying inside an append may leave: "fragment",
                    \* "unterminated" (a whole record without its newline)

VARIABLES
  wiki,      \* the vault: page -> text
  active,    \* active.json, or None
  prepared,  \* commit.json (its "record"), or None
  epoch,     \* the epoch file
  journal,   \* journal.jsonl: the newline-terminated records
  tail,      \* bytes after the last newline: None, Fragment or a record
  ex, sh,    \* the flock: exclusive holder, shared holders
  owner,     \* lock-owner.json: who last recorded ownership
  pc,        \* where each process is
  job,       \* what it entered for: "snapshot", "touched" or "read"
  phase,     \* which call of _finish_active it is heading for or in
  seen,      \* the epoch stable_corpus() yielded to it
  nextTx,    \* transaction ids come from secrets.token_hex: always fresh
  faults     \* kills and I/O errors so far

disk  == <<wiki, active, prepared, epoch, journal, tail>>
flock == <<ex, sh, owner>>
local == <<pc, job, phase, seen>>
vars  == <<wiki, active, prepared, epoch, journal, tail, ex, sh, owner,
           pc, job, phase, seen, nextTx, faults>>

-----------------------------------------------------------------------------
(* Data                                                                    *)

Text     == Contents \cup {Absent}
TxId     == Nat \ {0}
Tracking == {"snapshot", "touched"}
Change   == [before : Text, after : Text]
Marker   == [tx : TxId, tracking : Tracking,
             before : UNION {[S -> Text] : S \in SUBSET Pages}]
Record   == [tx : TxId, epoch : Nat,
             changes : UNION {[S -> Change] : S \in SUBSET Pages},
             status : {"committed", "failed", "recovered"}]

PC == {"idle", "wait", "record", "finish", "setEpoch", "append",
       "dropActive", "dropPrepared", "begin", "body", "release",
       "downgrade", "relock", "read"}

ASSUME CorpusAssumption ==
  /\ InitialWiki \in [Pages -> Text]
  /\ None \notin Procs
  /\ None \notin Marker /\ None \notin Record
  /\ Fragment \notin Record /\ Fragment # None
  /\ MaxTx \in Nat /\ MaxFaults \in Nat
  /\ TornTails \subseteq {"fragment", "unterminated"}

\* _changed(): before/after identities of every tracked page that differs.
Changed(before) ==
  [q \in {r \in DOMAIN before : before[r] # wiki[r]} |->
     [before |-> before[q], after |-> wiki[q]]]

\* The journal holds a terminated record of transaction t.
Receipted(t) == \E i \in 1..Len(journal) : journal[i].tx = t

\* _journal_transaction(): the journal is scanned line by line, so a whole
\* record that lost only its newline is found, a fragment is skipped.
Journalled(t) ==
  \/ Receipted(t)
  \/ tail \notin {None, Fragment} /\ tail.tx = t

\* Writers that have not begun their transaction yet (for the MaxTx bound).
Pending == {p \in Procs : pc[p] # "idle" /\ job[p] # "read" /\ phase[p] = "recover"}

Init ==
  /\ wiki = InitialWiki
  /\ active = None /\ prepared = None
  /\ epoch = 0 /\ journal = <<>> /\ tail = None
  /\ ex = None /\ sh = {} /\ owner = None
  /\ pc = [p \in Procs |-> "idle"]
  /\ job = [p \in Procs |-> "read"]
  /\ phase = [p \in Procs |-> "recover"]
  /\ seen = [p \in Procs |-> 0]
  /\ nextTx = 1 /\ faults = 0

Goto(p, l) == pc' = [pc EXCEPT ![p] = l]

-----------------------------------------------------------------------------
(* Entering: open the lock file and poll the flock                         *)

\* A process calls mutation(tracking=...) or stable_corpus().
Enter(p, j) ==
  /\ pc[p] = "idle"
  /\ j \in Tracking => nextTx + Cardinality(Pending) <= MaxTx
  /\ Goto(p, "wait")
  /\ job' = [job EXCEPT ![p] = j]
  /\ phase' = [phase EXCEPT ![p] = "recover"]
  /\ UNCHANGED <<disk, flock, seen, nextTx, faults>>

\* _acquire() gets LOCK_EX | LOCK_NB.
Acquire(p) ==
  /\ pc[p] = "wait"
  /\ ex = None /\ sh = {}
  /\ ex' = p
  /\ Goto(p, "record")
  /\ UNCHANGED <<disk, sh, owner, job, phase, seen, nextTx, faults>>

\* _acquire() reaches its deadline while somebody else holds the fence.
AcquireTimeout(p) ==
  /\ pc[p] = "wait"
  /\ ex # None \/ sh # {}
  /\ Goto(p, "idle")
  /\ UNCHANGED <<disk, flock, job, phase, seen, nextTx, faults>>

\* Mutant of RecordOwner: readers go straight to the downgrade.
RecordOwnerNoRecovery(p) ==
  /\ pc[p] = "record"
  /\ owner' = p
  /\ Goto(p, IF job[p] = "read" THEN "downgrade" ELSE "finish")
  /\ UNCHANGED <<disk, ex, sh, job, phase, seen, nextTx, faults>>

\* _record_lock_owner(), then _finish_active(recovered=True) is called.
RecordOwner(p) ==
  /\ pc[p] = "record"
  /\ owner' = p
  /\ Goto(p, "finish")
  /\ UNCHANGED <<disk, ex, sh, job, phase, seen, nextTx, faults>>

-----------------------------------------------------------------------------
(* _finish_active(): shared by recovery and by the end of a transaction    *)

\* Where the caller continues once _finish_active() has returned.
AfterFinish(p) ==
  IF phase[p] # "recover" THEN "release"
  ELSE IF job[p] = "read" THEN "downgrade" ELSE "begin"

\* The status that the arguments recovered= and failed= select.
StatusOf(ph) ==
  CASE ph = "recover" -> "recovered" [] ph = "fail" -> "failed" [] OTHER -> "committed"

\* Mutant of FinishNothing: a leftover commit.json is not cleaned up.
FinishNothingKeeps(p) ==
  /\ pc[p] = "finish" /\ active = None
  /\ Goto(p, AfterFinish(p))
  /\ UNCHANGED <<disk, flock, job, phase, seen, nextTx, faults>>

\* No active marker: a prepared commit may be left over; it is removed only
\* once its record is known to be in the journal.
FinishNothing(p) ==
  /\ pc[p] = "finish" /\ active = None
  /\ prepared' = IF prepared # None /\ Journalled(prepared.tx) THEN None ELSE prepared
  /\ Goto(p, AfterFinish(p))
  /\ UNCHANGED <<wiki, active, epoch, journal, tail, flock, job, phase, seen, nextTx, faults>>

\* A prepared record for this transaction exists: replay exactly that one.
FinishPrepared(p) ==
  /\ pc[p] = "finish" /\ active # None
  /\ prepared # None /\ prepared.tx = active.tx
  /\ Goto(p, "setEpoch")
  /\ UNCHANGED <<disk, flock, job, phase, seen, nextTx, faults>>

\* Mutants of Prepare: one planned epoch off, an epoch per transaction, and
\* a failed body taken for one that published nothing.
PrepareAs(p, changes, e) ==
  /\ pc[p] = "finish" /\ active # None /\ prepared = None
  /\ prepared' = [tx |-> active.tx, epoch |-> e, changes |-> changes,
                  status |-> StatusOf(phase[p])]
  /\ Goto(p, "setEpoch")
  /\ UNCHANGED <<wiki, active, epoch, journal, tail, flock, job, phase, seen, nextTx, faults>>

PrepareOffByOne(p) ==
  LET changes == IF active = None THEN <<>> ELSE Changed(active.before)
  IN PrepareAs(p, changes, IF DOMAIN changes = {} THEN epoch - 1 ELSE epoch)

PrepareAlwaysAdvances(p) ==
  PrepareAs(p, IF active = None THEN <<>> ELSE Changed(active.before), epoch + 1)

PrepareForgetsFailed(p) ==
  LET changes == IF active = None \/ phase[p] = "fail" THEN <<>> ELSE Changed(active.before)
  IN PrepareAs(p, changes, IF DOMAIN changes = {} THEN epoch ELSE epoch + 1)

\* Otherwise diff the tracked pages, plan the epoch and write commit.json.
Prepare(p) ==
  /\ pc[p] = "finish" /\ active # None /\ prepared = None
  /\ LET changes == Changed(active.before)
     IN prepared' = [tx |-> active.tx,
                     epoch |-> IF DOMAIN changes = {} THEN epoch ELSE epoch + 1,
                     changes |-> changes,
                     status |-> StatusOf(phase[p])]
  /\ Goto(p, "setEpoch")
  /\ UNCHANGED <<wiki, active, epoch, journal, tail, flock, job, phase, seen, nextTx, faults>>

\* Mutant of SetEpoch: increments instead of writing the planned epoch.
SetEpochIncrements(p) ==
  /\ pc[p] = "setEpoch"
  /\ epoch' = epoch + 1
  /\ Goto(p, "append")
  /\ UNCHANGED <<wiki, active, prepared, journal, tail, flock, job, phase, seen, nextTx, faults>>

\* _finalize_prepared(), first write: the epoch file, when it is behind.
SetEpoch(p) ==
  /\ pc[p] = "setEpoch"
  /\ epoch <= prepared.epoch
  /\ epoch' = prepared.epoch
  /\ Goto(p, "append")
  /\ UNCHANGED <<wiki, active, prepared, journal, tail, flock, job, phase, seen, nextTx, faults>>

\* Mutant of AppendRecord: appends without looking for the transaction.
AppendBlindly(p) ==
  /\ pc[p] = "append"
  /\ journal' = Append(journal, prepared) /\ tail' = None
  /\ Goto(p, "dropActive")
  /\ UNCHANGED <<wiki, active, prepared, epoch, flock, job, phase, seen, nextTx, faults>>

\* Second write: the journal record, unless it is there already.  _append()
\* discards an unterminated tail first.
AppendRecord(p) ==
  /\ pc[p] = "append"
  /\ IF Journalled(prepared.tx) THEN UNCHANGED <<journal, tail>>
     ELSE journal' = Append(journal, prepared) /\ tail' = None
  /\ Goto(p, "dropActive")
  /\ UNCHANGED <<wiki, active, prepared, epoch, flock, job, phase, seen, nextTx, faults>>

\* Third write: unlink active.json.
DropActive(p) ==
  /\ pc[p] = "dropActive"
  /\ active' = None
  /\ Goto(p, "dropPrepared")
  /\ UNCHANGED <<wiki, prepared, epoch, journal, tail, flock, job, phase, seen, nextTx, faults>>

\* Fourth write: unlink commit.json.
DropPrepared(p) ==
  /\ pc[p] = "dropPrepared"
  /\ prepared' = None
  /\ Goto(p, AfterFinish(p))
  /\ UNCHANGED <<wiki, active, epoch, journal, tail, flock, job, phase, seen, nextTx, faults>>

-----------------------------------------------------------------------------
(* mutation(): the transaction itself                                      *)

\* Draw a transaction id, snapshot the vault (or nothing), write active.json.
Begin(p) ==
  /\ pc[p] = "begin"
  /\ active' = [tx |-> nextTx, tracking |-> job[p],
                before |-> IF job[p] = "snapshot" THEN wiki ELSE [q \in {} |-> Absent]]
  /\ nextTx' = nextTx + 1
  /\ phase' = [phase EXCEPT ![p] = "commit"]
  /\ Goto(p, "body")
  /\ UNCHANGED <<wiki, prepared, epoch, journal, tail, flock, job, seen, faults>>

\* touch(): record a page's identity once, and rewrite active.json with it.
Touch(p, q) ==
  /\ pc[p] = "body" /\ job[p] = "touched"
  /\ q \notin DOMAIN active.before
  /\ active' = [active EXCEPT !.before =
                  [r \in DOMAIN @ \cup {q} |-> IF r = q THEN wiki[q] ELSE @[r]]]
  /\ UNCHANGED <<wiki, prepared, epoch, journal, tail, flock, local, nextTx, faults>>

\* The writer creates, rewrites or removes one page; a touched-mode writer
\* declared it first.
Write(p, q, c) ==
  /\ pc[p] = "body"
  /\ q \in DOMAIN active.before
  /\ wiki[q] # c
  /\ wiki' = [wiki EXCEPT ![q] = c]
  /\ UNCHANGED <<active, prepared, epoch, journal, tail, flock, local, nextTx, faults>>

\* The with-block ends, normally ("commit") or by an exception ("fail").
BodyEnds(p, ph) ==
  /\ pc[p] = "body"
  /\ phase' = [phase EXCEPT ![p] = ph]
  /\ Goto(p, "finish")
  /\ UNCHANGED <<disk, flock, job, seen, nextTx, faults>>

\* The finally clause: _clear_lock_owner() if the token is ours, LOCK_UN.
Release(p) ==
  /\ pc[p] = "release"
  /\ owner' = IF owner = p THEN None ELSE owner
  /\ ex' = IF ex = p THEN None ELSE ex
  /\ sh' = sh \ {p}
  /\ Goto(p, "idle")
  /\ UNCHANGED <<disk, job, phase, seen, nextTx, faults>>

-----------------------------------------------------------------------------
(* stable_corpus(): recovery, then a shared traversal of one epoch         *)

\* flock(LOCK_SH) on a held LOCK_EX.  flock(2): the existing lock is removed first,
\* then a new one is taken, and others may come in between.
DowngradeUnlock(p) ==
  /\ pc[p] = "downgrade"
  /\ ex' = None
  /\ Goto(p, "relock")
  /\ UNCHANGED <<disk, sh, owner, job, phase, seen, nextTx, faults>>

DowngradeRelock(p) ==
  /\ pc[p] = "relock"
  /\ ex = None
  /\ sh' = sh \cup {p}
  /\ seen' = [seen EXCEPT ![p] = epoch]
  /\ Goto(p, "read")
  /\ UNCHANGED <<disk, ex, owner, job, phase, nextTx, faults>>

\* The caller leaves the with-block.
ReadEnds(p) ==
  /\ pc[p] = "read"
  /\ Goto(p, "release")
  /\ UNCHANGED <<disk, flock, job, phase, seen, nextTx, faults>>

-----------------------------------------------------------------------------
(* Faults.  The kernel drops the locks of a dead process; disk stays.      *)

\* What the unfinished append of a record may leave after the last newline.
Torn(kind) == IF kind = "unterminated" THEN prepared ELSE Fragment

\* The file operations of _finish_active() that may be cut short in place.
InFinish == {"finish", "setEpoch", "append", "dropActive", "dropPrepared"}

Drop(p) ==
  /\ ex' = IF ex = p THEN None ELSE ex
  /\ sh' = sh \ {p}
  /\ Goto(p, "idle")
  /\ faults < MaxFaults /\ faults' = faults + 1

\* SIGKILL between two file operations.
Kill(p) ==
  /\ pc[p] # "idle"
  /\ Drop(p)
  /\ UNCHANGED <<disk, owner, job, phase, seen, nextTx>>

\* An I/O error raised while the transaction itself is being finished: the
\* markers stay, the finally clause still clears the owner and unlocks.
FinishError(p) ==
  /\ pc[p] \in InFinish /\ phase[p] # "recover"
  /\ owner' = IF owner = p THEN None ELSE owner
  /\ Drop(p)
  /\ UNCHANGED <<disk, job, phase, seen, nextTx>>

\* The process dies (or the write fails short) inside _append().
DieInAppend(p, kind) ==
  /\ pc[p] = "append" /\ ~Journalled(prepared.tx)
  /\ tail' = Torn(kind)
  /\ Drop(p)
  /\ UNCHANGED <<wiki, active, prepared, epoch, journal, owner, job, phase, seen, nextTx>>

-----------------------------------------------------------------------------

Finish(p) ==
  \/ FinishNothing(p) \/ FinishPrepared(p) \/ Prepare(p) \/ SetEpoch(p)
  \/ AppendRecord(p) \/ DropActive(p) \/ DropPrepared(p)

Body(p) ==
  \/ \E q \in Pages : Touch(p, q)
  \/ \E q \in Pages, c \in Text : Write(p, q, c)

\* What a live process does on its own once it holds the fence.
Step(p) ==
  \/ RecordOwner(p) \/ Finish(p) \/ Begin(p) \/ Release(p)
  \/ \E ph \in {"commit", "fail"} : BodyEnds(p, ph)
  \/ DowngradeUnlock(p) \/ DowngradeRelock(p) \/ ReadEnds(p)

Fault(p) ==
  \/ Kill(p) \/ FinishError(p)
  \/ \E kind \in TornTails : DieInAppend(p, kind)

Next == \E p \in Procs :
  \/ \E j \in Tracking \cup {"read"} : Enter(p, j)
  \/ Acquire(p) \/ AcquireTimeout(p)
  \/ Step(p) \/ Body(p) \/ Fault(p)

Spec == Init /\ [][Next]_vars

\* A live process keeps going: no step after the flock waits for anything but
\* the disk, and somebody polling a free flock gets it.  Readers keep coming
\* (the scheduled audits and backups enter stable_corpus()).
Fairness ==
  /\ \A p \in Procs : WF_vars(Step(p))
  /\ WF_vars(\E p \in Procs : Acquire(p))
  /\ WF_vars(\E p \in Procs : Enter(p, "read"))

FairSpec == Spec /\ Fairness

-----------------------------------------------------------------------------
(* Properties                                                              *)

\* Every file and every process variable keeps the shape the code gives it.
TypeOK ==
  /\ wiki \in [Pages -> Text]
  /\ active \in Marker \cup {None}
  /\ prepared \in Record \cup {None}
  /\ epoch \in Nat
  /\ journal \in Seq(Record)
  /\ tail \in Record \cup {None, Fragment}
  /\ ex \in Procs \cup {None} /\ sh \subseteq Procs /\ owner \in Procs \cup {None}
  /\ pc \in [Procs -> PC]
  /\ job \in [Procs -> Tracking \cup {"read"}]
  /\ phase \in [Procs -> {"recover", "commit", "fail"}]
  /\ seen \in [Procs -> Nat]
  /\ nextTx \in TxId /\ faults \in Nat

\* Record i is the last one that changes page q.
LastTouch(q, i) ==
  /\ q \in DOMAIN journal[i].changes
  /\ \A j \in 1..Len(journal) : q \in DOMAIN journal[j].changes => j <= i

\* Replaying the journal over the initial vault gives page q the text c.
Explains(q, c) ==
  \/ \E i \in 1..Len(journal) : LastTouch(q, i) /\ journal[i].changes[q].after = c
  \/ /\ \A i \in 1..Len(journal) : q \notin DOMAIN journal[i].changes
     /\ InitialWiki[q] = c

\* The epoch of the newest record.
LastEpoch == IF journal = <<>> THEN 0 ELSE journal[Len(journal)].epoch

\* A transaction is receipted exactly once however often its commit was
\* killed and replayed: no two records share an id, and every transaction
\* that ever began is in the journal unless its active marker still stands.
ReceiptExactlyOnce ==
  /\ \A i, j \in 1..Len(journal) : journal[i].tx = journal[j].tx => i = j
  /\ \A t \in 1..(nextTx - 1) :
       (active # None /\ active.tx = t) \/ Receipted(t)

\* Epochs in the journal advance by one exactly at the records that changed
\* a page, with no gap and no reuse, and the epoch file never runs ahead of
\* the journal except for the one record that a prepared commit still owes.
EpochsContiguous ==
  /\ \A i \in 1..Len(journal) :
       journal[i].epoch = (IF i = 1 THEN 0 ELSE journal[i-1].epoch)
                          + (IF DOMAIN journal[i].changes = {} THEN 0 ELSE 1)
  /\ \/ epoch = LastEpoch
     \/ prepared # None /\ active # None /\ epoch = prepared.epoch

\* With no transaction open, replaying the journal yields exactly the vault:
\* no page change of a killed, failed or committed writer goes unrecorded.
JournalExplainsWiki ==
  active = None => \A q \in Pages : Explains(q, wiki[q])

\* stable_corpus(): while a reader traverses, no writer's unfinished work is
\* on disk and the epoch is the one the reader was given.
StableRead ==
  \A p \in Procs : pc[p] = "read" =>
    active = None /\ prepared = None /\ seen[p] = epoch

\* The errors of _finish_active() and _finalize_prepared() never fire: a
\* commit.json always belongs to the active transaction or to a record the
\* journal already has, and the epoch never passes a prepared one.
RecoveryNeverRefused ==
  prepared # None =>
    /\ IF active # None THEN prepared.tx = active.tx ELSE Journalled(prepared.tx)
    /\ epoch <= prepared.epoch

\* Every transaction that begins is eventually receipted, whoever is killed,
\* as long as participants keep arriving.
EventuallyReceipted ==
  \A t \in 1..MaxTx : (nextTx > t) ~> Receipted(t)

-----------------------------------------------------------------------------
(* The abstract ledger, read off the journal                               *)

Replayed == [q \in Pages |-> CHOOSE c \in Text : Explains(q, c)]

Ledger == INSTANCE CorpusLedger WITH
  content  <- Replayed,
  version  <- LastEpoch,
  receipts <- {journal[i].tx : i \in 1..Len(journal)}

\* The protocol implements the ledger: through every kill and every replay
\* the journal moves by whole transactions, each once, and the epoch counts
\* exactly those that changed the vault.
ImplementsLedger == Ledger!Spec
=============================================================================
