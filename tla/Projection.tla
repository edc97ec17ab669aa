----------------------------- MODULE Projection -----------------------------
(***************************************************************************)
(* The PostgreSQL read projection: src/src/okengine/projection/projector.py*)
(* run by src/okengine-projection/service.py, and the checked queries of   *)
(* src/src/okengine/mcp/projection.py that it feeds.                       *)
(*                                                                         *)
(* Nobody here takes the corpus fence.  A projector run reads the epoch,   *)
(* the journal and then page after page while a governed writer may be at  *)
(* work; a query reads the checkpoint, the active marker and the epoch one *)
(* after the other.  What keeps them honest is the order of those reads    *)
(* against the order in which a transaction publishes: marker, pages,      *)
(* epoch, journal, marker removed (CorpusTransaction has the detail).      *)
(*                                                                         *)
(* A transaction may put a page back before it ends (a failed review does),*)
(* and the vault may be restored from a backup under the projection, whose *)
(* volume is not part of it, so that its epochs start over.  The journal   *)
(* tells of neither.  `unjournalled` is a history variable that remembers  *)
(* the pages concerned until a full scan that began later is committed.    *)
(***************************************************************************)
EXTENDS Integers, FiniteSets

CONSTANTS
  Pages, Contents, Absent,
  InitialWiki,    \* the vault to begin with, and what the backup holds
  InitialEpoch,   \* their epoch: a vault may have a past before it is projected
  IdOf,           \* content -> page_identity(): canonical id or digest
  Projectors,     \* projection runs: the service, `--reconcile` of a deploy
  Forced,         \* the projectors that pass force_reconcile
  MaxAttempts,    \* attempts of a reconciliation, 3 in the code
  MaxDeleteAbs,   \* OKENGINE_PROJECTION_MAX_DELETE_ABS
  MaxDeletePct,   \* OKENGINE_PROJECTION_MAX_DELETE_PCT
  MaxTx,          \* bound: transactions
  MaxFaults,      \* bound: restores of the backup, and runs that are killed
  Nil

Text == Contents \cup {Absent}

ASSUME ProjectionAssumption ==
  /\ Absent \notin Contents /\ Nil \notin Projectors /\ Nil \notin Nat
  /\ Forced \subseteq Projectors
  /\ MaxAttempts \in Nat \ {0}
  /\ {InitialEpoch, MaxDeleteAbs, MaxDeletePct, MaxTx, MaxFaults} \subseteq Nat
  /\ IsFiniteSet(Pages) /\ InitialWiki \in [Pages -> Text]

VARIABLES
  wiki,         \* page -> content, the canonical Markdown
  epoch,        \* .okengine/corpus/epoch
  journal,      \* the journal's [epoch, paths] records that have paths
  active,       \* active.json exists
  wpc,          \* where the governed writer is
  snap,         \* the wiki its marker describes
  touched,      \* pages it has written
  tx,           \* transactions so far
  rows,         \* page -> content_digest in table pages, Absent for no row
  checkpoint,   \* corpus_epoch of the last finished projection run, or Nil
  advisory,     \* holder of pg_advisory_xact_lock, or Nil
  pc,           \* projector -> where its run is
  source,       \* the corpus epoch the run will record
  todo,         \* paths it still has to read
  scan,         \* page -> content read (or carried over) so far
  unreadable,   \* the scan met a path it could not read
  attempt,      \* reconciliation attempts so far
  faults,
  rpc,          \* where a checked query is
  health,       \* the checkpoint it read
  back,         \* history: the checkpoint has gone below it since
  unjournalled, \* history: <<page, when>> changed without a journal record
  covered       \* history: the part of it that the running scan will see

corpus  == <<wiki, epoch, journal, active, wpc, snap, touched, tx>>
tables  == <<rows, checkpoint>>
run     == <<pc, source, todo, scan, unreadable, attempt>>
query   == <<rpc, health, back>>
vars    == <<wiki, epoch, journal, active, wpc, snap, touched, tx, rows, checkpoint, advisory, pc, source, todo, scan, unreadable, attempt,
             faults, rpc, health, back, unjournalled, covered>>

Empty == [p \in Pages |-> Absent]
Present(w) == {p \in Pages : w[p] # Absent}

\* _changed(): what the transaction leaves different from its marker.
Changed == {p \in Pages : wiki[p] # snap[p]}

Init ==
  /\ wiki = InitialWiki /\ epoch = InitialEpoch /\ journal = {}
  /\ active = FALSE /\ wpc = "idle" /\ snap = Empty /\ touched = {}
  /\ tx = 0 /\ faults = 0
  /\ rows = Empty /\ checkpoint = Nil /\ advisory = Nil
  /\ pc = [j \in Projectors |-> "idle"]
  /\ source = 0 /\ todo = {} /\ scan = Empty /\ unreadable = FALSE /\ attempt = 0
  /\ rpc = "idle" /\ health = Nil /\ back = FALSE
  /\ unjournalled = {} /\ covered = {}

-----------------------------------------------------------------------------
(* The corpus: one governed transaction at a time, finished by its writer  *)
(* or, after a kill, by the next participant with the same outcome.        *)

Begin ==
  /\ wpc = "idle" /\ tx < MaxTx
  /\ active' = TRUE /\ snap' = wiki /\ touched' = {} /\ tx' = tx + 1
  /\ wpc' = "body"
  /\ UNCHANGED <<wiki, epoch, journal, tables, advisory, run, faults,
                 query, unjournalled, covered>>

Write(p, c) ==
  /\ wpc = "body" /\ c # wiki[p]
  /\ wiki' = [wiki EXCEPT ![p] = c]
  /\ touched' = touched \cup {p}
  /\ UNCHANGED <<epoch, journal, active, wpc, snap, tx, tables, advisory,
                 run, faults, query, unjournalled, covered>>

\* The body ends.  With a net change the epoch advances before the journal
\* record; without one only the marker goes.
Finish ==
  /\ wpc = "body"
  /\ epoch' = IF Changed = {} THEN epoch ELSE epoch + 1
  /\ wpc' = IF Changed = {} THEN "drop" ELSE "append"
  /\ unjournalled' = unjournalled \cup ((touched \ Changed) \X {<<tx, faults>>})
  /\ UNCHANGED <<wiki, journal, active, snap, touched, tx, tables, advisory,
                 run, faults, query, covered>>

Append ==
  /\ wpc = "append"
  /\ journal' = journal \cup {[epoch |-> epoch, paths |-> Changed]}
  /\ wpc' = "drop"
  /\ UNCHANGED <<wiki, epoch, active, snap, touched, tx, tables, advisory,
                 run, faults, query, unjournalled, covered>>

Drop ==
  /\ wpc = "drop"
  /\ active' = FALSE /\ wpc' = "idle"
  /\ snap' = Empty /\ touched' = {}
  /\ UNCHANGED <<wiki, epoch, journal, tx, tables, advisory,
                 run, faults, query, unjournalled, covered>>

\* `framework backup restore` of the archive of the initial vault, with the
\* lanes stopped: from here on the same epochs stand for other states.
Restore ==
  /\ wpc = "idle" /\ faults < MaxFaults
  /\ faults' = faults + 1
  /\ wiki' = InitialWiki /\ epoch' = InitialEpoch /\ journal' = {}
  /\ unjournalled' = unjournalled \cup (Pages \X {<<tx, faults + 1>>})
  /\ UNCHANGED <<active, wpc, snap, touched, tx, tables, advisory, run, query,
                 covered>>

-----------------------------------------------------------------------------
(* A projection run                                                        *)

Goto(j, l) == pc' = [pc EXCEPT ![j] = l]

\* The locals of an attempt are gone.
Forget == source' = 0 /\ todo' = {} /\ scan' = Empty /\ unreadable' = FALSE /\ covered' = {}

\* The run is over: its PostgreSQL transaction and lock with it.
Leave(j) == advisory' = Nil /\ attempt' = 0 /\ Forget /\ Goto(j, "idle")

\* Mutant of Lock: the writers of the projection are not serialised.
LockBarging(j) ==
  /\ pc[j] = "idle"
  /\ advisory' = j
  /\ Goto(j, "start")
  /\ UNCHANGED <<corpus, tables, source, todo, scan, unreadable, attempt, faults, query,
                 unjournalled, covered>>

\* mutation_lock(): the checkpoint is read only once it is held.
Lock(j) ==
  /\ pc[j] = "idle" /\ advisory = Nil
  /\ advisory' = j
  /\ Goto(j, "start")
  /\ UNCHANGED <<corpus, tables, source, todo, scan, unreadable, attempt, faults, query,
                 unjournalled, covered>>

\* _project(): a forced run, a first run and one from epoch 0 reconcile.
Choose(j) ==
  /\ pc[j] = "start"
  /\ Goto(j, IF j \in Forced \/ checkpoint = Nil \/ (checkpoint = 0 /\ epoch > 0)
               THEN "before" ELSE "deltaEpoch")
  /\ UNCHANGED <<corpus, tables, advisory, source, todo, scan, unreadable, attempt, faults,
                 query, unjournalled, covered>>

\* Mutant of DeltaEpoch: the epoch going backwards is not noticed.
DeltaEpochBlind(j) ==
  /\ pc[j] = "deltaEpoch"
  /\ source' = epoch
  /\ Goto(j, "deltaJournal")
  /\ UNCHANGED <<corpus, tables, advisory, todo, scan, unreadable, attempt, faults, query,
                 unjournalled, covered>>

\* journal_delta() reads the epoch ...
DeltaEpoch(j) ==
  /\ pc[j] = "deltaEpoch"
  /\ source' = epoch
  /\ Goto(j, IF epoch < checkpoint THEN "before" ELSE "deltaJournal")
  /\ UNCHANGED <<corpus, tables, advisory, todo, scan, unreadable, attempt, faults, query,
                 unjournalled, covered>>

\* The records a run from the checkpoint has to account for.
Relevant == {r \in journal : r.epoch > checkpoint}

\* Mutant of DeltaJournal: records missing in between are not noticed.
DeltaJournalGappy(j) ==
  /\ pc[j] = "deltaJournal"
  /\ todo' = UNION {r.paths : r \in Relevant}
  /\ scan' = rows /\ unreadable' = FALSE
  /\ Goto(j, "changed")
  /\ UNCHANGED <<corpus, tables, advisory, source, attempt, faults, query, unjournalled, covered>>

\* ... and then the journal: a delta only if it accounts for every epoch.
\* Rows that the delta does not name are carried over.
DeltaJournal(j) ==
  /\ pc[j] = "deltaJournal"
  /\ IF source = checkpoint \/ {r.epoch : r \in Relevant} = (checkpoint + 1)..source
       THEN /\ todo' = IF source = checkpoint THEN {} ELSE UNION {r.paths : r \in Relevant}
            /\ scan' = rows /\ unreadable' = FALSE
            /\ Goto(j, "changed")
       ELSE Goto(j, "before") /\ UNCHANGED <<todo, scan, unreadable>>
  /\ UNCHANGED <<corpus, tables, advisory, source, attempt, faults, query, unjournalled, covered>>

\* scan_changed(), one page; a missing one is a deletion.
ReadChanged(j, p) ==
  /\ pc[j] = "changed" /\ p \in todo
  /\ scan' = [scan EXCEPT ![p] = wiki[p]]
  /\ todo' = todo \ {p}
  /\ UNCHANGED <<corpus, tables, advisory, pc, source, unreadable, attempt, faults, query,
                 unjournalled, covered>>

\* reconcile(), one attempt: the epoch, the marker, the walk, the pages, the
\* epoch again and the marker again.
Before(j) ==
  /\ pc[j] = "before"
  /\ source' = epoch
  /\ covered' = unjournalled
  /\ Goto(j, "active")
  /\ UNCHANGED <<corpus, tables, advisory, todo, scan, unreadable, attempt, faults, query,
                 unjournalled>>

\* Mutant of Again: the run that gives up leaves its transaction open.
AgainHangs(j) ==
  IF attempt + 1 = MaxAttempts
    THEN attempt' = 0 /\ Forget /\ Goto(j, "idle") /\ UNCHANGED advisory
    ELSE attempt' = attempt + 1 /\ Forget /\ Goto(j, "before") /\ UNCHANGED advisory

\* The next attempt, or "canonical corpus changed ... retry".
Again(j) ==
  IF attempt + 1 = MaxAttempts THEN Leave(j)
  ELSE attempt' = attempt + 1 /\ Forget /\ Goto(j, "before") /\ UNCHANGED advisory

NotActive(j) ==
  /\ pc[j] = "active"
  /\ \/ active /\ Again(j)
     \/ ~active /\ Goto(j, "walk")
        /\ UNCHANGED <<advisory, source, todo, scan, unreadable, attempt, covered>>
  /\ UNCHANGED <<corpus, tables, faults, query, unjournalled>>

Walk(j) ==
  /\ pc[j] = "walk"
  /\ todo' = Present(wiki) /\ scan' = Empty /\ unreadable' = FALSE
  /\ Goto(j, "scan")
  /\ UNCHANGED <<corpus, tables, advisory, source, attempt, faults, query, unjournalled, covered>>

\* scan_vault(), one page; one that is gone since the walk is unreadable.
ScanPage(j, p) ==
  /\ pc[j] = "scan" /\ p \in todo
  /\ scan' = [scan EXCEPT ![p] = wiki[p]]
  /\ unreadable' = (unreadable \/ wiki[p] = Absent)
  /\ todo' = todo \ {p}
  /\ UNCHANGED <<corpus, tables, advisory, pc, source, attempt, faults, query, unjournalled,
                 covered>>

After(j) ==
  /\ pc[j] = "scan" /\ todo = {}
  /\ \/ epoch # source /\ Again(j)
     \/ epoch = source /\ Goto(j, "activeAgain")
        /\ UNCHANGED <<advisory, source, todo, scan, unreadable, attempt, covered>>
  /\ UNCHANGED <<corpus, tables, faults, query, unjournalled>>

NotActiveAgain(j) ==
  /\ pc[j] = "activeAgain"
  /\ \/ active /\ Again(j)
     \/ ~active /\ Goto(j, "publish")
        /\ UNCHANGED <<advisory, source, todo, scan, unreadable, attempt, covered>>
  /\ UNCHANGED <<corpus, tables, faults, query, unjournalled>>

\* classify_removals(): rows whose path and identity are both gone.
Vanished(old, new) ==
  {p \in Present(old) : new[p] = Absent /\ \A q \in Present(new) : IdOf[new[q]] # IdOf[old[p]]}

\* The deletion guard of _run_epoch().
TooManyVanish(old, new) ==
  LET gone == Cardinality(Vanished(old, new)) IN
  gone > MaxDeleteAbs /\ 100 * gone > MaxDeletePct * Cardinality(Present(old))

\* run_epoch(): one PostgreSQL transaction replaces the rows and records the
\* checkpoint, unless the scan was incomplete or the guard refuses it.
Publish(j) ==
  /\ pc[j] = "publish" \/ (pc[j] = "changed" /\ todo = {})
  /\ IF unreadable \/ TooManyVanish(rows, scan)
       THEN UNCHANGED <<tables, back, unjournalled>>
       ELSE /\ rows' = scan /\ checkpoint' = source
            /\ back' = (rpc # "idle" /\ (back \/ source < health))
            /\ unjournalled' = IF pc[j] = "publish" THEN unjournalled \ covered ELSE unjournalled
  /\ Leave(j)
  /\ UNCHANGED <<corpus, faults, rpc, health>>

\* The run is killed or PostgreSQL goes away: everything rolls back.
RunDies(j) ==
  /\ pc[j] # "idle" /\ faults < MaxFaults
  /\ faults' = faults + 1
  /\ Leave(j)
  /\ UNCHANGED <<corpus, tables, query, unjournalled>>

-----------------------------------------------------------------------------
(* A checked query: projection_status(checked=True), then the rows         *)

Close == rpc' = "idle" /\ health' = Nil /\ back' = FALSE

ReadHealth ==
  /\ rpc = "idle" /\ checkpoint # Nil
  /\ health' = checkpoint /\ rpc' = "active" /\ UNCHANGED back
  /\ UNCHANGED <<corpus, tables, advisory, run, faults, unjournalled, covered>>

\* Mutant of CheckActive: a mutation in flight is not waited out.
CheckActiveNot ==
  /\ rpc = "active"
  /\ rpc' = "epoch"
  /\ UNCHANGED <<corpus, tables, advisory, run, faults, health, back, unjournalled, covered>>

CheckActive ==
  /\ rpc = "active"
  /\ IF active THEN Close ELSE rpc' = "epoch" /\ UNCHANGED <<health, back>>
  /\ UNCHANGED <<corpus, tables, advisory, run, faults, unjournalled, covered>>

\* The checkpoint is older than the age limit, or behind: withheld ...
Withhold ==
  /\ rpc = "epoch" /\ Close
  /\ UNCHANGED <<corpus, tables, advisory, run, faults, unjournalled, covered>>

\* ... or corpus_lag, max(0, current - projected), is 0 and it goes on ...
Serve ==
  /\ rpc = "epoch" /\ epoch <= health
  /\ rpc' = "fetch"
  /\ UNCHANGED <<corpus, tables, advisory, run, faults, health, back, unjournalled, covered>>

\* ... to the rows, a statement of its own.
Fetch ==
  /\ rpc = "fetch" /\ Close
  /\ UNCHANGED <<corpus, tables, advisory, run, faults, unjournalled, covered>>

-----------------------------------------------------------------------------

Ends == Finish \/ Append \/ Drop

RunStep(j) ==
  \/ Lock(j) \/ Choose(j) \/ DeltaEpoch(j) \/ DeltaJournal(j)
  \/ Before(j) \/ NotActive(j) \/ Walk(j) \/ After(j) \/ NotActiveAgain(j) \/ Publish(j)
  \/ \E p \in Pages : ReadChanged(j, p) \/ ScanPage(j, p)

Next ==
  \/ Begin \/ Ends \/ Restore
  \/ \E p \in Pages, c \in Text : Write(p, c)
  \/ \E j \in Projectors : RunStep(j) \/ RunDies(j)
  \/ ReadHealth \/ CheckActive \/ Withhold \/ Serve \/ Fetch

Spec == Init /\ [][Next]_vars

\* Transactions end (their writers do, or the next participant recovers
\* them), and the service runs for ever: after a failure it retries, between
\* runs it waits for a change or its interval.  A deploy's reconciliation
\* that has started goes on; the service gets the advisory lock in turn.
Fairness ==
  /\ WF_vars(Ends)
  /\ \A j \in Projectors : WF_vars(RunStep(j) /\ ~Lock(j))
  /\ \A j \in Projectors \ Forced : SF_vars(Lock(j))

FairSpec == Spec /\ Fairness

-----------------------------------------------------------------------------
(* Properties                                                              *)

PC == {"idle", "start", "deltaEpoch", "deltaJournal", "changed", "before", "active", "walk",
       "scan", "activeAgain", "publish"}

Epochs == 0..(InitialEpoch + MaxTx)

\* Files, tables and runs keep their shape; a run works only under the lock.
TypeOK ==
  /\ wiki \in [Pages -> Text] /\ snap \in [Pages -> Text]
  /\ epoch \in Epochs /\ active \in BOOLEAN /\ touched \subseteq Pages
  /\ journal \subseteq [epoch : Epochs, paths : SUBSET Pages]
  /\ wpc \in {"idle", "body", "append", "drop"}
  /\ rows \in [Pages -> Text] /\ checkpoint \in Epochs \cup {Nil}
  /\ pc \in [Projectors -> PC] /\ advisory \in Projectors \cup {Nil}
  /\ \A j \in Projectors : pc[j] # "idle" => advisory = j
  /\ source \in Epochs /\ todo \subseteq Pages /\ scan \in [Pages -> Text]
  /\ unreadable \in BOOLEAN /\ attempt \in 0..MaxAttempts
  /\ rpc \in {"idle", "active", "epoch", "fetch"} /\ health \in Epochs \cup {Nil}
  /\ back \in BOOLEAN

\* Pages that changed without the journal, and no full scan since.
Unjournalled == {u[1] : u \in unjournalled}

\* The corpus that the current epoch stands for.
Committed == IF wpc = "body" THEN snap ELSE wiki

\* A projector that never takes the fence, reads page after page and carries
\* most rows over from the last run is right all the same: when it has caught
\* up with a corpus at rest, every row is the page, except for changes that
\* never reached the journal.
ProjectionFollowsCorpus ==
  ~active /\ checkpoint = epoch =>
    \A p \in Pages \ Unjournalled : rows[p] = wiki[p]

\* The three unlocked reads of a checked query are in the right order: when
\* it decides to serve, the rows are the committed corpus, never a state in
\* the middle of somebody's transaction (unless a restore has taken the
\* checkpoint back under the query, and other transactions up to it again).
ServedRowsAreCommitted ==
  [][Serve /\ ~back =>
       \A p \in Pages \ Unjournalled : rows[p] = Committed[p]]_vars

\* A vault that was restored to an earlier epoch is noticed: the checkpoint
\* goes back only together with the rows of a full scan, whatever the epoch
\* did while the run was under way.
RewindsReconcile ==
  [][checkpoint # Nil /\ checkpoint' < checkpoint => \E j \in Projectors : pc[j] = "publish"]_vars

\* The guard refuses what a run would see now: the vault, or rows carried
\* over where the journal does not say that the page changed.
Refused ==
  \E S \in SUBSET Unjournalled :
    TooManyVanish(rows, [p \in Pages |-> IF p \in S THEN rows[p] ELSE wiki[p]])

\* Once the corpus is left alone the service catches up with it, whatever
\* was killed, restored or in flight before, unless the guard refuses.
CatchesUp == <>[](checkpoint = epoch \/ Refused)
=============================================================================
