---------------------------- MODULE VaultUpgrade ----------------------------
(***************************************************************************)
(* The two migration runners of scripts/framework_upgrade.py: `framework   *)
(* upgrade --apply' (runner "engine", main()), which moves a vault to the  *)
(* engine's release, and run_pack_migrations() (runner "pack"), which      *)
(* moves it to a pack's.                                                   *)
(*                                                                         *)
(* Both snapshot the vault, apply the pending migrations, record each in   *)
(* .okengine/migrations-state.json, validate, and roll back to the         *)
(* snapshot when something fails.  Nothing is locked: cron lanes and MCP   *)
(* tools write pages all along, and the runner may be killed anywhere.     *)
(*                                                                         *)
(* A file holds None (absent), a page, the state or the pin.  A page is    *)
(* which migrations went over it, how often, and the last writer's edit of *)
(* it.  What a migration does to a page is external code; whether its      *)
(* output still conforms to the schema is all the gate sees of it.         *)
(***************************************************************************)
EXTENDS Integers, FiniteSets

CONSTANTS
  Runners,       \* which of "engine" and "pack" is run
  Pages,         \* page files
  InitialPages,  \* those the vault starts with
  NumMigs,       \* migrations are 1..NumMigs, in the order applicable() gives
  To,            \* migration -> its TO release
  Target,        \* the release moved to; the vault starts at 0
  Touch, Make, Drop,  \* migration -> pages it rewrites, creates, deletes
  BadMigs,       \* migrations whose output may fail to conform
  Flags,         \* sets of CLI flags in use, of "noSnapshot" and "noValidate"
  Keep,          \* --keep-snapshots
  MaxRuns,       \* bound: invocations
  MaxCuts,       \* bound: hard kills, and failures without a snapshot
  MaxEdits,      \* bound: writes of pages by others
  None

Migs  == 1..NumMigs
Files == Pages \cup {"state", "pin"}
Snaps == 1..MaxRuns

\* What files hold, and a snapshot: its tree, whether its manifest is written,
\* the rollback plan recorded in it, whether it was confirmed.
PageText == [did : [Migs -> Nat], edit : Nat]
StateRec == [applied : SUBSET Migs, version : Nat]
Trees    == [Files -> {None} \cup PageText \cup StateRec \cup Nat]
Plans    == [added : SUBSET Files, modified : SUBSET Files, image : Trees]
Snapshot == [tree : Trees, whole : BOOLEAN, plan : {None} \cup Plans, good : BOOLEAN]

ASSUME UpgradeAssumption ==
  /\ Runners \subseteq {"engine", "pack"} /\ Flags \subseteq SUBSET {"noSnapshot", "noValidate"}
  /\ InitialPages \subseteq Pages /\ BadMigs \subseteq Migs
  /\ NumMigs \in Nat /\ Target \in Nat \ {0} /\ To \in [Migs -> 1..Target]
  /\ \A m, n \in Migs : m <= n => To[m] <= To[n]
  /\ Touch \in [Migs -> SUBSET Pages] /\ Make \in [Migs -> SUBSET Pages]
  /\ Drop \in [Migs -> SUBSET Pages] /\ Pages \cap {"state", "pin"} = {}
  /\ Keep \in Nat /\ MaxRuns \in Nat /\ MaxCuts \in Nat /\ MaxEdits \in Nat
  /\ None \notin PageText \cup StateRec \cup Nat /\ None \notin Plans \cup Snapshot

VARIABLES
  runner,  \* which runner this vault is driven by
  bad,     \* migrations whose output does not conform
  disk,    \* file -> what it holds
  snaps,   \* snapshot directory -> tree, manifest, rollback plan; or None
  aside,   \* pages under .okengine/rolled-back/
  run,     \* the invocation in progress
  runs,    \* invocations so far
  edits,   \* writes by others so far
  cuts,    \* invocations that ended without unwinding what they did
  torn,    \* history: a rollback was killed halfway
  born,    \* history: pages created by others
  since,   \* history: snapshot -> pages others wrote since its delta was captured
  fresh,   \* history: page -> an edit that no rollback has a reason to undo, or 0
  cutoff,  \* history: migration -> how often it was cut off itself
  strays   \* history: pages an operator's restore left with later migrations

history == <<cuts, torn, born, since, fresh, cutoff, strays>>
setting == <<runner, bad>>
world   == <<edits, history>>
vars    == <<setting, disk, snaps, aside, run, runs, world>>

-----------------------------------------------------------------------------
(* Data                                                                    *)

NoState == [applied |-> {}, version |-> 0]

\* read_state(), and the installed pack version it records.
State == IF disk["state"] = None THEN NoState ELSE disk["state"]

Untouched == [did |-> [m \in Migs |-> 0], edit |-> 0]

\* The release the vault claims to be at.
Claimed == IF runner = "engine" THEN disk["pin"] ELSE State.version

\* plan_upgrade()/run_pack_migrations(): the span above a release, and what
\* of it is pending.
Span(from) == {m \in Migs : from < To[m] /\ To[m] <= Target}
Pending == Span(Claimed) \ State.applied

\* Mutant of Changed: .okengine/ is taken for runtime, not source.
ChangedPages(s) == {f \in Pages : disk[f] # None /\ snaps[s].tree[f] \notin {None, disk[f]}}

\* added_since_snapshot() and changed_since_snapshot().
Added(s)   == {f \in Files : disk[f] # None /\ snaps[s].tree[f] = None}
Changed(s) == {f \in Files : disk[f] # None /\ snaps[s].tree[f] \notin {None, disk[f]}}

\* No migration went over page x since it was y, or since it was made.
OnlyEdited(x, y) == x.did = Untouched.did \/ (y # None /\ x.did = y.did)

Conforms(c) == c = None \/ \A m \in bad : c.did[m] = 0
Regressed(s) == \E p \in Pages : ~Conforms(disk[p]) /\ Conforms(snaps[s].tree[p])

\* _unfinished_pack_snapshot(): the newest complete, unconfirmed one, or 0.
Open       == {s \in Snaps : snaps[s] # None /\ snaps[s].whole /\ ~snaps[s].good}
NewestOpen == {s \in Open : \A t \in Open : t <= s}
Unfinished == IF NewestOpen = {} THEN 0 ELSE CHOOSE s \in NewestOpen : TRUE

Idle == [pc |-> "idle", plan |-> {}, k |-> 0, flags |-> {}, snap |-> 0,
         todo |-> {}, added |-> {}, modified |-> {}]

\* The state file is there once a pack was installed; the engine's first
\* migration creates it.
Init ==
  /\ runner \in Runners /\ bad \in SUBSET BadMigs
  /\ disk = [f \in Files |-> CASE f = "pin"          -> 0
                               [] f = "state"        -> IF runner = "pack" THEN NoState ELSE None
                               [] f \in InitialPages -> Untouched
                               [] OTHER              -> None]
  /\ snaps = [s \in Snaps |-> None]
  /\ aside = {} /\ run = Idle /\ runs = 0 /\ edits = 0 /\ cuts = 0
  /\ torn = FALSE /\ born = {} /\ since = [s \in Snaps |-> {}]
  /\ fresh = [p \in Pages |-> 0] /\ cutoff = [m \in Migs |-> 0] /\ strays = {}

At(l) == run.pc = l
Go(l) == run' = [run EXCEPT !.pc = l]
End   == run' = Idle

-----------------------------------------------------------------------------
(* Planning and the snapshot                                               *)

\* main() with --apply, or run_pack_migrations(apply=True): a vault that is
\* not at the target is planned for.
Start(flags) ==
  /\ At("idle") /\ runs < MaxRuns /\ Claimed # Target
  /\ runner = "pack" => "noSnapshot" \notin flags
  /\ runs' = runs + 1
  /\ fresh' = [p \in Pages |-> 0]
  /\ run' = [Idle EXCEPT
       !.plan = Pending, !.flags = flags,
       !.snap = IF runner = "pack" /\ Pending = {} THEN Unfinished ELSE 0,
       !.pc = CASE runner = "pack" /\ Pending = {} -> "recover"
                [] "noSnapshot" \in flags            -> "load"
                [] OTHER                             -> "mkdir"]
  /\ UNCHANGED <<setting, disk, snaps, aside, edits, cuts, torn, born, since, cutoff, strays>>

\* snapshot(): list the files in scope ...  (Nobody else writes the state and
\* the pin: they are copied here.)
Mkdir ==
  /\ At("mkdir")
  /\ snaps' = [snaps EXCEPT ![runs] =
       [tree |-> [f \in Files |-> IF f \in Pages THEN None ELSE disk[f]],
        whole |-> FALSE, plan |-> None, good |-> FALSE]]
  /\ run' = [run EXCEPT !.pc = "copy", !.snap = runs,
                        !.todo = {p \in Pages : disk[p] # None}]
  /\ UNCHANGED <<setting, disk, aside, runs, world>>

\* ... copy the pages one by one ...
Copy ==
  /\ At("copy")
  /\ \E f \in run.todo :
       /\ snaps' = [snaps EXCEPT ![run.snap].tree[f] = disk[f]]
       /\ run' = [run EXCEPT !.todo = @ \ {f}]
  /\ UNCHANGED <<setting, disk, aside, runs, world>>

\* ... and write the manifest last.
Manifest ==
  /\ At("copy") /\ run.todo = {}
  /\ snaps' = [snaps EXCEPT ![run.snap].whole = TRUE]
  /\ Go("load")
  /\ UNCHANGED <<setting, disk, aside, runs, world>>

\* ENOSPC or Ctrl-C while copying: the directory is removed, the run raises.
SnapshotFails ==
  /\ At("copy")
  /\ snaps' = [snaps EXCEPT ![run.snap] = None]
  /\ End
  /\ UNCHANGED <<setting, disk, aside, runs, world>>

-----------------------------------------------------------------------------
(* Applying                                                                *)

\* What of the plan is still to come, in the order of the numbers.
Left == {m \in run.plan : m > run.k}

\* The next migration of the plan, or the step after the last one.
Load ==
  /\ At("load")
  /\ IF Left = {} THEN Go(IF runner = "engine" THEN "pin" ELSE "freeze")
       ELSE \E m \in Left :
              /\ \A n \in Left : m <= n
              /\ run' = [run EXCEPT !.pc = "apply", !.k = m,
                                    !.todo = Touch[m] \cup Make[m] \cup Drop[m]]
  /\ UNCHANGED <<setting, disk, snaps, aside, runs, world>>

\* What migration m makes of page p.
Output(m, p) ==
  IF p \in Drop[m] THEN None
  ELSE IF disk[p] # None THEN [disk[p] EXCEPT !.did[m] = @ + 1]
  ELSE IF p \in Make[m] THEN [Untouched EXCEPT !.did[m] = 1] ELSE None

\* apply_fn(), page by page.
Migrate ==
  /\ At("apply")
  /\ \E p \in run.todo :
       /\ run' = [run EXCEPT !.todo = @ \ {p}]
       /\ disk' = [disk EXCEPT ![p] = Output(run.k, p)]
  /\ UNCHANGED <<setting, snaps, aside, runs, world>>

\* Mutant of Checkpoint: the version moves with every migration.
CheckpointEager ==
  LET m == run.k IN IF To[m] < Target THEN To[m] ELSE State.version

\* The pack's version checkpoint: it moves once the last pending migration
\* of an intermediate release has landed.
Checkpoint ==
  LET m == run.k
  IN  IF To[m] < Target /\ \A j \in Left : To[j] # To[m]
        THEN To[m] ELSE State.version

\* Mutant of RecordApplied: the batch is recorded once, after its last one.
RecordBatch ==
  /\ At("apply") /\ run.todo = {}
  /\ disk' = IF Left # {} THEN disk ELSE [disk EXCEPT !["state"] =
       [applied |-> State.applied \cup Migs,
        version |-> IF runner = "pack" THEN Checkpoint ELSE State.version]]
  /\ run' = [run EXCEPT !.pc = "load"]
  /\ UNCHANGED <<setting, snaps, aside, runs, world>>

\* record_state() or _record_pack_applied(), right after the side effects.
RecordApplied ==
  /\ At("apply") /\ run.todo = {}
  /\ disk' = [disk EXCEPT !["state"] =
       [applied |-> State.applied \cup {run.k},
        version |-> IF runner = "pack" THEN Checkpoint ELSE State.version]]
  /\ run' = [run EXCEPT !.pc = "load"]
  /\ UNCHANGED <<setting, snaps, aside, runs, world>>

\* Mutant of WritePin: one release too far.
WritePinPast ==
  /\ At("pin")
  /\ disk' = [disk EXCEPT !["pin"] = Target + 1]
  /\ Go("recompose")
  /\ UNCHANGED <<setting, snaps, aside, runs, world>>

\* apply_upgrade(): the pin follows the last migration.
WritePin ==
  /\ At("pin")
  /\ disk' = [disk EXCEPT !["pin"] = Target]
  /\ Go("recompose")
  /\ UNCHANGED <<setting, snaps, aside, runs, world>>

\* RECOMPOSE_SCHEMA(); the engine runner captures its delta after it, the
\* pack runner has done so before.
Recompose ==
  /\ At("recompose")
  /\ Go(IF runner = "pack" \/ run.snap = 0 THEN "gate" ELSE "freeze")
  /\ UNCHANGED <<setting, disk, snaps, aside, runs, world>>

\* What the migration added and modified, captured before the slow gate.
Freeze ==
  /\ At("freeze")
  /\ run' = [run EXCEPT !.pc = "plan", !.added = Added(run.snap), !.modified = Changed(run.snap)]
  /\ since' = [since EXCEPT ![run.snap] = {}]
  /\ UNCHANGED <<setting, disk, snaps, aside, runs, edits, cuts, torn, born, fresh, cutoff, strays>>

\* record_rollback_plan(), with the files as they are now.
RecordPlan ==
  /\ At("plan")
  /\ snaps' = [snaps EXCEPT ![run.snap].plan =
       [added |-> run.added, modified |-> run.modified, image |-> disk]]
  /\ Go(IF runner = "pack" THEN "recompose" ELSE "gate")
  /\ UNCHANGED <<setting, disk, aside, runs, world>>

\* A migration that is ended for good in its middle.
CutOff == cutoff' = IF At("apply") THEN [cutoff EXCEPT ![run.k] = @ + 1] ELSE cutoff

\* A migration, or the composition of the schema, raises.  With a snapshot
\* the delta is captured there and then and rolled back; without one the
\* vault stays as it is.  The pack runner's handler covers the rest of its
\* transaction too, but not that of a recovery, which has no plan.
Raise ==
  /\ run.pc \in {"apply", "recompose"} \cup
       (IF runner = "pack" /\ run.plan # {} THEN {"freeze", "plan", "version", "confirm"} ELSE {})
  /\ run.pc = "apply" => run.todo # {}
  /\ \/ /\ run.snap = 0 /\ cuts < MaxCuts
        /\ cuts' = cuts + 1 /\ CutOff /\ End
        /\ UNCHANGED since
     \/ /\ run.snap # 0
        /\ run' = [run EXCEPT !.pc = "quarantine",
                   !.added = Added(run.snap), !.modified = Changed(run.snap)]
        /\ since' = [since EXCEPT ![run.snap] = {}] /\ UNCHANGED <<cuts, cutoff>>
  /\ UNCHANGED <<setting, disk, snaps, aside, runs, edits, torn, born, fresh, strays>>

-----------------------------------------------------------------------------
(* The roll-forward gate                                                   *)

Validated == "noValidate" \notin run.flags

\* VALIDATOR() passes, and no page regressed against the snapshot: asked
\* only when this run had migrations to apply.
GatePasses ==
  /\ At("gate")
  /\ (Validated /\ run.snap # 0 /\ run.plan # {}) => ~Regressed(run.snap)
  /\ Go(IF runner = "pack" THEN "version" ELSE IF run.snap = 0 THEN "accepted"
        ELSE IF Validated \/ run.plan = {} THEN "confirm" ELSE "prune")
  /\ UNCHANGED <<setting, disk, snaps, aside, runs, world>>

\* Mutant of GateFails: the delta is captured again after the gate.
GateFailsLate ==
  /\ At("gate") /\ Validated
  /\ IF run.snap = 0 THEN End /\ UNCHANGED since
     ELSE /\ run' = [run EXCEPT !.pc = "quarantine",
                     !.added = Added(run.snap), !.modified = Changed(run.snap)]
          /\ since' = [since EXCEPT ![run.snap] = {}]
  /\ UNCHANGED <<setting, disk, snaps, aside, runs, edits, cuts, torn, born, fresh, cutoff, strays>>

\* The gate fails, on its structural half or on a regression.  The pack
\* runner raises into its handler, which captures the delta again.
GateFails ==
  /\ At("gate") /\ Validated
  /\ IF run.snap = 0 THEN End /\ UNCHANGED since
     ELSE IF runner = "engine"
       THEN Go("quarantine") /\ UNCHANGED since
       ELSE /\ run' = [run EXCEPT !.pc = "quarantine",
                       !.added = Added(run.snap), !.modified = Changed(run.snap)]
            /\ since' = [since EXCEPT ![run.snap] = {}]
  /\ UNCHANGED <<setting, disk, snaps, aside, runs, edits, cuts, torn, born, fresh, cutoff, strays>>

\* record_pack_version().
RecordVersion ==
  /\ At("version")
  /\ disk' = [disk EXCEPT !["state"] = [State EXCEPT !.version = Target]]
  /\ Go(IF run.snap = 0 THEN "accepted" ELSE "confirm")
  /\ UNCHANGED <<setting, snaps, aside, runs, world>>

\* confirm_snapshot_good().
Confirm ==
  /\ At("confirm")
  /\ snaps' = [snaps EXCEPT ![run.snap].good = TRUE]
  /\ Go("prune")
  /\ UNCHANGED <<setting, disk, aside, runs, world>>

\* Mutant of Spent: retention counts every complete snapshot.
SpentAny == {s \in Snaps : snaps[s] # None /\ snaps[s].whole}

\* prune_snapshots(): the confirmed ones but for the newest Keep.
Spent == {s \in Snaps : snaps[s] # None /\ snaps[s].good}
Prune ==
  /\ At("prune")
  /\ snaps' = [s \in Snaps |->
       IF s \in Spent /\ Cardinality({t \in Spent : t > s}) >= Keep THEN None ELSE snaps[s]]
  /\ Go("accepted")
  /\ UNCHANGED <<setting, disk, aside, runs, world>>

Accepted == At("accepted") /\ End /\ UNCHANGED <<setting, disk, snaps, aside, runs, world>>

-----------------------------------------------------------------------------
(* An interrupted pack migration: every migration is recorded, the version *)
(* is not                                                                  *)

\* The unfinished snapshot gets the plan it lacks, and the gate is run again.
Recover ==
  /\ At("recover")
  /\ IF run.snap # 0 /\ snaps[run.snap].plan = None
       THEN /\ snaps' = [snaps EXCEPT ![run.snap].plan =
                 [added |-> Added(run.snap), modified |-> Changed(run.snap), image |-> disk]]
            /\ since' = [since EXCEPT ![run.snap] = {}]
       ELSE UNCHANGED <<snaps, since>>
  /\ Go(IF run.snap # 0 \/ Span(State.version) # {} THEN "regate" ELSE "version")
  /\ UNCHANGED <<setting, disk, aside, runs, edits, cuts, torn, born, fresh, cutoff, strays>>

RegatePasses ==
  /\ At("regate")
  /\ (Validated /\ run.snap # 0) => ~Regressed(run.snap)
  /\ Go("version")
  /\ UNCHANGED <<setting, disk, snaps, aside, runs, world>>

\* Composition raises or the gate fails: _rollback_pack_snapshot().
RegateFails ==
  /\ At("regate")
  /\ IF run.snap = 0 THEN End
     ELSE run' = [run EXCEPT !.pc = "quarantine",
                  !.added = snaps[run.snap].plan.added,
                  !.modified = snaps[run.snap].plan.modified]
  /\ UNCHANGED <<setting, disk, snaps, aside, runs, world>>

-----------------------------------------------------------------------------
(* Rolling back                                                            *)

\* restore_saved_snapshot(), by the operator: refused as a whole when a file
\* of the recorded delta is not as the migration left it.
RestoreSaved ==
  /\ At("idle") /\ runs < MaxRuns
  /\ \E s \in Snaps :
       /\ snaps[s] # None /\ snaps[s].whole /\ snaps[s].plan # None
       /\ LET d == snaps[s].plan IN
            /\ \A f \in d.added \cup d.modified : disk[f] = d.image[f]
            /\ \A f \in Files : snaps[s].tree[f] # None /\ d.image[f] = None => disk[f] = None
            /\ run' = [Idle EXCEPT !.pc = "quarantine", !.snap = s, !.flags = {"saved"},
                       !.added = d.added, !.modified = d.modified]
            /\ strays' = strays \cup {p \in Pages \ (d.added \cup d.modified) :
                                       disk[p] # None /\ ~OnlyEdited(disk[p], d.image[p])}
  /\ runs' = runs + 1
  /\ UNCHANGED <<setting, disk, snaps, aside, edits, cuts, torn, born, since, fresh, cutoff>>

\* Mutant of Quarantine: the additions are deleted.
QuarantineDeletes ==
  /\ At("quarantine")
  /\ disk' = [f \in Files |-> IF f \in run.added THEN None ELSE disk[f]]
  /\ run' = [run EXCEPT !.pc = "restore",
                   !.todo = {f \in Files : snaps[run.snap].tree[f] # None}]
  /\ UNCHANGED <<setting, snaps, aside, runs, world>>

\* restore(): what the migration added is set aside, never deleted ...
Quarantine ==
  /\ At("quarantine")
  /\ IF run.added # {}
       THEN \E f \in run.added :
              /\ run' = [run EXCEPT !.added = @ \ {f}]
              /\ disk' = [disk EXCEPT ![f] = None]
              /\ aside' = IF disk[f] = None THEN aside ELSE aside \cup ({f} \cap Pages)
       ELSE /\ run' = [run EXCEPT !.pc = "restore",
                       !.todo = {f \in Files : snaps[run.snap].tree[f] # None}]
            /\ UNCHANGED <<disk, aside>>
  /\ UNCHANGED <<setting, snaps, runs, world>>

\* ... then what it changed or deleted is copied back, file by file.
Restore ==
  /\ At("restore")
  /\ \E f \in run.todo :
       /\ run' = [run EXCEPT !.todo = @ \ {f}]
       /\ disk' = [disk EXCEPT ![f] =
            IF @ # None /\ f \notin run.modified THEN @ ELSE snaps[run.snap].tree[f]]
  /\ UNCHANGED <<setting, snaps, aside, runs, world>>

\* The spent snapshot is removed; restore_saved_snapshot() leaves it.
RolledBack ==
  /\ At("restore") /\ run.todo = {}
  /\ snaps' = IF "saved" \in run.flags THEN snaps ELSE [snaps EXCEPT ![run.snap] = None]
  /\ End
  /\ UNCHANGED <<setting, disk, aside, runs, world>>

\* An I/O error on the way back.  The pack runner's finally clause removes
\* the snapshot all the same; the other callers let it out.
RestoreFails ==
  /\ run.pc \in {"quarantine", "restore"} /\ cuts < MaxCuts
  /\ cuts' = cuts + 1 /\ torn' = TRUE
  /\ snaps' = IF runner = "pack" /\ run.plan # {} THEN [snaps EXCEPT ![run.snap] = None]
              ELSE snaps
  /\ End
  /\ UNCHANGED <<setting, disk, aside, runs, edits, born, since, fresh, cutoff, strays>>

-----------------------------------------------------------------------------
(* Others                                                                  *)

Gate == {"gate", "version", "quarantine", "restore"}

\* A cron lane or an MCP tool edits or creates a page.
Write(p) ==
  /\ edits < MaxEdits /\ edits' = edits + 1
  /\ disk' = [disk EXCEPT ![p] =
       [IF @ = None THEN Untouched ELSE @ EXCEPT !.edit = edits']]
  /\ born' = IF disk[p] = None THEN born \cup {p} ELSE born
  /\ since' = [s \in Snaps |-> since[s] \cup {p}]
  /\ fresh' = IF \/ fresh[p] # 0
                 \/ run.snap # 0 /\ run.pc \in Gate /\ disk[p] = snaps[run.snap].tree[p]
                THEN [fresh EXCEPT ![p] = edits'] ELSE fresh
  /\ UNCHANGED <<setting, snaps, aside, run, runs, cuts, torn, cutoff, strays>>

\* SIGKILL or power loss.
Kill ==
  /\ run.pc \notin {"idle", "accepted"} /\ cuts < MaxCuts
  /\ cuts' = cuts + 1 /\ CutOff
  /\ torn' = (torn \/ run.pc \in {"quarantine", "restore"})
  /\ End
  /\ UNCHANGED <<setting, disk, snaps, aside, runs, edits, born, since, fresh, strays>>

Next ==
  \/ \E flags \in Flags : Start(flags)
  \/ Mkdir \/ Copy \/ Manifest \/ SnapshotFails
  \/ Load \/ Migrate \/ RecordApplied \/ WritePin \/ Recompose \/ Freeze \/ RecordPlan
  \/ Raise
  \/ GatePasses \/ GateFails \/ RecordVersion \/ Confirm \/ Prune \/ Accepted
  \/ Recover \/ RegatePasses \/ RegateFails
  \/ RestoreSaved \/ Quarantine \/ Restore \/ RolledBack \/ RestoreFails
  \/ \E p \in Pages : Write(p)
  \/ Kill

Spec == Init /\ [][Next]_vars

-----------------------------------------------------------------------------
(* Properties                                                              *)

PC == {"idle", "mkdir", "copy", "load", "apply", "pin", "freeze", "plan", "recompose",
       "gate", "version", "confirm", "prune", "accepted", "recover", "regate",
       "quarantine", "restore"}

Page == [did : [Migs -> 0..MaxRuns], edit : 0..MaxEdits]
Content(f) ==
  CASE f = "pin"   -> {0, Target}
    [] f = "state" -> [applied : SUBSET Migs, version : 0..Target]
    [] OTHER       -> Page

IsTree(t) == DOMAIN t = Files /\ \A f \in Files : t[f] = None \/ t[f] \in Content(f)

\* Files, snapshots and the run keep their shape.
TypeOK ==
  /\ runner \in Runners /\ bad \subseteq BadMigs
  /\ IsTree(disk) /\ disk["pin"] # None
  /\ \A s \in Snaps : snaps[s] = None \/
       /\ IsTree(snaps[s].tree) /\ snaps[s].whole \in BOOLEAN /\ snaps[s].good \in BOOLEAN
       /\ snaps[s].plan = None \/
            /\ snaps[s].plan.added \subseteq Files /\ snaps[s].plan.modified \subseteq Files
            /\ IsTree(snaps[s].plan.image)
  /\ aside \subseteq Pages
  /\ run.pc \in PC /\ run.plan \subseteq Migs /\ run.k \in 0..NumMigs /\ run.snap \in 0..MaxRuns
  /\ run.todo \subseteq Files /\ run.added \subseteq Files /\ run.modified \subseteq Files
  /\ runs \in 0..MaxRuns /\ edits \in 0..MaxEdits /\ cuts \in 0..MaxCuts
  /\ torn \in BOOLEAN
  /\ born \subseteq Pages /\ since \in [Snaps -> SUBSET Pages] /\ fresh \in [Pages -> 0..MaxEdits]
  /\ cutoff \in [Migs -> 0..MaxCuts] /\ strays \subseteq Pages

\* The vault is what its claim says: every migration up to the claimed
\* release is recorded and has been over each page it was written for.
Migrated ==
  \A m \in Migs : To[m] <= Claimed =>
    /\ m \in State.applied
    /\ \A p \in Touch[m] \cap InitialPages :
         p \in UNION {Drop[n] : n \in Migs} \/ (disk[p] # None /\ disk[p].did[m] > 0)

\* A complete snapshot of a vault that claimed less.
Recoverable ==
  \E s \in Snaps : /\ snaps[s] # None /\ snaps[s].whole
                   /\ IF runner = "engine" THEN snaps[s].tree["pin"] < Claimed
                      ELSE snaps[s].tree["state"] = None \/ snaps[s].tree["state"].version < Claimed

\* A release is never claimed for a vault that was not migrated to it: the
\* next run trusts the claim and skips whatever lies below it.  Exceptions:
\* while a rollback is on its way, and after one was killed halfway; the
\* engine runner then still has a snapshot to go back to, unless it is told to
\* keep none.  (The pack runner does not, see PackClaimIsTrue.)
RollingBack == run.pc \in {"quarantine", "restore"}
ClaimIsTrue ==
  Migrated \/ RollingBack \/ (torn /\ (Recoverable \/ runner = "pack" \/ Keep = 0))

\* "The state record above is inside `modified`, so a rollback reverts it too
\* and the span stays pending for a retry": the same of both runners.
PackClaimIsTrue == Migrated \/ RollingBack \/ (torn /\ Recoverable)

\* "ROLLED BACK -- pack unchanged": once the rollback is through, every file
\* is as the snapshot has it, but for pages others wrote after the delta was
\* captured.  (An operator's restore leaves the files outside the delta.)
RollbackUnchanges ==
  At("restore") /\ run.todo = {} /\ ~torn =>
    \A f \in Files \ since[run.snap] :
      \/ disk[f] = snaps[run.snap].tree[f]
      \/ "saved" \in run.flags /\ snaps[run.snap].plan.image[f] = snaps[run.snap].tree[f]

\* A rollback never loses a page somebody else created: it is in the vault
\* or set aside.
NoPageLost ==
  \A p \in born : disk[p] # None \/ p \in aside \/ \E m \in Migs : p \in Drop[m]

\* An edit made during the gate, of a page the migration left alone, stays.
EditKept == \A p \in Pages : fresh[p] # 0 => disk[p] # None /\ disk[p].edit = fresh[p]
GateEditsSurvive == runner = "engine" => EditKept

\* A recovery point that nobody confirmed goes away only with the rollback
\* that used it up or failed with it, or while it was still being copied.
RecoveryPointsStay ==
  [][\A s \in Snaps : snaps[s] # None /\ snaps'[s] = None =>
       snaps[s].good \/ (run.snap = s /\ run.pc \in {"copy", "quarantine", "restore"})]_vars

\* Migrations need not be idempotent.  A page is replayed only what was cut
\* off itself, and no more often, however many migrations and attempts there
\* are.  Exception: what an operator's restore left with the marks of later
\* migrations, whose records it took back.
OneReplayPerCut ==
  ~torn => \A p \in Pages \ strays, m \in Migs :
             disk[p] # None => disk[p].did[m] <= 1 + cutoff[m]
=============================================================================
