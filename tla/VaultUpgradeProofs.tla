------------------------- MODULE VaultUpgradeProofs -------------------------
(* Machine-checked theorems about VaultUpgrade.                            *)
EXTENDS VaultUpgrade, FiniteSetTheorems, WellFoundedInduction, TLAPS

-----------------------------------------------------------------------------
(* Shapes                                                                  *)

\* What the file f may hold.
Holdable(f) == IF f = "pin" THEN Nat ELSE IF f = "state" THEN StateRec ELSE PageText

IsVault(t) == t \in Trees /\ \A f \in Files : t[f] = None \/ t[f] \in Holdable(f)

IsSnap(x) == x \in Snapshot /\ IsVault(x.tree)
Saved     == DOMAIN snaps = Snaps /\ \A s \in Snaps : snaps[s] = None \/ IsSnap(snaps[s])

RunFields == {"pc", "plan", "k", "flags", "snap", "todo", "added", "modified"}

\* An invocation's migrations are the system's, and its pages the vault's.
IsRun(r) ==
  /\ DOMAIN r = RunFields
  /\ r.plan \subseteq Migs
  /\ r.pc = "apply" => r.k \in Migs /\ r.todo \subseteq Pages
  /\ r.pc = "copy" => r.todo \subseteq Pages
  /\ r.todo \subseteq Files /\ r.added \subseteq Files /\ r.modified \subseteq Files
  /\ r.snap \in Snaps \cup {0}

\* The snapshot of an invocation is there until retention may have taken it.
HasSnap(r) ==
  /\ r.pc = "mkdir" => runs \in Snaps
  /\ r.pc # "accepted" /\ r.snap # 0 => snaps[r.snap] # None
  /\ r.pc = "regate" /\ r.snap # 0 => snaps[r.snap].plan # None

\* A rollback has a snapshot, and brings back only what is in it.
Restorable(r) ==
  /\ r.pc \in {"quarantine", "restore"} => r.snap # 0
  /\ r.pc = "restore" => \A f \in r.todo : snaps[r.snap].tree[f] # None

Typed == /\ IsVault(disk) /\ Saved /\ runs \in 0..MaxRuns /\ edits \in Nat /\ born \subseteq Pages
         /\ IsRun(run) /\ HasSnap(run) /\ Restorable(run)

LEMMA Plain == /\ None \notin PageText /\ None \notin StateRec /\ None \notin Nat
               /\ \A x : IsSnap(x) => x # None
BY UpgradeAssumption DEF IsSnap

LEMMA IdleIs == IsRun(Idle) /\ HasSnap(Idle) /\ Restorable(Idle) /\ Idle.pc = "idle"
BY DEF Idle, IsRun, HasSnap, Restorable, RunFields

\* One file of a vault is replaced by something it may hold.
LEMMA VaultWith ==
  ASSUME NEW t, IsVault(t), NEW f \in Files, NEW x, x = None \/ x \in Holdable(f)
  PROVE  IsVault([t EXCEPT ![f] = x])
<1>1. x \in {None} \cup PageText \cup StateRec \cup Nat
  BY DEF Holdable
<1>2. [t EXCEPT ![f] = x] \in Trees
  BY <1>1 DEF IsVault, Trees
<1>3. \A g \in Files : [t EXCEPT ![f] = x][g] = IF g = f THEN x ELSE t[g]
  BY DEF IsVault, Trees
<1> QED BY <1>2, <1>3 DEF IsVault

\* A page as it is made, migrated and edited.
LEMMA PageIs ==
  /\ Untouched \in PageText
  /\ \A t \in PageText, m \in Migs : [t EXCEPT !.did[m] = @ + 1] \in PageText
  /\ \A m \in Migs : [Untouched EXCEPT !.did[m] = 1] \in PageText
  /\ \A t \in PageText, e \in Nat : [t EXCEPT !.edit = e] \in PageText
<1>1. Untouched \in PageText
  BY DEF Untouched, PageText
<1>2. ASSUME NEW t \in PageText, NEW m \in Migs, NEW n \in Nat
      PROVE  [t EXCEPT !.did[m] = n] \in PageText
  BY DEF PageText
<1>3. ASSUME NEW t \in PageText, NEW m \in Migs PROVE t.did[m] + 1 \in Nat
  BY DEF PageText
<1>4. ASSUME NEW t \in PageText, NEW e \in Nat PROVE [t EXCEPT !.edit = e] \in PageText
  BY DEF PageText
<1> QED BY <1>1, <1>2, <1>3, <1>4

LEMMA FilesAre ==
  /\ "pin" \in Files /\ "state" \in Files /\ Pages \subseteq Files
  /\ \A p \in Pages : Holdable(p) = PageText
  /\ Holdable("pin") = Nat /\ Holdable("state") = StateRec
BY UpgradeAssumption DEF Files, Holdable

LEMMA TypedInit == Init => Typed
<1> SUFFICES ASSUME Init PROVE Typed
  OBVIOUS
<1>1. IsVault(disk)
  <2>1. NoState \in StateRec
    BY DEF NoState, StateRec
  <2>2. ASSUME NEW f \in Files PROVE disk[f] = None \/ disk[f] \in Holdable(f)
    <3>1. CASE f = "pin"
      BY <3>1, UpgradeAssumption DEF Init, Holdable
    <3>2. CASE f = "state"
      BY <3>2, <2>1, UpgradeAssumption DEF Init, Holdable
    <3>3. CASE f # "pin" /\ f # "state"
      BY <3>3, PageIs DEF Init, Holdable
    <3> QED BY <3>1, <3>2, <3>3
  <2>3. \A f \in Files : disk[f] \in {None} \cup PageText \cup StateRec \cup Nat
    BY <2>2 DEF Holdable
  <2>4. disk = [f \in Files |-> disk[f]]
    BY DEF Init
  <2> QED BY <2>2, <2>3, <2>4 DEF IsVault, Trees
<1>2. Saved /\ run = Idle /\ runs = 0 /\ edits = 0 /\ born = {}
  BY DEF Init, Saved
<1> QED BY <1>1, <1>2, IdleIs, UpgradeAssumption DEF Typed

-----------------------------------------------------------------------------
(* Steps that move the invocation only                                     *)

\* Whatever the invocation does, the disk and the snapshots keep their shape.
LEMMA TypedRun ==
  ASSUME Typed, UNCHANGED <<disk, snaps, edits, born>>, runs' \in 0..MaxRuns,
         IsRun(run'), HasSnap(run)', Restorable(run)'
  PROVE  Typed'
BY DEF Typed, Saved, IsVault, IsSnap, Holdable, IsRun

\* Going on to a step that asks nothing.
LEMMA GoesOn ==
  ASSUME Typed, UNCHANGED <<snaps, runs>>, NEW to, Go(to), run.pc # "accepted",
         to \notin {"mkdir", "copy", "apply", "regate", "quarantine", "restore"}
  PROVE  /\ IsRun(run') /\ HasSnap(run)' /\ Restorable(run)'
         /\ run'.snap = run.snap /\ run'.pc = to
<1>1. run' = [run EXCEPT !.pc = to] /\ DOMAIN run = RunFields
  BY DEF Go, Typed, IsRun
<1>2. /\ DOMAIN run' = RunFields /\ run'.plan = run.plan /\ run'.todo = run.todo /\ run'.pc = to
      /\ run'.added = run.added /\ run'.modified = run.modified /\ run'.snap = run.snap
  BY <1>1 DEF RunFields
<1> QED BY <1>2 DEF Typed, IsRun, HasSnap, Restorable

LEMMA Ends ==
  ASSUME End
  PROVE  IsRun(run') /\ HasSnap(run)' /\ Restorable(run)' /\ run'.pc = "idle"
BY IdleIs DEF End, HasSnap, Restorable, Idle

LEMMA TypedStart ==
  ASSUME Typed, NEW flags, Start(flags)
  PROVE  Typed'
<1>1. runs' \in Snaps /\ UNCHANGED <<disk, snaps, edits, born>>
  BY UpgradeAssumption DEF Start, Typed, Snaps
<1>2. Pending \subseteq Migs
  BY DEF Pending, Span
<1>3. Unfinished \in Snaps \cup {0} /\ (Unfinished # 0 => snaps[Unfinished] # None)
  BY DEF Unfinished, NewestOpen, Open
<1>4. DOMAIN run' = RunFields /\ run'.plan = Pending /\ run'.todo = {} /\ run'.added = {}
      /\ run'.modified = {} /\ run'.pc \in {"recover", "load", "mkdir"}
      /\ run'.snap \in {0, Unfinished}
  BY DEF Start, Idle, RunFields
<1>5. IsRun(run')
  BY <1>2, <1>3, <1>4 DEF IsRun
<1>6. HasSnap(run)' /\ Restorable(run)'
  BY <1>1, <1>3, <1>4 DEF HasSnap, Restorable
<1> QED BY <1>1, <1>5, <1>6, TypedRun, UpgradeAssumption DEF Snaps

LEMMA TypedMoves ==
  ASSUME Typed,
         \/ Load \/ Recompose \/ Freeze \/ Raise \/ GatePasses \/ GateFails \/ Accepted
         \/ RegatePasses \/ RegateFails \/ RestoreSaved \/ Kill
  PROVE  Typed'
<1>0. IsRun(run) /\ HasSnap(run) /\ Restorable(run) /\ runs \in 0..MaxRuns
  BY DEF Typed
<1>1. UNCHANGED <<disk, snaps, edits, born>> /\ runs' \in 0..MaxRuns
  <2>1. UNCHANGED <<disk, snaps, edits, born>>
    BY DEF Load, Recompose, Freeze, Raise, GatePasses, GateFails, Accepted,
           RegatePasses, RegateFails, RestoreSaved, Kill, world, history
  <2>2. UNCHANGED runs \/ RestoreSaved
    BY DEF Load, Recompose, Freeze, Raise, GatePasses, GateFails, Accepted,
           RegatePasses, RegateFails, Kill
  <2>3. RestoreSaved => runs < MaxRuns /\ runs' = runs + 1
    BY DEF RestoreSaved
  <2>4. MaxRuns \in Nat
    BY UpgradeAssumption
  <2> QED BY <1>0, <2>1, <2>2, <2>3, <2>4
<1>2. CASE Load
  <2>1. UNCHANGED <<snaps, runs>> /\ run.pc = "load"
    BY <1>2 DEF Load, At
  <2>2. CASE Left = {}
    <3>1. PICK to \in {"pin", "freeze"} : Go(to)
      BY <1>2, <2>2 DEF Load
    <3> QED BY <2>1, <3>1, <1>1, GoesOn, TypedRun
  <2>3. CASE Left # {}
    <3>1. PICK m \in Left : run' = [run EXCEPT !.pc = "apply", !.k = m,
                                      !.todo = Touch[m] \cup Make[m] \cup Drop[m]]
      BY <1>2, <2>3 DEF Load
    <3>2. m \in Migs
      BY <1>0 DEF Left, IsRun
    <3>3. Touch[m] \cup Make[m] \cup Drop[m] \subseteq Pages
      BY <3>2, UpgradeAssumption
    <3>4. DOMAIN run' = RunFields /\ run'.plan = run.plan /\ run'.snap = run.snap /\ run'.k = m
          /\ run'.todo = Touch[m] \cup Make[m] \cup Drop[m] /\ run'.pc = "apply"
          /\ run'.added = run.added /\ run'.modified = run.modified
      BY <3>1, <1>0 DEF IsRun, RunFields
    <3>5. IsRun(run')
      BY <3>2, <3>3, <3>4, <1>0 DEF IsRun, Files
    <3>6. HasSnap(run)' /\ Restorable(run)'
      BY <3>4, <2>1, <1>0 DEF HasSnap, Restorable
    <3> QED BY <3>5, <3>6, <1>1, TypedRun
  <2> QED BY <2>2, <2>3
<1>3. CASE Recompose \/ GatePasses \/ RegatePasses
  <2>1. UNCHANGED <<snaps, runs>> /\ run.pc # "accepted"
    BY <1>3 DEF Recompose, GatePasses, RegatePasses, At
  <2>2. PICK to \in {"gate", "freeze", "version", "accepted", "confirm", "prune"} : Go(to)
    BY <1>3 DEF Recompose, GatePasses, RegatePasses
  <2> QED BY <2>1, <2>2, <1>1, GoesOn, TypedRun
<1>4. CASE End
  BY <1>1, <1>4, Ends, TypedRun
\* What was added and modified is noted, and the step after it is taken.
<1>5. ASSUME NEW A \in SUBSET Files, NEW M \in SUBSET Files, NEW to \in {"plan", "quarantine"},
             run' = [run EXCEPT !.pc = to, !.added = A, !.modified = M], run.pc # "accepted",
             to = "quarantine" => run.snap # 0, UNCHANGED runs
      PROVE  Typed'
  <2>1. DOMAIN run' = RunFields /\ run'.plan = run.plan /\ run'.snap = run.snap
        /\ run'.todo = run.todo /\ run'.pc = to /\ run'.added = A /\ run'.modified = M
    BY <1>5, <1>0 DEF IsRun, RunFields
  <2>2. IsRun(run')
    BY <2>1, <1>0 DEF IsRun
  <2>3. HasSnap(run)' /\ Restorable(run)'
    BY <2>1, <1>5, <1>1, <1>0 DEF HasSnap, Restorable
  <2> QED BY <2>2, <2>3, <1>1, TypedRun
<1>6. Added(run.snap) \in SUBSET Files /\ Changed(run.snap) \in SUBSET Files
  BY DEF Added, Changed
<1>7. CASE Freeze \/ Raise \/ GateFails
  <2>1. UNCHANGED runs /\ run.pc # "accepted"
    BY <1>7 DEF Freeze, Raise, GateFails, At
  <2>2. CASE Freeze
    BY <2>1, <2>2, <1>5, <1>6 DEF Freeze
  <2>3. CASE Raise
    BY <2>1, <2>3, <1>4, <1>5, <1>6 DEF Raise
  <2>4. CASE GateFails
    <3>1. CASE run.snap # 0 /\ runner = "engine"
      <4>1. run' = [run EXCEPT !.pc = "quarantine", !.added = run.added, !.modified = run.modified]
        BY <2>4, <3>1, <1>0 DEF GateFails, Go, IsRun, RunFields
      <4> QED BY <4>1, <3>1, <2>1, <1>0, <1>5 DEF IsRun
    <3>2. CASE ~(run.snap # 0 /\ runner = "engine")
      BY <3>2, <2>1, <2>4, <1>4, <1>5, <1>6 DEF GateFails
    <3> QED BY <3>1, <3>2
  <2> QED BY <1>7, <2>2, <2>3, <2>4
<1>8. CASE RegateFails
  <2>1. CASE run.snap = 0
    BY <2>1, <1>8, <1>4 DEF RegateFails
  <2>2. CASE run.snap # 0
    <3>1. snaps[run.snap].plan \in Plans /\ run.pc = "regate"
      BY <1>8, <2>2, <1>0 DEF RegateFails, At, HasSnap, IsRun, Typed, Saved, IsSnap, Snapshot
    <3> QED BY <1>8, <2>2, <3>1, <1>1, <1>5 DEF RegateFails, Plans
  <2> QED BY <2>1, <2>2
<1>9. CASE RestoreSaved
  <2>1. PICK s \in Snaps :
          /\ snaps[s] # None /\ snaps[s].plan # None
          /\ run' = [Idle EXCEPT !.pc = "quarantine", !.snap = s, !.flags = {"saved"},
                       !.added = snaps[s].plan.added, !.modified = snaps[s].plan.modified]
    BY <1>9 DEF RestoreSaved
  <2>2. snaps[s].plan \in Plans
    BY <2>1 DEF Typed, Saved, IsSnap, Snapshot
  <2>3. DOMAIN run' = RunFields /\ run'.plan = {} /\ run'.snap = s /\ run'.todo = {}
        /\ run'.pc = "quarantine" /\ run'.added = snaps[s].plan.added
        /\ run'.modified = snaps[s].plan.modified
    BY <2>1 DEF Idle, RunFields
  <2>4. IsRun(run')
    BY <2>2, <2>3 DEF IsRun, Plans
  <2>5. HasSnap(run)' /\ Restorable(run)'
    BY <2>1, <2>3, <1>1, UpgradeAssumption DEF HasSnap, Restorable, Snaps
  <2> QED BY <2>4, <2>5, <1>1, TypedRun
<1> QED BY <1>2, <1>3, <1>4, <1>7, <1>8, <1>9 DEF Accepted, Kill

-----------------------------------------------------------------------------
(* Steps on snapshots                                                      *)

\* Every snapshot that stays is one as it should be.
LEMMA TypedSnaps ==
  ASSUME Typed, UNCHANGED <<disk, runs, edits, born>>, Saved',
         IsRun(run'), HasSnap(run)', Restorable(run)'
  PROVE  Typed'
BY DEF Typed, IsVault, Holdable

LEMMA SavedWith ==
  ASSUME Saved, NEW s, NEW x, snaps' = [snaps EXCEPT ![s] = x],
         s \in Snaps => x = None \/ IsSnap(x)
  PROVE  Saved'
BY DEF Saved, IsSnap, IsVault, Holdable

\* The snapshot of an invocation with another manifest, plan or mark.
LEMMA SnapWith ==
  ASSUME NEW x, IsSnap(x)
  PROVE  /\ IsSnap([x EXCEPT !.whole = TRUE]) /\ IsSnap([x EXCEPT !.good = TRUE])
         /\ \A d \in Plans : IsSnap([x EXCEPT !.plan = d]) /\ [x EXCEPT !.plan = d].plan = d
         /\ \A f \in Files : \A y \in {None} \cup Holdable(f) : IsSnap([x EXCEPT !.tree[f] = y])
<1>1. x \in Snapshot /\ IsVault(x.tree)
  BY DEF IsSnap
<1>2. /\ IsSnap([x EXCEPT !.whole = TRUE]) /\ IsSnap([x EXCEPT !.good = TRUE])
      /\ \A d \in Plans : IsSnap([x EXCEPT !.plan = d]) /\ [x EXCEPT !.plan = d].plan = d
  BY <1>1 DEF IsSnap, Snapshot
<1>3. ASSUME NEW f \in Files, NEW y, y = None \/ y \in Holdable(f)
      PROVE  IsSnap([x EXCEPT !.tree[f] = y])
  <2> DEFINE u == [x.tree EXCEPT ![f] = y]
  <2>1. IsVault(u)
    BY <1>1, <1>3, VaultWith
  <2>2. [x EXCEPT !.tree[f] = y] = [x EXCEPT !.tree = u]
    OBVIOUS
  <2> HIDE DEF u
  <2>3. [x EXCEPT !.tree = u] \in Snapshot /\ [x EXCEPT !.tree = u].tree = u
    BY <1>1, <2>1 DEF Snapshot, IsVault
  <2> QED BY <2>1, <2>2, <2>3 DEF IsSnap
<1> QED BY <1>2, <1>3

\* No snapshot goes that should stay.
PointsKept ==
  \A s \in Snaps : snaps[s] # None /\ snaps'[s] = None =>
    snaps[s].good \/ (run.snap = s /\ run.pc \in {"copy", "quarantine", "restore"})

\* A step of an invocation on a snapshot that is or becomes its own.
LEMMA TypedMark ==
  ASSUME Typed, NEW s, NEW x, snaps' = [snaps EXCEPT ![s] = x], s \in Snaps => IsSnap(x),
         UNCHANGED <<disk, runs, edits, born>>, IsRun(run'), run'.snap \in {s, run.snap},
         run.pc # "accepted", run'.pc \notin {"mkdir", "quarantine", "restore"},
         run'.pc = "regate" => run'.snap = s /\ (s \in Snaps => x.plan # None)
  PROVE  Typed' /\ PointsKept
<1>1. Saved'
  BY SavedWith DEF Typed
<1>2. HasSnap(run)' /\ Restorable(run)'
  BY Plain DEF Typed, HasSnap, Restorable, IsRun, Saved
<1>3. PointsKept
  BY Plain DEF Typed, Saved, PointsKept
<1> QED BY <1>1, <1>2, <1>3, TypedSnaps

\* The snapshot an invocation has.
LEMMA OwnSnap ==
  ASSUME Typed, run.pc # "accepted", run.snap \in Snaps
  PROVE  IsSnap(snaps[run.snap])
BY UpgradeAssumption DEF Typed, HasSnap, Saved, Snaps

LEMMA TypedSnapshot ==
  ASSUME Typed, Mkdir \/ Copy \/ Manifest \/ SnapshotFails
  PROVE  Typed' /\ PointsKept
<1>0. IsRun(run) /\ HasSnap(run) /\ IsVault(disk) /\ UNCHANGED <<disk, runs, edits, born>>
      /\ run.pc # "accepted"
  BY DEF Typed, Mkdir, Copy, Manifest, SnapshotFails, world, history, At
<1>1. CASE Mkdir
  <2> DEFINE x == [tree |-> [f \in Files |-> IF f \in Pages THEN None ELSE disk[f]],
                   whole |-> FALSE, plan |-> None, good |-> FALSE]
  <2>1. snaps' = [snaps EXCEPT ![runs] = x]
    BY <1>1 DEF Mkdir
  <2>2. IsSnap(x)
    BY <1>0 DEF IsSnap, IsVault, Snapshot, Trees
  <2> HIDE DEF x
  <2>3. DOMAIN run' = RunFields /\ run'.plan = run.plan /\ run'.pc = "copy" /\ run'.snap = runs
        /\ run'.todo \subseteq Pages /\ run'.added = run.added /\ run'.modified = run.modified
    BY <1>1, <1>0 DEF Mkdir, IsRun, RunFields
  <2>4. IsRun(run')
    BY <1>0, <1>1, <2>3 DEF IsRun, HasSnap, Mkdir, At, Files
  <2> QED BY <1>0, <2>1, <2>2, <2>3, <2>4, TypedMark
<1>2. CASE Copy
  <2>1. PICK f \in run.todo : /\ snaps' = [snaps EXCEPT ![run.snap].tree[f] = disk[f]]
                              /\ run' = [run EXCEPT !.todo = @ \ {f}]
    BY <1>2 DEF Copy
  <2> DEFINE x == [snaps[run.snap] EXCEPT !.tree[f] = disk[f]]
  <2>2. snaps' = [snaps EXCEPT ![run.snap] = x]
    BY <2>1
  <2>3. run.snap \in Snaps => IsSnap(x)
    <3>1. f \in Files /\ (disk[f] = None \/ disk[f] \in Holdable(f))
      BY <1>0 DEF IsRun, IsVault
    <3> QED BY <3>1, <1>0, OwnSnap, SnapWith
  <2> HIDE DEF x
  <2>4. DOMAIN run' = RunFields /\ run'.plan = run.plan /\ run'.pc = "copy" /\ run'.snap = run.snap
        /\ run'.todo \subseteq run.todo /\ run'.added = run.added /\ run'.modified = run.modified
    BY <1>2, <1>0, <2>1 DEF Copy, At, IsRun, RunFields
  <2>5. IsRun(run')
    BY <1>0, <1>2, <2>4 DEF IsRun, Copy, At
  <2> QED BY <1>0, <2>2, <2>3, <2>4, <2>5, TypedMark
<1>3. CASE Manifest
  <2> DEFINE x == [snaps[run.snap] EXCEPT !.whole = TRUE]
  <2>1. snaps' = [snaps EXCEPT ![run.snap] = x]
    BY <1>3 DEF Manifest
  <2>2. run.snap \in Snaps => IsSnap(x)
    BY <1>0, OwnSnap, SnapWith
  <2> HIDE DEF x
  <2>3. DOMAIN run' = RunFields /\ run'.plan = run.plan /\ run'.pc = "load" /\ run'.snap = run.snap
        /\ run'.todo = run.todo /\ run'.added = run.added /\ run'.modified = run.modified
    BY <1>3, <1>0 DEF Manifest, Go, IsRun, RunFields
  <2>4. IsRun(run')
    BY <1>0, <2>3 DEF IsRun
  <2> QED BY <1>0, <2>1, <2>2, <2>3, <2>4, TypedMark
<1>4. CASE SnapshotFails
  <2>1. Typed'
    BY <1>0, <1>4, Ends, SavedWith, TypedSnaps DEF SnapshotFails, Typed
  <2>2. PointsKept
    BY <1>4 DEF SnapshotFails, At, PointsKept, Typed, Saved
  <2> QED BY <2>1, <2>2
<1> QED BY <1>1, <1>2, <1>3, <1>4

\* Going on beside a change of the own snapshot.
LEMMA GoesTo ==
  ASSUME IsRun(run), NEW to, to \notin {"copy", "apply"}, Go(to)
  PROVE  IsRun(run') /\ run'.pc = to /\ run'.snap = run.snap
<1>1. DOMAIN run' = RunFields /\ run'.plan = run.plan /\ run'.snap = run.snap
      /\ run'.todo = run.todo /\ run'.pc = to
      /\ run'.added = run.added /\ run'.modified = run.modified
  BY DEF Go, IsRun, RunFields
<1> QED BY <1>1 DEF IsRun

LEMMA TypedMarks ==
  ASSUME Typed, RecordPlan \/ Confirm \/ Prune \/ Recover \/ RolledBack \/ RestoreFails
  PROVE  Typed' /\ PointsKept
<1>0. IsRun(run) /\ IsVault(disk) /\ Saved /\ UNCHANGED <<disk, runs, edits, born>>
      /\ run.pc # "accepted"
  BY DEF Typed, RecordPlan, Confirm, Prune, Recover, RolledBack, RestoreFails, world, history, At
\* A plan for the own snapshot.
<1>1. ASSUME NEW A \in SUBSET Files, NEW M \in SUBSET Files, NEW to \in {"recompose", "gate", "regate", "version"},
             snaps' = [snaps EXCEPT ![run.snap].plan = [added |-> A, modified |-> M, image |-> disk]],
             Go(to)
      PROVE  Typed' /\ PointsKept
  <2> DEFINE d == [added |-> A, modified |-> M, image |-> disk]
             x == [snaps[run.snap] EXCEPT !.plan = d]
  <2>1. d \in Plans
    BY <1>0 DEF Plans, IsVault
  <2>2. d # None
    BY <2>1, UpgradeAssumption
  <2> HIDE DEF d
  <2>3. snaps' = [snaps EXCEPT ![run.snap] = x]
    BY <1>1 DEF d
  <2>4. run.snap \in Snaps => IsSnap(x) /\ x.plan # None
    BY <1>0, <2>1, <2>2, OwnSnap, SnapWith
  <2> HIDE DEF x
  <2> QED BY <1>0, <1>1, <2>3, <2>4, GoesTo, TypedMark
<1>2. CASE RecordPlan
  <2>1. run.added \in SUBSET Files /\ run.modified \in SUBSET Files
    BY <1>0 DEF IsRun
  <2>2. PICK to \in {"recompose", "gate"} : Go(to)
    BY <1>2 DEF RecordPlan
  <2> QED BY <1>1, <1>2, <2>1, <2>2 DEF RecordPlan
<1>3. CASE Recover
  <2>1. PICK to \in {"regate", "version"} : Go(to)
    BY <1>3 DEF Recover
  <2>2. CASE run.snap # 0 /\ snaps[run.snap].plan = None
    <3>1. Added(run.snap) \in SUBSET Files /\ Changed(run.snap) \in SUBSET Files
      BY DEF Added, Changed
    <3> QED BY <1>1, <1>3, <2>1, <2>2, <3>1 DEF Recover
  <2>3. CASE ~(run.snap # 0 /\ snaps[run.snap].plan = None)
    <3>1. UNCHANGED snaps
      BY <1>3, <2>3 DEF Recover
    <3>2. IsRun(run') /\ run'.pc = to /\ run'.snap = run.snap
      BY <1>0, <2>1, GoesTo
    <3>3. HasSnap(run)' /\ Restorable(run)'
      BY <1>0, <2>3, <3>1, <3>2 DEF Typed, HasSnap, Restorable
    <3> QED BY <1>0, <3>1, <3>2, <3>3, TypedRun DEF Typed, PointsKept
  <2> QED BY <2>2, <2>3
<1>4. CASE Confirm
  <2> DEFINE x == [snaps[run.snap] EXCEPT !.good = TRUE]
  <2>1. snaps' = [snaps EXCEPT ![run.snap] = x] /\ Go("prune")
    BY <1>4 DEF Confirm
  <2>2. run.snap \in Snaps => IsSnap(x)
    BY <1>0, OwnSnap, SnapWith
  <2> HIDE DEF x
  <2>3. IsRun(run') /\ run'.pc = "prune" /\ run'.snap = run.snap
    BY <1>0, <2>1, GoesTo
  <2> QED BY <1>0, <2>1, <2>2, <2>3, TypedMark
<1>5. CASE Prune
  <2>1. Saved'
    BY <1>0, <1>5 DEF Prune, Saved, IsSnap, IsVault, Holdable
  <2>2. IsRun(run') /\ run'.pc = "accepted"
    BY <1>0, <1>5, GoesTo DEF Prune
  <2>3. HasSnap(run)' /\ Restorable(run)'
    BY <2>2 DEF HasSnap, Restorable
  <2>4. PointsKept
    BY <1>5 DEF Prune, Spent, PointsKept
  <2> QED BY <1>0, <2>1, <2>2, <2>3, <2>4, TypedSnaps
<1>6. CASE RolledBack \/ RestoreFails
  <2>1. End /\ (snaps' = snaps \/ snaps' = [snaps EXCEPT ![run.snap] = None])
    BY <1>6 DEF RolledBack, RestoreFails
  <2>2. Saved'
    BY <1>0, <2>1, SavedWith DEF Saved, IsSnap, IsVault, Holdable
  <2>3. PointsKept
    BY <1>0, <1>6, <2>1 DEF RolledBack, RestoreFails, At, PointsKept, Saved
  <2> QED BY <1>0, <2>1, <2>2, <2>3, Ends, TypedSnaps
<1> QED BY <1>2, <1>3, <1>4, <1>5, <1>6

-----------------------------------------------------------------------------
(* Steps on the vault                                                      *)

LEMMA TypedDisk ==
  ASSUME Typed, UNCHANGED <<snaps, runs>>, edits' \in Nat, born' \subseteq Pages,
         NEW f \in Files, NEW x, x = None \/ x \in Holdable(f),
         disk' = [disk EXCEPT ![f] = x],
         IsRun(run'), HasSnap(run)', Restorable(run)'
  PROVE  Typed'
<1>1. IsVault(disk')
  BY VaultWith DEF Typed
<1> QED BY <1>1 DEF Typed, Saved, IsSnap, IsVault, Holdable

\* A run whose files to do shrink.
LEMMA FewerToDo ==
  ASSUME Typed, NEW f, run' = [run EXCEPT !.todo = @ \ {f}], UNCHANGED <<runs, snaps>>
  PROVE  IsRun(run') /\ HasSnap(run)' /\ Restorable(run)'
<1>1. DOMAIN run = RunFields
  BY DEF Typed, IsRun
<1>2. DOMAIN run' = RunFields /\ run'.plan = run.plan /\ run'.snap = run.snap /\ run'.k = run.k
      /\ run'.todo = run.todo \ {f} /\ run'.pc = run.pc
      /\ run'.added = run.added /\ run'.modified = run.modified
  BY <1>1 DEF RunFields
<1> QED BY <1>2 DEF Typed, IsRun, HasSnap, Restorable

\* A migration makes a page vanish only when it drops it.
LEMMA MigrateIs ==
  ASSUME Typed, Migrate
  PROVE  \E p \in run.todo : \E x \in {None} \cup PageText :
           /\ p \in Pages /\ run.k \in Migs /\ run' = [run EXCEPT !.todo = @ \ {p}]
           /\ disk' = [disk EXCEPT ![p] = x]
           /\ x = None => disk[p] = None \/ p \in Drop[run.k]
<1>1. PICK p \in run.todo : /\ run' = [run EXCEPT !.todo = @ \ {p}]
                            /\ disk' = [disk EXCEPT ![p] = Output(run.k, p)]
  BY DEF Migrate
<1>2. p \in Pages /\ run.k \in Migs
  BY DEF Migrate, At, Typed, IsRun
<1>3. disk[p] = None \/ disk[p] \in PageText
  BY <1>2, FilesAre DEF Typed, IsVault
<1>4. /\ Output(run.k, p) \in {None} \cup PageText
      /\ Output(run.k, p) = None => disk[p] = None \/ p \in Drop[run.k]
  <2>1. CASE p \in Drop[run.k] \/ disk[p] = None
    <3>1. Output(run.k, p) \in {None, [Untouched EXCEPT !.did[run.k] = 1]}
      BY <2>1 DEF Output
    <3> QED BY <2>1, <3>1, <1>2, PageIs
  <2>2. CASE p \notin Drop[run.k] /\ disk[p] # None
    <3>1. Output(run.k, p) = [disk[p] EXCEPT !.did[run.k] = @ + 1]
      BY <2>2 DEF Output
    <3>2. Output(run.k, p) \in PageText
      BY <2>2, <3>1, <1>2, <1>3, PageIs
    <3> QED BY <3>2, Plain
  <2> QED BY <2>1, <2>2
<1> QED BY <1>1, <1>2, <1>4

LEMMA TypedApply ==
  ASSUME Typed, Migrate \/ RecordApplied \/ WritePin \/ RecordVersion
  PROVE  Typed'
<1>0. /\ IsVault(disk) /\ IsRun(run) /\ edits \in Nat /\ born \subseteq Pages
      /\ UNCHANGED <<snaps, runs, edits, born>> /\ run.pc # "accepted"
  BY DEF Typed, Migrate, RecordApplied, WritePin, RecordVersion, world, history, At
<1>1. State \in StateRec
  BY <1>0, FilesAre DEF State, NoState, StateRec, IsVault
<1>2. CASE Migrate
  <2>1. PICK p \in run.todo, x \in {None} \cup PageText :
          /\ p \in Pages /\ run' = [run EXCEPT !.todo = @ \ {p}]
          /\ disk' = [disk EXCEPT ![p] = x]
    BY <1>2, MigrateIs
  <2>2. p \in Files /\ (x = None \/ x \in Holdable(p))
    BY <2>1, FilesAre
  <2> QED BY <1>0, <2>1, <2>2, FewerToDo, TypedDisk
<1>3. CASE RecordApplied
  <2> DEFINE x == [applied |-> State.applied \cup {run.k},
                   version |-> IF runner = "pack" THEN Checkpoint ELSE State.version]
  <2>1. disk' = [disk EXCEPT !["state"] = x] /\ Go("load")
    BY <1>3, <1>0 DEF RecordApplied, Go
  <2>2. x \in StateRec
    <3>1. run.k \in Migs /\ To[run.k] \in Nat
      BY <1>0, <1>3, UpgradeAssumption DEF RecordApplied, At, IsRun
    <3>2. Checkpoint \in Nat
      BY <1>1, <3>1 DEF Checkpoint, StateRec
    <3> QED BY <1>1, <3>1, <3>2 DEF StateRec
  <2> HIDE DEF x
  <2> QED BY <1>0, <2>1, <2>2, FilesAre, GoesOn, TypedDisk
<1>4. CASE WritePin
  BY <1>0, <1>4, FilesAre, UpgradeAssumption, Plain, GoesOn, TypedDisk DEF WritePin
<1>5. CASE RecordVersion
  <2> DEFINE x == [State EXCEPT !.version = Target]
  <2>1. disk' = [disk EXCEPT !["state"] = x]
    BY <1>5 DEF RecordVersion
  <2>2. x \in StateRec
    BY <1>1, UpgradeAssumption DEF StateRec
  <2> HIDE DEF x
  <2>3. PICK to \in {"accepted", "confirm"} : Go(to)
    BY <1>5 DEF RecordVersion
  <2> QED BY <1>0, <2>1, <2>2, <2>3, FilesAre, GoesOn, TypedDisk
<1> QED BY <1>2, <1>3, <1>4, <1>5

LEMMA TypedBack ==
  ASSUME Typed, Quarantine \/ Restore
  PROVE  Typed'
<1>0. /\ IsVault(disk) /\ IsRun(run) /\ edits \in Nat /\ born \subseteq Pages
      /\ UNCHANGED <<snaps, runs, edits, born>>
      /\ run.pc \in {"quarantine", "restore"} /\ run.snap \in Snaps /\ IsSnap(snaps[run.snap])
  BY DEF Typed, Quarantine, Restore, world, history, At, Restorable, IsRun, HasSnap, Saved
<1>1. CASE Quarantine /\ run.added # {}
  <2>1. PICK f \in run.added : /\ run' = [run EXCEPT !.added = @ \ {f}]
                               /\ disk' = [disk EXCEPT ![f] = None]
    BY <1>1 DEF Quarantine
  <2>2. DOMAIN run' = RunFields /\ run'.plan = run.plan /\ run'.snap = run.snap
        /\ run'.todo = run.todo /\ run'.pc = "quarantine"
        /\ run'.added = run.added \ {f} /\ run'.modified = run.modified
    BY <1>0, <1>1, <2>1 DEF IsRun, RunFields, Quarantine, At
  <2>3. IsRun(run') /\ f \in Files
    BY <1>0, <2>2 DEF IsRun
  <2>4. HasSnap(run)' /\ Restorable(run)'
    BY <1>0, <2>2, Plain, UpgradeAssumption DEF HasSnap, Restorable, Snaps
  <2> QED BY <1>0, <2>1, <2>3, <2>4, TypedDisk
<1>2. CASE Quarantine /\ run.added = {}
  <2> DEFINE todo == {f \in Files : snaps[run.snap].tree[f] # None}
  <2>1. run' = [run EXCEPT !.pc = "restore", !.todo = todo] /\ UNCHANGED disk
    BY <1>2 DEF Quarantine
  <2>2. DOMAIN run' = RunFields /\ run'.plan = run.plan /\ run'.snap = run.snap
        /\ run'.todo = todo /\ run'.pc = "restore"
        /\ run'.added = run.added /\ run'.modified = run.modified
    BY <1>0, <2>1 DEF IsRun, RunFields
  <2>3. IsRun(run')
    BY <1>0, <2>2 DEF IsRun
  <2>4. HasSnap(run)' /\ Restorable(run)'
    BY <1>0, <2>2, Plain, UpgradeAssumption DEF HasSnap, Restorable, Snaps
  <2> QED BY <1>0, <2>1, <2>3, <2>4, TypedRun DEF Typed
<1>3. CASE Restore
  <2>1. PICK f \in run.todo :
          /\ run' = [run EXCEPT !.todo = @ \ {f}]
          /\ disk' = [disk EXCEPT ![f] =
               IF @ # None /\ f \notin run.modified THEN @ ELSE snaps[run.snap].tree[f]]
    BY <1>3 DEF Restore
  <2>2. PICK x : /\ disk' = [disk EXCEPT ![f] = x]
                 /\ x = disk[f] \/ x = snaps[run.snap].tree[f]
    BY <2>1
  <2>3. f \in Files /\ (x = None \/ x \in Holdable(f))
    BY <1>0, <2>2 DEF IsRun, IsVault, IsSnap
  <2> QED BY <1>0, <2>1, <2>2, <2>3, FewerToDo, TypedDisk
<1> QED BY <1>1, <1>2, <1>3

LEMMA TypedWrite ==
  ASSUME Typed, NEW p \in Pages, Write(p)
  PROVE  Typed'
<1>0. IsVault(disk) /\ edits' \in Nat /\ born' \subseteq Pages /\ UNCHANGED <<snaps, run, runs>>
  BY DEF Typed, Write
<1> DEFINE x == [IF disk[p] = None THEN Untouched ELSE disk[p] EXCEPT !.edit = edits']
<1>1. disk' = [disk EXCEPT ![p] = x]
  BY DEF Write
<1>2. p \in Files /\ x \in Holdable(p)
  BY <1>0, FilesAre, PageIs DEF IsVault
<1> HIDE DEF x
<1>3. IsRun(run') /\ HasSnap(run)' /\ Restorable(run)'
  BY <1>0 DEF Typed, HasSnap, Restorable
<1> QED BY <1>0, <1>1, <1>2, <1>3, TypedDisk

LEMMA TypedStep == Typed /\ [Next]_vars => Typed'
<1>1. ASSUME Typed, NEW p \in Pages, Write(p) PROVE Typed'
  BY <1>1, TypedWrite
<1>2. ASSUME Typed, NEW flags \in Flags, Start(flags) PROVE Typed'
  BY <1>2, TypedStart
<1>3. ASSUME Typed, UNCHANGED vars PROVE Typed'
  <2>1. UNCHANGED <<disk, snaps, run, runs, edits, born>>
    BY <1>3 DEF vars, world, history
  <2> QED BY <2>1, <1>3, TypedRun DEF Typed, HasSnap, Restorable
<1> QED BY <1>1, <1>2, <1>3, TypedMoves, TypedSnapshot, TypedMarks, TypedApply, TypedBack DEF Next

-----------------------------------------------------------------------------
(* Properties                                                              *)

LEMMA NothingLost == ASSUME Typed, Typed', NoPageLost, [Next]_vars PROVE NoPageLost'
<1> SUFFICES ASSUME NEW p \in born', \A m \in Migs : p \notin Drop[m]
             PROVE  disk'[p] # None \/ p \in aside'
  BY DEF NoPageLost
<1>1. p \in Pages /\ p \in Files /\ DOMAIN disk = Files /\ DOMAIN disk' = Files
  BY FilesAre DEF Typed, IsVault, Trees
\* Whoever creates or changes a page leaves one.
<1>2. CASE \E q \in Pages : Write(q)
  <2>1. PICK q \in Pages : Write(q)
    BY <1>2
  <2>2. disk'[q] # None
    <3>1. disk'[q] = [IF disk[q] = None THEN Untouched ELSE disk[q] EXCEPT !.edit = edits']
      BY <1>1, <2>1, FilesAre DEF Write
    <3>2. disk'[q] \in PageText
      BY <2>1, <3>1, FilesAre, PageIs DEF Typed, IsVault, Write
    <3> QED BY <3>2, Plain
  <2>3. p # q => disk'[p] = disk[p] /\ p \in born
    BY <1>1, <2>1 DEF Write
  <2> QED BY <2>1, <2>2, <2>3 DEF Write, NoPageLost
<1>3. CASE p \in born /\ (disk'[p] = None => disk[p] = None \/ p \in aside') /\ aside \subseteq aside'
  BY <1>3 DEF NoPageLost
<1>4. CASE UNCHANGED <<disk, aside, born>>
  BY <1>3, <1>4
<1>5. CASE Migrate
  <2>1. PICK q \in run.todo, x \in {None} \cup PageText :
          /\ q \in Pages /\ run.k \in Migs /\ disk' = [disk EXCEPT ![q] = x]
          /\ x = None => disk[q] = None \/ q \in Drop[run.k]
    BY <1>5, MigrateIs
  <2>2. UNCHANGED <<born, aside>>
    BY <1>5 DEF Migrate, world, history
  <2> QED BY <1>1, <1>3, <2>1, <2>2
<1>6. CASE RecordApplied \/ WritePin \/ RecordVersion
  <2>1. UNCHANGED <<born, aside>> /\ disk'[p] = disk[p]
    BY <1>1, <1>6, UpgradeAssumption DEF RecordApplied, WritePin, RecordVersion, world, history
  <2> QED BY <1>3, <2>1
<1>7. CASE Quarantine
  <2>1. UNCHANGED born /\ aside \subseteq aside'
    BY <1>7 DEF Quarantine, world, history
  <2>2. disk'[p] = None => disk[p] = None \/ p \in aside'
    BY <1>1, <1>7 DEF Quarantine
  <2> QED BY <1>3, <2>1, <2>2
\* What is copied back is in the snapshot.
<1>8. CASE Restore
  <2>1. PICK f \in run.todo : disk' = [disk EXCEPT ![f] =
               IF @ # None /\ f \notin run.modified THEN @ ELSE snaps[run.snap].tree[f]]
    BY <1>8 DEF Restore
  <2>2. snaps[run.snap].tree[f] # None /\ UNCHANGED <<born, aside>>
    BY <1>8 DEF Restore, At, Typed, Restorable, world, history
  <2> QED BY <1>1, <1>3, <2>1, <2>2
<1> QED BY <1>2, <1>4, <1>5, <1>6, <1>7, <1>8 DEF Next, vars, world, history, Start, Mkdir, Copy,
    Manifest, SnapshotFails, Load, Recompose, Freeze, RecordPlan, Raise, GatePasses, GateFails,
    Confirm, Prune, Accepted, Recover, RegatePasses, RegateFails, RestoreSaved, RolledBack,
    RestoreFails, Kill

\* Whatever is migrated, rolled back and killed, a page that somebody else
\* created is in the vault or set aside, unless a migration is written to
\* delete it.
THEOREM NothingIsLost == Spec => []NoPageLost
<1>1. Init => NoPageLost
  BY DEF Init, NoPageLost
<1> QED BY TypedInit, TypedStep, NothingLost, <1>1, PTL DEF Spec

LEMMA PointsStay == ASSUME Typed, [Next]_vars PROVE PointsKept
<1>1. CASE Mkdir \/ Copy \/ Manifest \/ SnapshotFails
  BY <1>1, TypedSnapshot
<1>2. CASE RecordPlan \/ Confirm \/ Prune \/ Recover \/ RolledBack \/ RestoreFails
  BY <1>2, TypedMarks
<1>3. CASE UNCHANGED snaps
  BY <1>3 DEF PointsKept
<1> QED BY <1>1, <1>2, <1>3 DEF Next, vars, Start, Load, Migrate, RecordApplied, WritePin,
    Recompose, Freeze, Raise, GatePasses, GateFails, RecordVersion, Accepted, RegatePasses,
    RegateFails, RestoreSaved, Quarantine, Restore, Write, Kill

\* A recovery point that nobody confirmed is there until the rollback that
\* uses it up, for any retention and any number of runs.
THEOREM RecoveryPointsAreKept == Spec => RecoveryPointsStay
<1>1. Typed /\ [Next]_vars => [\A s \in Snaps : snaps[s] # None /\ snaps'[s] = None =>
       snaps[s].good \/ (run.snap = s /\ run.pc \in {"copy", "quarantine", "restore"})]_vars
  BY PointsStay DEF PointsKept
<1> QED BY TypedInit, TypedStep, <1>1, PTL DEF Spec, RecoveryPointsStay

-----------------------------------------------------------------------------
(* What each step does, field by field                                     *)

Stays == /\ run'.plan = run.plan /\ run'.k = run.k /\ run'.flags = run.flags
         /\ run'.snap = run.snap
Moves(to) == /\ run'.pc = to /\ Stays /\ run'.todo = run.todo
             /\ run'.added = run.added /\ run'.modified = run.modified
Takes(to, A, M) == /\ run'.pc = to /\ Stays /\ run'.todo = run.todo
                   /\ run'.added = A /\ run'.modified = M
Rests == /\ run'.pc = "idle" /\ run'.plan = {} /\ run'.k = 0 /\ run'.flags = {} /\ run'.snap = 0
         /\ run'.todo = {} /\ run'.added = {} /\ run'.modified = {}

LEMMA Seen ==
  ASSUME Typed
  PROVE  /\ \A to : Go(to) => Moves(to)
         /\ End => Rests
         /\ \A to, A, M : run' = [run EXCEPT !.pc = to, !.added = A, !.modified = M] => Takes(to, A, M)
         /\ \A f : run' = [run EXCEPT !.todo = @ \ {f}] =>
              /\ Stays /\ run'.pc = run.pc /\ run'.todo = run.todo \ {f}
              /\ run'.added = run.added /\ run'.modified = run.modified
         /\ \A f : run' = [run EXCEPT !.added = @ \ {f}] =>
              /\ Stays /\ run'.pc = run.pc /\ run'.todo = run.todo
              /\ run'.added = run.added \ {f} /\ run'.modified = run.modified
         /\ \A x : run' = [run EXCEPT !.pc = "restore", !.todo = x] =>
              /\ Stays /\ run'.pc = "restore" /\ run'.todo = x
              /\ run'.added = run.added /\ run'.modified = run.modified
<1>1. DOMAIN run = RunFields
  BY DEF Typed, IsRun
<1>2. ASSUME NEW to, Go(to) PROVE Moves(to)
  BY <1>1, <1>2 DEF Go, Moves, Stays, RunFields
<1>3. ASSUME End PROVE Rests
  BY <1>3 DEF End, Idle, Rests
<1>4. ASSUME NEW to, NEW A, NEW M, run' = [run EXCEPT !.pc = to, !.added = A, !.modified = M]
      PROVE  Takes(to, A, M)
  BY <1>1, <1>4 DEF Takes, Stays, RunFields
<1>5. ASSUME NEW f, run' = [run EXCEPT !.todo = @ \ {f}]
      PROVE  /\ Stays /\ run'.pc = run.pc /\ run'.todo = run.todo \ {f}
             /\ run'.added = run.added /\ run'.modified = run.modified
  BY <1>1, <1>5 DEF Stays, RunFields
<1>6. ASSUME NEW f, run' = [run EXCEPT !.added = @ \ {f}]
      PROVE  /\ Stays /\ run'.pc = run.pc /\ run'.todo = run.todo
             /\ run'.added = run.added \ {f} /\ run'.modified = run.modified
  BY <1>1, <1>6 DEF Stays, RunFields
<1>7. ASSUME NEW x, run' = [run EXCEPT !.pc = "restore", !.todo = x]
      PROVE  /\ Stays /\ run'.pc = "restore" /\ run'.todo = x
             /\ run'.added = run.added /\ run'.modified = run.modified
  BY <1>1, <1>7 DEF Stays, RunFields
<1> QED BY <1>2, <1>3, <1>4, <1>5, <1>6, <1>7

Apart  == UNCHANGED <<runner, bad>>
Quiet  == UNCHANGED <<edits, cuts, torn, born, since, fresh, cutoff, strays>>
Vault  == UNCHANGED <<disk, aside>>
Others(s) == \A t \in Snaps : t # s => snaps'[t] = snaps[t]

LEMMA SeeStart ==
  ASSUME Typed, NEW flags, Start(flags)
  PROVE  /\ Apart /\ Vault /\ UNCHANGED <<snaps, edits, cuts, torn, born, since, cutoff, strays>>
         /\ fresh' = [p \in Pages |-> 0] /\ runs' = runs + 1 /\ runs < MaxRuns
         /\ run.pc = "idle" /\ Claimed # Target
         /\ run'.plan = Pending /\ run'.k = 0 /\ run'.flags = flags
         /\ run'.todo = {} /\ run'.added = {} /\ run'.modified = {}
         /\ \/ run'.pc = "recover" /\ run'.snap = Unfinished /\ runner = "pack" /\ Pending = {}
            \/ /\ run'.pc = "load" /\ run'.snap = 0 /\ runner # "pack"
            \/ /\ run'.pc = "mkdir" /\ run'.snap = 0 /\ (runner = "pack" => Pending # {})
BY DEF Start, At, Idle, Apart, Vault, setting

LEMMA SeeMkdir ==
  ASSUME Typed, Mkdir
  PROVE  /\ Apart /\ Vault /\ Quiet /\ UNCHANGED runs /\ Others(runs) /\ runs \in Snaps
         /\ run.pc = "mkdir" /\ run'.pc = "copy" /\ run'.snap = runs
         /\ run'.todo = {p \in Pages : disk[p] # None}
         /\ UNCHANGED <<run.plan, run.k, run.flags, run.added, run.modified>>
         /\ snaps'[runs] = [tree |-> [f \in Files |-> IF f \in Pages THEN None ELSE disk[f]],
                            whole |-> FALSE, plan |-> None, good |-> FALSE]
         /\ snaps'[runs] # None
<1>1. run.pc = "mkdir" /\ runs \in Snaps /\ DOMAIN run = RunFields /\ DOMAIN snaps = Snaps
  BY DEF Mkdir, At, Typed, HasSnap, IsRun, Saved
<1> DEFINE x == [tree |-> [f \in Files |-> IF f \in Pages THEN None ELSE disk[f]],
                 whole |-> FALSE, plan |-> None, good |-> FALSE]
<1>2. IsSnap(x)
  BY DEF Typed, IsSnap, IsVault, Snapshot, Trees
<1>3. snaps' = [snaps EXCEPT ![runs] = x]
  BY DEF Mkdir
<1>4. x # None
  BY <1>2, Plain
<1> HIDE DEF x
<1>5. Others(runs) /\ snaps'[runs] = x
  BY <1>1, <1>3 DEF Others
<1>6. /\ Apart /\ Vault /\ Quiet /\ UNCHANGED runs
  BY DEF Mkdir, Apart, Vault, Quiet, setting, world, history
<1>7. /\ run'.pc = "copy" /\ run'.snap = runs /\ run'.todo = {p \in Pages : disk[p] # None}
      /\ UNCHANGED <<run.plan, run.k, run.flags, run.added, run.modified>>
  BY <1>1 DEF Mkdir, RunFields
<1> QED BY <1>1, <1>4, <1>5, <1>6, <1>7 DEF x

LEMMA SeeCopy ==
  ASSUME Typed, Copy
  PROVE  \E f \in run.todo :
         /\ Apart /\ Vault /\ Quiet /\ UNCHANGED runs /\ Others(run.snap)
         /\ run.pc = "copy" /\ run'.pc = "copy" /\ Stays /\ run'.todo = run.todo \ {f}
         /\ run'.added = run.added /\ run'.modified = run.modified /\ f \in Pages
         /\ run.snap \in Snaps =>
              /\ snaps[run.snap] # None /\ snaps'[run.snap] # None
              /\ \A g \in Files : snaps'[run.snap].tree[g] = IF g = f THEN disk[f] ELSE snaps[run.snap].tree[g]
              /\ snaps'[run.snap].whole = snaps[run.snap].whole
              /\ snaps'[run.snap].plan = snaps[run.snap].plan
              /\ snaps'[run.snap].good = snaps[run.snap].good
<1>1. PICK f \in run.todo : /\ snaps' = [snaps EXCEPT ![run.snap].tree[f] = disk[f]]
                            /\ run' = [run EXCEPT !.todo = @ \ {f}]
  BY DEF Copy
<1>2. run.pc = "copy" /\ f \in Pages /\ f \in Files /\ IsVault(disk)
  BY FilesAre DEF Copy, At, Typed, IsRun
<1>3. /\ Apart /\ Vault /\ Quiet /\ UNCHANGED runs
  BY DEF Copy, Apart, Vault, Quiet, setting, world, history
<1> DEFINE x == [snaps[run.snap] EXCEPT !.tree[f] = disk[f]]
<1>4. snaps' = [snaps EXCEPT ![run.snap] = x] /\ DOMAIN snaps = Snaps
  BY <1>1 DEF Typed, Saved
<1>5. ASSUME run.snap \in Snaps
      PROVE  /\ IsSnap(snaps[run.snap]) /\ IsSnap(x)
             /\ x.whole = snaps[run.snap].whole /\ x.plan = snaps[run.snap].plan
             /\ x.good = snaps[run.snap].good
             /\ \A g \in Files : x.tree[g] = IF g = f THEN disk[f] ELSE snaps[run.snap].tree[g]
  <2>1. IsSnap(snaps[run.snap])
    BY <1>2, <1>5, OwnSnap
  <2>2. IsSnap(x)
    BY <1>2, <2>1, SnapWith DEF IsVault
  <2>3. snaps[run.snap] \in Snapshot /\ snaps[run.snap].tree \in Trees
    BY <2>1 DEF IsSnap, IsVault
  <2>4. /\ x.whole = snaps[run.snap].whole /\ x.plan = snaps[run.snap].plan
        /\ x.good = snaps[run.snap].good /\ x.tree = [snaps[run.snap].tree EXCEPT ![f] = disk[f]]
    BY <2>3 DEF Snapshot
  <2> QED BY <2>1, <2>2, <2>3, <2>4 DEF Trees
<1> HIDE DEF x
<1>6. Others(run.snap) /\ (run.snap \in Snaps => snaps'[run.snap] = x)
  BY <1>4 DEF Others
<1>7. Stays /\ run'.pc = run.pc /\ run'.todo = run.todo \ {f}
      /\ run'.added = run.added /\ run'.modified = run.modified
  BY <1>1, Seen
<1> QED BY <1>2, <1>3, <1>5, <1>6, <1>7, Plain

\* A field of the own snapshot is set.
LEMMA OwnWith ==
  ASSUME Typed, run.pc # "accepted", run.snap \in Snaps
  PROVE  LET x == snaps[run.snap] IN
         /\ x # None
         /\ snaps' = [snaps EXCEPT ![run.snap].whole = TRUE] =>
              /\ snaps'[run.snap] # None /\ snaps'[run.snap].whole
              /\ snaps'[run.snap].tree = x.tree /\ snaps'[run.snap].plan = x.plan
              /\ snaps'[run.snap].good = x.good
         /\ snaps' = [snaps EXCEPT ![run.snap].good = TRUE] =>
              /\ snaps'[run.snap] # None /\ snaps'[run.snap].good
              /\ snaps'[run.snap].tree = x.tree /\ snaps'[run.snap].plan = x.plan
              /\ snaps'[run.snap].whole = x.whole
         /\ \A d \in Plans : snaps' = [snaps EXCEPT ![run.snap].plan = d] =>
              /\ snaps'[run.snap] # None /\ snaps'[run.snap].plan = d /\ d # None
              /\ snaps'[run.snap].tree = x.tree /\ snaps'[run.snap].whole = x.whole
              /\ snaps'[run.snap].good = x.good
<1> DEFINE x == snaps[run.snap]
<1>1. IsSnap(x) /\ DOMAIN snaps = Snaps
  BY OwnSnap DEF Typed, Saved
<1>2. x # None /\ x \in Snapshot /\ \A d \in Plans : d # None
  BY <1>1, Plain, UpgradeAssumption DEF IsSnap
<1>3. ASSUME snaps' = [snaps EXCEPT ![run.snap].whole = TRUE]
      PROVE  /\ snaps'[run.snap] # None /\ snaps'[run.snap].whole
             /\ snaps'[run.snap].tree = x.tree /\ snaps'[run.snap].plan = x.plan
             /\ snaps'[run.snap].good = x.good
  <2> DEFINE y == [x EXCEPT !.whole = TRUE]
  <2>1. snaps'[run.snap] = y
    BY <1>1, <1>3
  <2>2. IsSnap(y)
    BY <1>1, SnapWith
  <2>3. y.whole /\ y.tree = x.tree /\ y.plan = x.plan /\ y.good = x.good
    BY <1>2 DEF Snapshot
  <2> HIDE DEF y
  <2> QED BY <2>1, <2>2, <2>3, Plain
<1>4. ASSUME snaps' = [snaps EXCEPT ![run.snap].good = TRUE]
      PROVE  /\ snaps'[run.snap] # None /\ snaps'[run.snap].good
             /\ snaps'[run.snap].tree = x.tree /\ snaps'[run.snap].plan = x.plan
             /\ snaps'[run.snap].whole = x.whole
  <2> DEFINE y == [x EXCEPT !.good = TRUE]
  <2>1. snaps'[run.snap] = y
    BY <1>1, <1>4
  <2>2. IsSnap(y)
    BY <1>1, SnapWith
  <2>3. y.good /\ y.tree = x.tree /\ y.plan = x.plan /\ y.whole = x.whole
    BY <1>2 DEF Snapshot
  <2> HIDE DEF y
  <2> QED BY <2>1, <2>2, <2>3, Plain
<1>5. ASSUME NEW d \in Plans, snaps' = [snaps EXCEPT ![run.snap].plan = d]
      PROVE  /\ snaps'[run.snap] # None /\ snaps'[run.snap].plan = d /\ d # None
             /\ snaps'[run.snap].tree = x.tree /\ snaps'[run.snap].whole = x.whole
             /\ snaps'[run.snap].good = x.good
  <2> DEFINE y == [x EXCEPT !.plan = d]
  <2>1. snaps'[run.snap] = y
    BY <1>1, <1>5
  <2>2. IsSnap(y) /\ y.plan = d
    BY <1>1, SnapWith
  <2>3. y.tree = x.tree /\ y.whole = x.whole /\ y.good = x.good
    BY <1>2 DEF Snapshot
  <2> HIDE DEF y
  <2> QED BY <1>2, <2>1, <2>2, <2>3, Plain
<1> HIDE DEF x
<1>6. x # None
  BY <1>2
<1> QED BY <1>3, <1>4, <1>5, <1>6 DEF x

LEMMA SeeManifest ==
  ASSUME Typed, Manifest
  PROVE  /\ Apart /\ Vault /\ Quiet /\ UNCHANGED runs /\ Others(run.snap)
         /\ run.pc = "copy" /\ run.todo = {} /\ Moves("load")
         /\ run.snap \in Snaps =>
              /\ snaps[run.snap] # None /\ snaps'[run.snap] # None /\ snaps'[run.snap].whole
              /\ snaps'[run.snap].tree = snaps[run.snap].tree
              /\ snaps'[run.snap].plan = snaps[run.snap].plan
              /\ snaps'[run.snap].good = snaps[run.snap].good
<1>1. run.pc = "copy" /\ run.todo = {} /\ snaps' = [snaps EXCEPT ![run.snap].whole = TRUE] /\ Go("load")
  BY DEF Manifest, At
<1>2. Others(run.snap)
  BY <1>1 DEF Others, Typed, Saved
<1>3. /\ Apart /\ Vault /\ Quiet /\ UNCHANGED runs
  BY DEF Manifest, Apart, Vault, Quiet, setting, world, history
<1> QED BY <1>1, <1>2, <1>3, OwnWith, Seen

LEMMA SeeSnapshotFails ==
  ASSUME Typed, SnapshotFails
  PROVE  /\ Apart /\ Vault /\ Quiet /\ UNCHANGED runs /\ Others(run.snap)
         /\ run.pc = "copy" /\ Rests /\ (run.snap \in Snaps => snaps'[run.snap] = None)
<1>1. run.pc = "copy" /\ snaps' = [snaps EXCEPT ![run.snap] = None] /\ End
  BY DEF SnapshotFails, At
<1>2. Others(run.snap) /\ (run.snap \in Snaps => snaps'[run.snap] = None)
  BY <1>1 DEF Others, Typed, Saved
<1>3. /\ Apart /\ Vault /\ Quiet /\ UNCHANGED runs
  BY DEF SnapshotFails, Apart, Vault, Quiet, setting, world, history
<1> QED BY <1>1, <1>2, <1>3, Seen

LEMMA SeeLoad ==
  ASSUME Typed, Load
  PROVE  /\ Apart /\ Vault /\ Quiet /\ UNCHANGED <<runs, snaps>> /\ run.pc = "load"
         /\ \/ Left = {} /\ Moves(IF runner = "engine" THEN "pin" ELSE "freeze")
            \/ \E m \in Left :
                 /\ \A n \in Left : m <= n
                 /\ run'.pc = "apply" /\ run'.k = m /\ run'.todo = Touch[m] \cup Make[m] \cup Drop[m]
                 /\ run'.plan = run.plan /\ run'.flags = run.flags /\ run'.snap = run.snap
                 /\ run'.added = run.added /\ run'.modified = run.modified
<1>1. Apart /\ Vault /\ Quiet /\ UNCHANGED <<runs, snaps>> /\ run.pc = "load"
  BY DEF Load, At, Apart, Vault, Quiet, setting, world, history
<1>2. CASE Left = {}
  BY <1>1, <1>2, Seen DEF Load
<1>3. CASE Left # {}
  <2>1. PICK m \in Left : /\ \A n \in Left : m <= n
                          /\ run' = [run EXCEPT !.pc = "apply", !.k = m,
                                        !.todo = Touch[m] \cup Make[m] \cup Drop[m]]
    BY <1>3 DEF Load
  <2>2. /\ run'.pc = "apply" /\ run'.k = m /\ run'.todo = Touch[m] \cup Make[m] \cup Drop[m]
        /\ run'.plan = run.plan /\ run'.flags = run.flags /\ run'.snap = run.snap
        /\ run'.added = run.added /\ run'.modified = run.modified
    BY <2>1 DEF Typed, IsRun, RunFields
  <2> QED BY <1>1, <2>1, <2>2
<1> QED BY <1>2, <1>3

LEMMA SeeMigrate ==
  ASSUME Typed, Migrate
  PROVE  /\ Apart /\ Quiet /\ UNCHANGED <<runs, snaps, aside>> /\ run.pc = "apply" /\ run'.pc = "apply"
         /\ Stays /\ run'.added = run.added /\ run'.modified = run.modified /\ run.k \in Migs
         /\ \E p \in run.todo :
              /\ p \in Pages /\ run'.todo = run.todo \ {p}
              /\ \A f \in Files : disk'[f] = IF f = p THEN Output(run.k, p) ELSE disk[f]
<1>1. Apart /\ Quiet /\ UNCHANGED <<runs, snaps, aside>> /\ run.pc = "apply"
  BY DEF Migrate, At, Apart, Quiet, setting, world, history
<1>2. PICK p \in run.todo : /\ run' = [run EXCEPT !.todo = @ \ {p}]
                            /\ disk' = [disk EXCEPT ![p] = Output(run.k, p)]
  BY DEF Migrate
<1>3. p \in Pages /\ run.k \in Migs /\ DOMAIN disk = Files
  BY <1>1 DEF Typed, IsRun, IsVault, Trees
<1>4. \A f \in Files : disk'[f] = IF f = p THEN Output(run.k, p) ELSE disk[f]
  BY <1>2, <1>3
<1> QED BY <1>1, <1>2, <1>3, <1>4, Seen

LEMMA SeeRecordApplied ==
  ASSUME Typed, RecordApplied
  PROVE  /\ Apart /\ Quiet /\ UNCHANGED <<runs, snaps, aside>> /\ run.pc = "apply" /\ run.todo = {}
         /\ Moves("load") /\ run.k \in Migs
         /\ disk'["state"] = [applied |-> State.applied \cup {run.k},
                              version |-> IF runner = "pack" THEN Checkpoint ELSE State.version]
         /\ disk'["state"] # None
         /\ \A f \in Files \ {"state"} : disk'[f] = disk[f]
<1>1. Apart /\ Quiet /\ UNCHANGED <<runs, snaps, aside>> /\ run.pc = "apply" /\ run.todo = {} /\ Go("load")
  BY DEF RecordApplied, At, Apart, Quiet, setting, world, history, Go
<1> DEFINE x == [applied |-> State.applied \cup {run.k},
                 version |-> IF runner = "pack" THEN Checkpoint ELSE State.version]
<1>2. disk' = [disk EXCEPT !["state"] = x] /\ DOMAIN disk = Files
  BY DEF RecordApplied, Typed, IsVault, Trees
<1>3. State \in StateRec
  BY FilesAre DEF State, NoState, StateRec, IsVault, Typed
<1>4. run.k \in Migs /\ To[run.k] \in Nat
  BY <1>1, UpgradeAssumption DEF Typed, IsRun
<1>5. x \in StateRec
  BY <1>3, <1>4 DEF StateRec, Checkpoint
<1>6. x # None
  BY <1>5, Plain
<1> HIDE DEF x
<1>7. disk'["state"] = x /\ \A f \in Files \ {"state"} : disk'[f] = disk[f]
  BY <1>2, FilesAre
<1> QED BY <1>1, <1>4, <1>6, <1>7, Seen DEF x

LEMMA SeeWritePin ==
  ASSUME Typed, WritePin
  PROVE  /\ Apart /\ Quiet /\ UNCHANGED <<runs, snaps, aside>> /\ run.pc = "pin" /\ Moves("recompose")
         /\ disk'["pin"] = Target /\ Target # None /\ \A f \in Files \ {"pin"} : disk'[f] = disk[f]
<1>1. Apart /\ Quiet /\ UNCHANGED <<runs, snaps, aside>> /\ run.pc = "pin" /\ Go("recompose")
  BY DEF WritePin, At, Apart, Quiet, setting, world, history
<1>2. disk'["pin"] = Target /\ \A f \in Files \ {"pin"} : disk'[f] = disk[f]
  BY FilesAre DEF WritePin, Typed, IsVault, Trees
<1> QED BY <1>1, <1>2, Seen, Plain, UpgradeAssumption

LEMMA SeeRecompose ==
  ASSUME Typed, Recompose
  PROVE  /\ Apart /\ Vault /\ Quiet /\ UNCHANGED <<runs, snaps>> /\ run.pc = "recompose"
         /\ Moves(IF runner = "pack" \/ run.snap = 0 THEN "gate" ELSE "freeze")
BY Seen DEF Recompose, At, Apart, Vault, Quiet, setting, world, history

\* The delta of the own snapshot is captured anew.
Captures(to) ==
  /\ Takes(to, Added(run.snap), Changed(run.snap))
  /\ since' = [since EXCEPT ![run.snap] = {}]

LEMMA SeeFreeze ==
  ASSUME Typed, Freeze
  PROVE  /\ Apart /\ Vault /\ UNCHANGED <<runs, snaps, edits, cuts, torn, born, fresh, cutoff, strays>>
         /\ run.pc = "freeze" /\ Captures("plan")
BY Seen DEF Freeze, Captures, At, Apart, Vault, setting

LEMMA SeeRecordPlan ==
  ASSUME Typed, RecordPlan
  PROVE  /\ Apart /\ Vault /\ Quiet /\ UNCHANGED runs /\ Others(run.snap) /\ run.pc = "plan"
         /\ Moves(IF runner = "pack" THEN "recompose" ELSE "gate")
         /\ run.snap \in Snaps =>
              /\ snaps[run.snap] # None /\ snaps'[run.snap] # None
              /\ snaps'[run.snap].plan # None
              /\ snaps'[run.snap].plan = [added |-> run.added, modified |-> run.modified, image |-> disk]
              /\ snaps'[run.snap].tree = snaps[run.snap].tree
              /\ snaps'[run.snap].whole = snaps[run.snap].whole
              /\ snaps'[run.snap].good = snaps[run.snap].good
<1> DEFINE d == [added |-> run.added, modified |-> run.modified, image |-> disk]
<1>1. run.pc = "plan" /\ snaps' = [snaps EXCEPT ![run.snap].plan = d]
      /\ Go(IF runner = "pack" THEN "recompose" ELSE "gate")
  BY DEF RecordPlan, At
<1>2. d \in Plans
  BY DEF Plans, Typed, IsRun, IsVault
<1> HIDE DEF d
<1>3. Others(run.snap)
  BY <1>1 DEF Others, Typed, Saved
<1>4. /\ Apart /\ Vault /\ Quiet /\ UNCHANGED runs
  BY DEF RecordPlan, Apart, Vault, Quiet, setting, world, history
<1>5. Moves(IF runner = "pack" THEN "recompose" ELSE "gate")
  BY <1>1, Seen
<1> QED BY <1>1, <1>2, <1>3, <1>4, <1>5, OwnWith DEF d

LEMMA SeeRaise ==
  ASSUME Typed, Raise
  PROVE  /\ Apart /\ Vault /\ UNCHANGED <<runs, snaps, edits, torn, born, fresh, strays>>
         /\ run.pc \in {"apply", "recompose"} \cup
              (IF runner = "pack" /\ run.plan # {} THEN {"freeze", "plan", "version", "confirm"} ELSE {})
         /\ \/ run.snap = 0 /\ cuts < MaxCuts /\ cuts' = cuts + 1 /\ CutOff /\ Rests /\ UNCHANGED since
            \/ run.snap # 0 /\ UNCHANGED <<cuts, cutoff>> /\ Captures("quarantine")
<1>1. /\ Apart /\ Vault /\ UNCHANGED <<runs, snaps, edits, torn, born, fresh, strays>>
  BY DEF Raise, Apart, Vault, setting
<1>2. run.pc \in {"apply", "recompose"} \cup
              (IF runner = "pack" /\ run.plan # {} THEN {"freeze", "plan", "version", "confirm"} ELSE {})
  BY DEF Raise
<1>3. \/ run.snap = 0 /\ cuts < MaxCuts /\ cuts' = cuts + 1 /\ CutOff /\ Rests /\ UNCHANGED since
      \/ run.snap # 0 /\ UNCHANGED <<cuts, cutoff>> /\ Captures("quarantine")
  BY Seen DEF Raise, Captures
<1> QED BY <1>1, <1>2, <1>3

LEMMA SeeGatePasses ==
  ASSUME Typed, GatePasses
  PROVE  /\ Apart /\ Vault /\ Quiet /\ UNCHANGED <<runs, snaps>> /\ run.pc = "gate"
         /\ \E to \in {"version", "accepted", "confirm", "prune"} :
              /\ Moves(to) /\ (to = "version" <=> runner = "pack")
              /\ to \in {"confirm", "prune"} => run.snap # 0
<1>1. /\ Apart /\ Vault /\ Quiet /\ UNCHANGED <<runs, snaps>> /\ run.pc = "gate"
  BY DEF GatePasses, At, Apart, Vault, Quiet, setting, world, history
<1>2. \E to \in {"version", "accepted", "confirm", "prune"} :
        Go(to) /\ (to = "version" <=> runner = "pack") /\ (to \in {"confirm", "prune"} => run.snap # 0)
  <2>1. CASE runner = "pack"
    BY <2>1 DEF GatePasses
  <2>2. CASE runner # "pack" /\ run.snap = 0
    BY <2>2 DEF GatePasses
  <2>3. CASE runner # "pack" /\ run.snap # 0 /\ (Validated \/ run.plan = {})
    BY <2>3 DEF GatePasses
  <2>4. CASE runner # "pack" /\ run.snap # 0 /\ ~(Validated \/ run.plan = {})
    BY <2>4 DEF GatePasses
  <2> QED BY <2>1, <2>2, <2>3, <2>4
<1> QED BY <1>1, <1>2, Seen

LEMMA SeeGateFails ==
  ASSUME Typed, GateFails
  PROVE  /\ Apart /\ Vault /\ UNCHANGED <<runs, snaps, edits, cuts, torn, born, fresh, cutoff, strays>>
         /\ run.pc = "gate"
         /\ \/ run.snap = 0 /\ Rests /\ UNCHANGED since
            \/ run.snap # 0 /\ runner = "engine" /\ Moves("quarantine") /\ UNCHANGED since
            \/ run.snap # 0 /\ runner # "engine" /\ Captures("quarantine")
BY Seen DEF GateFails, Captures, At, Apart, Vault, setting

LEMMA SeeRecordVersion ==
  ASSUME Typed, RecordVersion
  PROVE  /\ Apart /\ Quiet /\ UNCHANGED <<runs, snaps, aside>> /\ run.pc = "version"
         /\ Moves(IF run.snap = 0 THEN "accepted" ELSE "confirm")
         /\ disk'["state"] = [State EXCEPT !.version = Target] /\ disk'["state"] # None
         /\ disk'["state"].applied = State.applied /\ disk'["state"].version = Target
         /\ \A f \in Files \ {"state"} : disk'[f] = disk[f]
<1>1. /\ Apart /\ Quiet /\ UNCHANGED <<runs, snaps, aside>> /\ run.pc = "version"
      /\ Go(IF run.snap = 0 THEN "accepted" ELSE "confirm")
  BY DEF RecordVersion, At, Apart, Quiet, setting, world, history
<1>2. State \in StateRec
  BY FilesAre DEF State, NoState, StateRec, IsVault, Typed
<1> DEFINE x == [State EXCEPT !.version = Target]
<1>3. x \in StateRec /\ x.applied = State.applied /\ x.version = Target
  BY <1>2, UpgradeAssumption DEF StateRec
<1>4. disk' = [disk EXCEPT !["state"] = x] /\ DOMAIN disk = Files
  BY DEF RecordVersion, Typed, IsVault, Trees
<1>5. x # None
  BY <1>3, Plain
<1> HIDE DEF x
<1>6. disk'["state"] = x /\ \A f \in Files \ {"state"} : disk'[f] = disk[f]
  BY <1>4, FilesAre
<1> QED BY <1>1, <1>3, <1>5, <1>6, Seen DEF x

LEMMA SeeConfirm ==
  ASSUME Typed, Confirm
  PROVE  /\ Apart /\ Vault /\ Quiet /\ UNCHANGED runs /\ Others(run.snap)
         /\ run.pc = "confirm" /\ Moves("prune")
         /\ run.snap \in Snaps =>
              /\ snaps[run.snap] # None /\ snaps'[run.snap] # None /\ snaps'[run.snap].good
              /\ snaps'[run.snap].tree = snaps[run.snap].tree
              /\ snaps'[run.snap].plan = snaps[run.snap].plan
              /\ snaps'[run.snap].whole = snaps[run.snap].whole
<1>1. run.pc = "confirm" /\ snaps' = [snaps EXCEPT ![run.snap].good = TRUE] /\ Go("prune")
  BY DEF Confirm, At
<1>2. Others(run.snap)
  BY <1>1 DEF Others, Typed, Saved
<1>3. /\ Apart /\ Vault /\ Quiet /\ UNCHANGED runs
  BY DEF Confirm, Apart, Vault, Quiet, setting, world, history
<1> QED BY <1>1, <1>2, <1>3, OwnWith, Seen

LEMMA SeePrune ==
  ASSUME Typed, Prune
  PROVE  /\ Apart /\ Vault /\ Quiet /\ UNCHANGED runs /\ run.pc = "prune" /\ Moves("accepted")
         /\ \A s \in Snaps : snaps'[s] = snaps[s] \/ (s \in Spent /\ snaps'[s] = None
                                /\ Cardinality({t \in Spent : t > s}) >= Keep)
<1>1. run.pc = "prune" /\ Go("accepted")
  BY DEF Prune, At
<1>2. /\ Apart /\ Vault /\ Quiet /\ UNCHANGED runs
  BY DEF Prune, Apart, Vault, Quiet, setting, world, history
<1>3. \A s \in Snaps : snaps'[s] = snaps[s] \/ (s \in Spent /\ snaps'[s] = None
                                /\ Cardinality({t \in Spent : t > s}) >= Keep)
  BY DEF Prune
<1> QED BY <1>1, <1>2, <1>3, Seen

LEMMA SeeAccepted ==
  ASSUME Typed, Accepted
  PROVE  /\ Apart /\ Vault /\ Quiet /\ UNCHANGED <<runs, snaps>> /\ run.pc = "accepted" /\ Rests
BY Seen DEF Accepted, At, Apart, Vault, Quiet, setting, world, history

LEMMA SeeRecover ==
  ASSUME Typed, Recover
  PROVE  /\ Apart /\ Vault /\ UNCHANGED <<runs, edits, cuts, torn, born, fresh, cutoff, strays>>
         /\ run.pc = "recover" /\ ((Moves("version") /\ run.snap = 0) \/ Moves("regate"))
         /\ \/ UNCHANGED <<snaps, since>> /\ ~(run.snap # 0 /\ snaps[run.snap].plan = None)
            \/ /\ Others(run.snap) /\ run.snap \in Snaps
               /\ since' = [since EXCEPT ![run.snap] = {}]
               /\ snaps[run.snap] # None /\ snaps'[run.snap] # None /\ snaps[run.snap].plan = None
               /\ snaps'[run.snap].plan # None
               /\ snaps'[run.snap].plan = [added |-> Added(run.snap), modified |-> Changed(run.snap),
                                           image |-> disk]
               /\ snaps'[run.snap].tree = snaps[run.snap].tree
               /\ snaps'[run.snap].whole = snaps[run.snap].whole
               /\ snaps'[run.snap].good = snaps[run.snap].good
<1>1. run.pc = "recover" /\ ((Go("version") /\ run.snap = 0) \/ Go("regate"))
  BY DEF Recover, At
<1>2. /\ Apart /\ Vault /\ UNCHANGED <<runs, edits, cuts, torn, born, fresh, cutoff, strays>>
  BY DEF Recover, Apart, Vault, setting
<1>3. CASE ~(run.snap # 0 /\ snaps[run.snap].plan = None)
  <2>1. UNCHANGED <<snaps, since>>
    BY <1>3 DEF Recover
  <2> QED BY <1>1, <1>2, <1>3, <2>1, Seen
<1>4. CASE run.snap # 0 /\ snaps[run.snap].plan = None
  <2> DEFINE d == [added |-> Added(run.snap), modified |-> Changed(run.snap), image |-> disk]
  <2>1. snaps' = [snaps EXCEPT ![run.snap].plan = d] /\ since' = [since EXCEPT ![run.snap] = {}]
    BY <1>4 DEF Recover
  <2>2. d \in Plans /\ run.snap \in Snaps
    BY <1>4 DEF Plans, Typed, IsRun, IsVault, Added, Changed
  <2> HIDE DEF d
  <2>3. Others(run.snap)
    BY <2>1 DEF Others, Typed, Saved
  <2> QED BY <1>1, <1>2, <1>4, <2>1, <2>2, <2>3, Seen, OwnWith DEF d
<1> QED BY <1>3, <1>4

LEMMA SeeRegatePasses ==
  ASSUME Typed, RegatePasses
  PROVE  /\ Apart /\ Vault /\ Quiet /\ UNCHANGED <<runs, snaps>> /\ run.pc = "regate" /\ Moves("version")
BY Seen DEF RegatePasses, At, Apart, Vault, Quiet, setting, world, history

LEMMA SeeRegateFails ==
  ASSUME Typed, RegateFails
  PROVE  /\ Apart /\ Vault /\ Quiet /\ UNCHANGED <<runs, snaps>> /\ run.pc = "regate"
         /\ \/ run.snap = 0 /\ Rests
            \/ /\ run.snap # 0
               /\ Takes("quarantine", snaps[run.snap].plan.added, snaps[run.snap].plan.modified)
BY Seen DEF RegateFails, At, Apart, Vault, Quiet, setting, world, history

LEMMA SeeRestoreSaved ==
  ASSUME Typed, RestoreSaved
  PROVE  \E s \in Snaps :
           /\ Apart /\ Vault /\ UNCHANGED <<snaps, edits, cuts, torn, born, since, fresh, cutoff>>
           /\ runs < MaxRuns /\ runs' = runs + 1 /\ run.pc = "idle"
           /\ snaps[s] # None /\ snaps[s].whole /\ snaps[s].plan # None
           /\ \A f \in snaps[s].plan.added \cup snaps[s].plan.modified : disk[f] = snaps[s].plan.image[f]
           /\ \A f \in Files : snaps[s].tree[f] # None /\ snaps[s].plan.image[f] = None => disk[f] = None
           /\ run'.pc = "quarantine" /\ run'.plan = {} /\ run'.k = 0 /\ run'.flags = {"saved"}
           /\ run'.snap = s /\ run'.todo = {}
           /\ run'.added = snaps[s].plan.added /\ run'.modified = snaps[s].plan.modified
           /\ strays' = strays \cup {p \in Pages \ (snaps[s].plan.added \cup snaps[s].plan.modified) :
                           disk[p] # None /\ ~OnlyEdited(disk[p], snaps[s].plan.image[p])}
<1>1. PICK s \in Snaps :
           /\ snaps[s] # None /\ snaps[s].whole /\ snaps[s].plan # None
           /\ \A f \in snaps[s].plan.added \cup snaps[s].plan.modified : disk[f] = snaps[s].plan.image[f]
           /\ \A f \in Files : snaps[s].tree[f] # None /\ snaps[s].plan.image[f] = None => disk[f] = None
           /\ run' = [Idle EXCEPT !.pc = "quarantine", !.snap = s, !.flags = {"saved"},
                       !.added = snaps[s].plan.added, !.modified = snaps[s].plan.modified]
           /\ strays' = strays \cup {p \in Pages \ (snaps[s].plan.added \cup snaps[s].plan.modified) :
                           disk[p] # None /\ ~OnlyEdited(disk[p], snaps[s].plan.image[p])}
  BY DEF RestoreSaved
<1>2. /\ run'.pc = "quarantine" /\ run'.plan = {} /\ run'.k = 0 /\ run'.flags = {"saved"}
      /\ run'.snap = s /\ run'.todo = {}
      /\ run'.added = snaps[s].plan.added /\ run'.modified = snaps[s].plan.modified
  BY <1>1 DEF Idle
<1>3. /\ Apart /\ Vault /\ UNCHANGED <<snaps, edits, cuts, torn, born, since, fresh, cutoff>>
      /\ runs < MaxRuns /\ runs' = runs + 1 /\ run.pc = "idle"
  BY DEF RestoreSaved, At, Apart, Vault, setting
<1> QED BY <1>1, <1>2, <1>3

LEMMA SeeQuarantine ==
  ASSUME Typed, Quarantine
  PROVE  /\ Apart /\ Quiet /\ UNCHANGED <<runs, snaps>> /\ run.pc = "quarantine" /\ Stays
         /\ run'.modified = run.modified
         /\ \/ \E f \in run.added :
                 /\ f \in Files /\ run'.pc = "quarantine" /\ run'.todo = run.todo
                 /\ run'.added = run.added \ {f}
                 /\ \A g \in Files : disk'[g] = IF g = f THEN None ELSE disk[g]
            \/ /\ run.added = {} /\ run'.pc = "restore" /\ run'.added = {} /\ UNCHANGED disk
               /\ run'.todo = {f \in Files : snaps[run.snap].tree[f] # None}
<1>1. /\ Apart /\ Quiet /\ UNCHANGED <<runs, snaps>> /\ run.pc = "quarantine"
  BY DEF Quarantine, At, Apart, Quiet, setting, world, history
<1>2. CASE run.added # {}
  <2>1. PICK f \in run.added : /\ run' = [run EXCEPT !.added = @ \ {f}]
                               /\ disk' = [disk EXCEPT ![f] = None]
    BY <1>2 DEF Quarantine
  <2>2. f \in Files /\ \A g \in Files : disk'[g] = IF g = f THEN None ELSE disk[g]
    BY <2>1 DEF Typed, IsRun, IsVault, Trees
  <2> QED BY <1>1, <2>1, <2>2, Seen
<1>3. CASE run.added = {}
  <2>1. /\ run' = [run EXCEPT !.pc = "restore", !.todo = {f \in Files : snaps[run.snap].tree[f] # None}]
        /\ UNCHANGED disk
    BY <1>3 DEF Quarantine
  <2> QED BY <1>1, <1>3, <2>1, Seen
<1> QED BY <1>2, <1>3

LEMMA SeeRestore ==
  ASSUME Typed, Restore
  PROVE  /\ Apart /\ Quiet /\ UNCHANGED <<runs, snaps, aside>> /\ run.pc = "restore" /\ run'.pc = "restore"
         /\ Stays /\ run'.added = run.added /\ run'.modified = run.modified
         /\ \E f \in run.todo :
              /\ f \in Files /\ run'.todo = run.todo \ {f}
              /\ snaps[run.snap].tree[f] # None
              /\ \A g \in Files \ {f} : disk'[g] = disk[g]
              /\ \/ disk'[f] = disk[f] /\ disk[f] # None /\ f \notin run.modified
                 \/ disk'[f] = snaps[run.snap].tree[f] /\ (disk[f] = None \/ f \in run.modified)
<1>1. /\ Apart /\ Quiet /\ UNCHANGED <<runs, snaps, aside>> /\ run.pc = "restore"
  BY DEF Restore, At, Apart, Quiet, setting, world, history
<1>2. PICK f \in run.todo :
          /\ run' = [run EXCEPT !.todo = @ \ {f}]
          /\ disk' = [disk EXCEPT ![f] =
               IF @ # None /\ f \notin run.modified THEN @ ELSE snaps[run.snap].tree[f]]
  BY DEF Restore
<1>3. f \in Files /\ DOMAIN disk = Files /\ snaps[run.snap].tree[f] # None
  BY <1>1 DEF Typed, IsRun, IsVault, Trees, Restorable
<1>4. /\ \A g \in Files \ {f} : disk'[g] = disk[g]
      /\ \/ disk'[f] = disk[f] /\ disk[f] # None /\ f \notin run.modified
         \/ disk'[f] = snaps[run.snap].tree[f] /\ (disk[f] = None \/ f \in run.modified)
  BY <1>2, <1>3
<1> QED BY <1>1, <1>2, <1>3, <1>4, Seen

LEMMA SeeRolledBack ==
  ASSUME Typed, RolledBack
  PROVE  /\ Apart /\ Vault /\ Quiet /\ UNCHANGED runs /\ run.pc = "restore" /\ run.todo = {} /\ Rests
         /\ \/ "saved" \in run.flags /\ UNCHANGED snaps
            \/ "saved" \notin run.flags /\ Others(run.snap) /\ (run.snap \in Snaps => snaps'[run.snap] = None)
<1>1. /\ Apart /\ Vault /\ Quiet /\ UNCHANGED runs /\ run.pc = "restore" /\ run.todo = {} /\ Rests
  BY Seen DEF RolledBack, At, Apart, Vault, Quiet, setting, world, history
<1>2. \/ "saved" \in run.flags /\ UNCHANGED snaps
      \/ "saved" \notin run.flags /\ snaps' = [snaps EXCEPT ![run.snap] = None]
  BY DEF RolledBack
<1> QED BY <1>1, <1>2 DEF Others, Typed, Saved

LEMMA SeeRestoreFails ==
  ASSUME Typed, RestoreFails
  PROVE  /\ Apart /\ Vault /\ UNCHANGED <<runs, edits, born, since, fresh, cutoff, strays>>
         /\ run.pc \in {"quarantine", "restore"} /\ cuts < MaxCuts /\ cuts' = cuts + 1 /\ torn' /\ Rests
         /\ \/ UNCHANGED snaps
            \/ runner = "pack" /\ Others(run.snap) /\ (run.snap \in Snaps => snaps'[run.snap] = None)
<1>1. /\ Apart /\ Vault /\ UNCHANGED <<runs, edits, born, since, fresh, cutoff, strays>>
      /\ run.pc \in {"quarantine", "restore"} /\ cuts < MaxCuts /\ cuts' = cuts + 1 /\ torn' /\ Rests
  BY Seen DEF RestoreFails, Apart, Vault, setting
<1>2. UNCHANGED snaps \/ (runner = "pack" /\ snaps' = [snaps EXCEPT ![run.snap] = None])
  BY DEF RestoreFails
<1> QED BY <1>1, <1>2 DEF Others, Typed, Saved

LEMMA SeeWrite ==
  ASSUME Typed, NEW p \in Pages, Write(p)
  PROVE  /\ Apart /\ UNCHANGED <<snaps, aside, run, runs, cuts, torn, cutoff, strays>>
         /\ edits < MaxEdits /\ edits' = edits + 1
         /\ \A f \in Files \ {p} : disk'[f] = disk[f]
         /\ p \in Files /\ disk'[p] \in PageText /\ disk'[p] # None /\ disk'[p].edit = edits + 1
         /\ disk'[p].did = IF disk[p] = None THEN Untouched.did ELSE disk[p].did
         /\ born' = IF disk[p] = None THEN born \cup {p} ELSE born
         /\ since' = [s \in Snaps |-> since[s] \cup {p}]
         /\ fresh' = IF \/ fresh[p] # 0
                        \/ run.snap # 0 /\ run.pc \in Gate /\ disk[p] = snaps[run.snap].tree[p]
                       THEN [fresh EXCEPT ![p] = edits + 1] ELSE fresh
<1>1. /\ Apart /\ UNCHANGED <<snaps, aside, run, runs, cuts, torn, cutoff, strays>>
      /\ edits < MaxEdits /\ edits' = edits + 1
      /\ born' = IF disk[p] = None THEN born \cup {p} ELSE born
      /\ since' = [s \in Snaps |-> since[s] \cup {p}]
  BY DEF Write, Apart, setting
<1>2. fresh' = IF \/ fresh[p] # 0
                  \/ run.snap # 0 /\ run.pc \in Gate /\ disk[p] = snaps[run.snap].tree[p]
                 THEN [fresh EXCEPT ![p] = edits + 1] ELSE fresh
  BY <1>1 DEF Write
<1> DEFINE y == IF disk[p] = None THEN Untouched ELSE disk[p]
           x == [y EXCEPT !.edit = edits + 1]
<1>3. disk' = [disk EXCEPT ![p] = x] /\ DOMAIN disk = Files /\ p \in Files /\ edits \in Nat
  BY <1>1, FilesAre DEF Write, Typed, IsVault, Trees
<1>4. y \in PageText
  BY <1>3, PageIs, FilesAre DEF Typed, IsVault
<1>5. x \in PageText /\ x.edit = edits + 1 /\ x.did = y.did
  BY <1>3, <1>4 DEF PageText
<1>6. x # None /\ (y.did = IF disk[p] = None THEN Untouched.did ELSE disk[p].did)
  BY <1>5, Plain
<1> HIDE DEF x, y
<1>7. disk'[p] = x /\ \A f \in Files \ {p} : disk'[f] = disk[f]
  BY <1>3
<1> QED BY <1>1, <1>2, <1>3, <1>5, <1>6, <1>7

LEMMA SeeKill ==
  ASSUME Typed, Kill
  PROVE  /\ Apart /\ Vault /\ UNCHANGED <<runs, snaps, edits, born, since, fresh, strays>>
         /\ run.pc \notin {"idle", "accepted"} /\ cuts < MaxCuts /\ cuts' = cuts + 1 /\ CutOff /\ Rests
         /\ torn' = (torn \/ run.pc \in {"quarantine", "restore"})
BY Seen DEF Kill, Apart, Vault, setting

LEMMA SeeNothing ==
  ASSUME UNCHANGED vars
  PROVE  Apart /\ Vault /\ Quiet /\ UNCHANGED <<run, runs, snaps>>
BY DEF vars, Apart, Vault, Quiet, setting, world, history

\* A snapshot is there because it was, or was just begun; one step changes
\* one thing about one of them.
LEMMA SnapStep ==
  ASSUME Typed, [Next]_vars, NEW s \in Snaps, snaps'[s] # None
  PROVE  \/ Mkdir /\ s = runs
         \/ /\ snaps[s] # None
            /\ snaps'[s].tree = snaps[s].tree \/ (Copy /\ s = run.snap)
            /\ snaps'[s].plan = snaps[s].plan \/ ((RecordPlan \/ Recover) /\ s = run.snap)
            /\ snaps'[s].whole = snaps[s].whole \/ (Manifest /\ s = run.snap)
            /\ snaps'[s].good = snaps[s].good \/ (Confirm /\ s = run.snap)
<1>1. CASE UNCHANGED snaps
  BY <1>1
<1>2. CASE Mkdir
  BY <1>2, SeeMkdir DEF Others
<1>3. CASE Copy
  <2>1. PICK f \in run.todo :
          /\ Others(run.snap)
          /\ run.snap \in Snaps =>
              /\ snaps[run.snap] # None /\ snaps'[run.snap] # None
              /\ snaps'[run.snap].whole = snaps[run.snap].whole
              /\ snaps'[run.snap].plan = snaps[run.snap].plan
              /\ snaps'[run.snap].good = snaps[run.snap].good
    BY <1>3, SeeCopy
  <2> QED BY <1>3, <2>1 DEF Others
<1>4. CASE Manifest
  BY <1>4, SeeManifest DEF Others
<1>5. CASE SnapshotFails
  BY <1>5, SeeSnapshotFails DEF Others
<1>6. CASE RecordPlan
  BY <1>6, SeeRecordPlan DEF Others
<1>7. CASE Confirm
  BY <1>7, SeeConfirm DEF Others
<1>8. CASE Prune
  BY <1>8, SeePrune
<1>9. CASE Recover
  BY <1>9, SeeRecover DEF Others
<1>10. CASE RolledBack
  BY <1>10, SeeRolledBack DEF Others
<1>11. CASE RestoreFails
  BY <1>11, SeeRestoreFails DEF Others
<1> QED BY <1>1, <1>2, <1>3, <1>4, <1>5, <1>6, <1>7, <1>8, <1>9, <1>10, <1>11 DEF Next, vars,
    Start, Load, Migrate, RecordApplied, WritePin, Recompose, Freeze, Raise, GatePasses, GateFails,
    RecordVersion, Accepted, RegatePasses, RegateFails, RestoreSaved, Quarantine, Restore, Write, Kill

\* Who changes a file.
LEMMA DiskStep ==
  ASSUME Typed, [Next]_vars, NEW f \in Files
  PROVE  \/ disk'[f] = disk[f]
         \/ Migrate /\ f \in run.todo /\ f \in Pages /\ disk'[f] = Output(run.k, f)
         \/ (RecordApplied \/ RecordVersion) /\ f = "state"
         \/ WritePin /\ f = "pin"
         \/ Quarantine /\ f \in run.added /\ disk'[f] = None
         \/ Restore /\ f \in run.todo /\ disk'[f] = snaps[run.snap].tree[f]
         \/ f \in Pages /\ Write(f)
<1>1. CASE UNCHANGED disk
  BY <1>1
<1>2. CASE Migrate
  BY <1>2, SeeMigrate
<1>3. CASE RecordApplied
  BY <1>3, SeeRecordApplied
<1>4. CASE RecordVersion
  BY <1>4, SeeRecordVersion
<1>5. CASE WritePin
  BY <1>5, SeeWritePin
<1>6. CASE Quarantine
  BY <1>6, SeeQuarantine
<1>7. CASE Restore
  BY <1>7, SeeRestore
<1>8. CASE \E p \in Pages : Write(p)
  BY <1>8, SeeWrite
<1> QED BY <1>1, <1>2, <1>3, <1>4, <1>5, <1>6, <1>7, <1>8 DEF Next, vars, Start, Mkdir, Copy,
    Manifest, SnapshotFails, Load, Recompose, Freeze, RecordPlan, Raise, GatePasses, GateFails,
    Confirm, Prune, Accepted, Recover, RegatePasses, RegateFails, RestoreSaved, RolledBack,
    RestoreFails, Kill

-----------------------------------------------------------------------------
(* Edits during the gate                                                   *)

\* What a vault holds is a page where a page is due, and the own snapshot of
\* an invocation one like the others.
LEMMA PagesAre ==
  ASSUME Typed, NEW p \in Pages
  PROVE  /\ p \in Files /\ p # "state" /\ p # "pin"
         /\ disk[p] = None \/ disk[p] \in PageText
         /\ \A s \in Snaps : snaps[s] # None =>
              /\ snaps[s].tree[p] = None \/ snaps[s].tree[p] \in PageText
         /\ run.pc # "accepted" /\ run.snap # 0 => run.snap \in Snaps /\ snaps[run.snap] # None
<1>1. p \in Files /\ p # "state" /\ p # "pin" /\ Holdable(p) = PageText
  BY FilesAre, UpgradeAssumption
<1>2. disk[p] = None \/ disk[p] \in PageText
  BY <1>1 DEF Typed, IsVault
<1>3. \A s \in Snaps : snaps[s] # None =>
              snaps[s].tree[p] = None \/ snaps[s].tree[p] \in PageText
  BY <1>1 DEF Typed, Saved, IsSnap, IsVault
<1>4. run.pc # "accepted" /\ run.snap # 0 => run.snap \in Snaps /\ snaps[run.snap] # None
  BY DEF Typed, IsRun, HasSnap
<1> QED BY <1>1, <1>2, <1>3, <1>4

\* A rollback plan has the image of a vault.
Images == \A s \in Snaps : snaps[s] # None /\ snaps[s].plan # None =>
            IsVault(snaps[s].plan.image)

\* What a plan is when it is new.
LEMMA NewPlan ==
  ASSUME Typed, [Next]_vars, NEW s \in Snaps, snaps'[s] # None, snaps'[s].plan # None
  PROVE  /\ snaps[s] # None
         /\ \/ snaps'[s].plan = snaps[s].plan
            \/ /\ snaps'[s].plan.added = run.added /\ snaps'[s].plan.modified = run.modified
               /\ snaps'[s].plan.image = disk /\ RecordPlan /\ s = run.snap
            \/ /\ snaps'[s].plan.added = Added(s) /\ snaps'[s].plan.modified = Changed(s)
               /\ snaps'[s].plan.image = disk /\ Recover /\ s = run.snap /\ snaps[s].plan = None
<1>1. CASE Mkdir /\ s = runs
  BY <1>1, SeeMkdir
<1>2. CASE snaps[s] # None /\ snaps'[s].plan = snaps[s].plan
  BY <1>2
<1>3. CASE RecordPlan /\ s = run.snap
  BY <1>3, SeeRecordPlan
<1>4. CASE Recover /\ s = run.snap
  BY <1>4, SeeRecover
<1> QED BY <1>1, <1>2, <1>3, <1>4, SnapStep

\* What a tree is when it is new.
LEMMA NewTree ==
  ASSUME Typed, [Next]_vars, NEW s \in Snaps, snaps'[s] # None
  PROVE  \/ snaps[s] # None /\ snaps'[s].tree = snaps[s].tree
         \/ /\ Mkdir /\ s = runs /\ ~snaps'[s].whole /\ snaps'[s].plan = None /\ ~snaps'[s].good
            /\ \A f \in Files : snaps'[s].tree[f] = IF f \in Pages THEN None ELSE disk[f]
         \/ /\ Copy /\ s = run.snap /\ snaps[s] # None
            /\ snaps'[s].plan = snaps[s].plan /\ snaps'[s].whole = snaps[s].whole
            /\ snaps'[s].good = snaps[s].good
            /\ \E f \in run.todo :
                 /\ run'.todo = run.todo \ {f} /\ f \in Pages
                 /\ \A g \in Files : snaps'[s].tree[g] = IF g = f THEN disk[f] ELSE snaps[s].tree[g]
<1>1. CASE Mkdir /\ s = runs
  <2>1. snaps'[s] = [tree |-> [f \in Files |-> IF f \in Pages THEN None ELSE disk[f]],
                       whole |-> FALSE, plan |-> None, good |-> FALSE]
    BY <1>1, SeeMkdir
  <2> QED BY <1>1, <2>1
<1>2. CASE snaps[s] # None /\ snaps'[s].tree = snaps[s].tree
  BY <1>2
<1>3. CASE Copy /\ s = run.snap
  BY <1>3, SeeCopy
<1> QED BY <1>1, <1>2, <1>3, SnapStep

LEMMA ImagesStep ==
  ASSUME Typed, Images, [Next]_vars
  PROVE  Images'
<1> SUFFICES ASSUME NEW s \in Snaps, snaps'[s] # None, snaps'[s].plan # None
             PROVE  IsVault(snaps'[s].plan.image)
  BY DEF Images, IsVault, Holdable
<1>1. IsVault(disk)
  BY DEF Typed
<1>2. snaps[s] # None /\ (snaps'[s].plan = snaps[s].plan \/ snaps'[s].plan.image = disk)
  BY NewPlan
<1> QED BY <1>1, <1>2 DEF Images

\* No edit of a page is later than the last one there was.
Dated(t, e) == \A p \in Pages : t[p] # None => t[p].edit <= e
Dates ==
  /\ Dated(disk, edits)
  /\ \A s \in Snaps : snaps[s] # None =>
       /\ Dated(snaps[s].tree, edits)
       /\ snaps[s].plan # None => Dated(snaps[s].plan.image, edits)

LEMMA OutputIs ==
  ASSUME Typed, NEW p \in Pages, NEW m \in Migs, Output(m, p) # None
  PROVE  /\ Output(m, p) \in PageText /\ p \notin Drop[m]
         /\ disk[p] # None =>
              /\ Output(m, p).edit = disk[p].edit
              /\ \A n \in Migs : Output(m, p).did[n] = disk[p].did[n] + (IF n = m THEN 1 ELSE 0)
         /\ disk[p] = None =>
              /\ Output(m, p).edit = 0 /\ p \in Make[m]
              /\ \A n \in Migs : Output(m, p).did[n] = IF n = m THEN 1 ELSE 0
<1>1. disk[p] = None \/ disk[p] \in PageText
  BY PagesAre
<1>2. p \notin Drop[m]
  BY DEF Output
<1>3. CASE disk[p] # None
  <2>1. Output(m, p) = [disk[p] EXCEPT !.did[m] = @ + 1]
    BY <1>2, <1>3 DEF Output
  <2>2. disk[p].did \in [Migs -> Nat]
    BY <1>1, <1>3 DEF PageText
  <2>3. Output(m, p) \in PageText
    BY <1>1, <1>3, <2>1, PageIs
  <2>4. Output(m, p).edit = disk[p].edit /\ Output(m, p).did = [disk[p].did EXCEPT ![m] = @ + 1]
    BY <1>1, <1>3, <2>1 DEF PageText
  <2>5. \A n \in Migs : Output(m, p).did[n] = disk[p].did[n] + (IF n = m THEN 1 ELSE 0)
    BY <2>2, <2>4
  <2> QED BY <1>2, <1>3, <2>3, <2>4, <2>5
<1>4. CASE disk[p] = None
  <2>1. p \in Make[m] /\ Output(m, p) = [Untouched EXCEPT !.did[m] = 1]
    BY <1>2, <1>4 DEF Output
  <2>2. Output(m, p) \in PageText
    BY <2>1, PageIs
  <2>3. Output(m, p).edit = 0 /\ Output(m, p).did = [Untouched.did EXCEPT ![m] = 1]
    BY <2>1 DEF Untouched
  <2>4. \A n \in Migs : Output(m, p).did[n] = IF n = m THEN 1 ELSE 0
    BY <2>3 DEF Untouched
  <2> QED BY <1>2, <1>4, <2>1, <2>2, <2>3, <2>4
<1> QED BY <1>3, <1>4

LEMMA EditsGrow ==
  ASSUME Typed, [Next]_vars
  PROVE  edits \in Nat /\ edits' \in Nat /\ edits <= edits'
<1>1. edits \in Nat
  BY DEF Typed
<1>2. UNCHANGED edits \/ \E p \in Pages : Write(p)
  BY DEF Next, vars, world, history, Start, Mkdir, Copy, Manifest, SnapshotFails, Load, Migrate,
     RecordApplied, WritePin, Recompose, Freeze, RecordPlan, Raise, GatePasses, GateFails,
     RecordVersion, Confirm, Prune, Accepted, Recover, RegatePasses, RegateFails, RestoreSaved,
     Quarantine, Restore, RolledBack, RestoreFails, Kill
<1> QED BY <1>1, <1>2 DEF Write

LEMMA DatesStep ==
  ASSUME Typed, Typed', Images, Dates, [Next]_vars
  PROVE  Dates'
<1>1. edits \in Nat /\ edits' \in Nat /\ edits <= edits'
  BY EditsGrow
<1>2. ASSUME NEW t, Dated(t, edits), \A p \in Pages : t[p] = None \/ t[p] \in PageText
      PROVE  Dated(t, edits')
  BY <1>1, <1>2 DEF Dated, PageText
<1>3. ASSUME NEW p \in Pages, disk'[p] # None PROVE disk'[p].edit <= edits'
  <2>0. p \in Files /\ p # "state" /\ p # "pin" /\ (disk[p] = None \/ disk[p] \in PageText)
    BY PagesAre
  <2>1. CASE disk'[p] = disk[p]
    BY <1>1, <1>3, <2>0, <2>1 DEF Dates, Dated, PageText
  <2>2. CASE Migrate /\ disk'[p] = Output(run.k, p)
    <3>1. run.k \in Migs /\ Output(run.k, p) # None
      BY <1>3, <2>2, SeeMigrate
    <3>2. CASE disk[p] = None
      BY <1>1, <2>2, <3>1, <3>2, OutputIs
    <3>3. CASE disk[p] # None
      <4>1. disk'[p].edit = disk[p].edit
        BY <2>2, <3>1, <3>3, OutputIs
      <4> QED BY <1>1, <2>0, <3>3, <4>1 DEF Dates, Dated, PageText
    <3> QED BY <3>2, <3>3
  <2>3. CASE Restore /\ disk'[p] = snaps[run.snap].tree[p]
    <3>1. run.snap \in Snaps /\ snaps[run.snap] # None
      BY <2>3, SeeRestore, PagesAre DEF Typed, Restorable
    <3> QED BY <1>1, <1>3, <2>3, <3>1, PagesAre DEF Dates, Dated, PageText
  <2>4. CASE Write(p)
    BY <1>1, <2>4, SeeWrite
  <2> QED BY <1>3, <2>0, <2>1, <2>2, <2>3, <2>4, DiskStep
<1>4. \A p \in Pages : disk[p] = None \/ disk[p] \in PageText
  BY PagesAre
<1>5. ASSUME NEW s \in Snaps, snaps'[s] # None PROVE Dated(snaps'[s].tree, edits')
  <2>1. CASE snaps[s] # None /\ snaps'[s].tree = snaps[s].tree
    BY <1>2, <2>1, PagesAre DEF Dates
  <2>2. CASE \A f \in Files : snaps'[s].tree[f] = IF f \in Pages THEN None ELSE disk[f]
    BY <2>2, FilesAre DEF Dated
  <2>3. CASE /\ snaps[s] # None
             /\ \E f \in Pages : \A g \in Files :
                  snaps'[s].tree[g] = IF g = f THEN disk[f] ELSE snaps[s].tree[g]
    <3>1. Dated(snaps[s].tree, edits') /\ Dated(disk, edits')
      BY <1>2, <1>4, <2>3, PagesAre DEF Dates
    <3> QED BY <2>3, <3>1, FilesAre DEF Dated
  <2> QED BY <1>5, <2>1, <2>2, <2>3, NewTree
<1>6. ASSUME NEW s \in Snaps, snaps'[s] # None, snaps'[s].plan # None
      PROVE  Dated(snaps'[s].plan.image, edits')
  <2>1. Dated(disk, edits')
    BY <1>2, <1>4 DEF Dates
  <2>2. snaps[s] # None /\ (snaps'[s].plan = snaps[s].plan \/ snaps'[s].plan.image = disk)
    BY <1>6, NewPlan
  <2>3. ASSUME snaps'[s].plan = snaps[s].plan PROVE Dated(snaps[s].plan.image, edits')
    <3>1. \A p \in Pages : snaps[s].plan.image[p] = None \/ snaps[s].plan.image[p] \in PageText
      BY <1>6, <2>2, <2>3, FilesAre DEF Images, IsVault
    <3> QED BY <1>2, <1>6, <2>2, <2>3, <3>1 DEF Dates
  <2> QED BY <2>1, <2>2, <2>3
<1> QED BY <1>3, <1>5, <1>6 DEF Dates, Dated

-----------------------------------------------------------------------------
(* An invocation and its own snapshot                                      *)

NewPCs  == {"copy", "load", "apply", "pin", "freeze", "plan"} \cup
           (IF runner = "engine" THEN {"recompose"} ELSE {})
WorkPCs == {"load", "apply", "pin", "freeze", "plan", "recompose", "gate", "version", "confirm",
            "recover", "regate", "quarantine", "restore"}

\* Snapshots are numbered by their runs.
Numbered == \A s \in Snaps : snaps[s] # None => s <= runs /\ (run.pc = "mkdir" => s < runs)

\* A run's own snapshot is the newest, has no plan before the run records
\* one, and is complete once it is copied.
Own ==
  /\ run.pc = "copy" => run.snap \in Snaps /\ ~snaps[run.snap].whole
  /\ run.pc \in NewPCs /\ run.snap # 0 =>
       run.snap = runs /\ snaps[run.snap].plan = None /\ ~snaps[run.snap].good
  /\ run.pc \in WorkPCs /\ run.snap # 0 => snaps[run.snap].whole

\* Which runner goes through what.
Ways ==
  /\ runner \in {"engine", "pack"}
  /\ runner = "engine" => run.pc \notin {"version", "recover", "regate"}
  /\ runner = "pack" =>
       /\ run.pc # "pin"
       /\ run.pc \in {"mkdir", "copy", "load", "apply", "freeze", "plan", "recompose", "gate"} =>
            run.plan # {}
       /\ run.pc \in {"load", "apply", "freeze", "plan", "recompose", "gate"} => run.snap # 0
       /\ run.pc \in {"recompose", "gate", "version", "confirm"} /\ run.plan # {} =>
            run.snap = runs /\ ~snaps[run.snap].good
       /\ run.pc \in {"recover", "regate"} => run.plan = {}

LEMMA NumberedStep ==
  ASSUME Typed, Numbered, [Next]_vars
  PROVE  Numbered'
<1>1. runs' = runs \/ (runs' = runs + 1 /\ UNCHANGED snaps)
  BY DEF Next, vars, world, history, Start, Mkdir, Copy, Manifest, SnapshotFails, Load, Migrate,
     RecordApplied, WritePin, Recompose, Freeze, RecordPlan, Raise, GatePasses, GateFails,
     RecordVersion, Confirm, Prune, Accepted, Recover, RegatePasses, RegateFails, RestoreSaved,
     Quarantine, Restore, RolledBack, RestoreFails, Write, Kill
<1>2. runs \in Nat /\ Snaps \subseteq Nat
  BY UpgradeAssumption DEF Typed, Snaps
<1>3. run'.pc = "mkdir" => (run.pc = "mkdir" /\ UNCHANGED <<runs, snaps>>) \/ (runs' = runs + 1 /\ UNCHANGED snaps)
  <2>1. CASE \E flags \in Flags : Start(flags)
    BY <2>1, SeeStart
  <2>2. CASE RestoreSaved
    BY <2>2, SeeRestoreSaved
  <2>3. CASE Mkdir \/ Copy \/ Manifest \/ SnapshotFails
    BY <2>3, SeeMkdir, SeeCopy, SeeManifest, SeeSnapshotFails DEF Moves, Rests
  <2>4. CASE Load \/ Migrate \/ RecordApplied \/ WritePin \/ Recompose \/ Freeze \/ RecordPlan \/ Raise
    BY <2>4, SeeLoad, SeeMigrate, SeeRecordApplied, SeeWritePin, SeeRecompose, SeeFreeze, SeeRecordPlan,
       SeeRaise DEF Moves, Rests, Captures, Takes
  <2>5. CASE GatePasses \/ GateFails \/ RecordVersion \/ Confirm \/ Prune \/ Accepted \/ Recover
    BY <2>5, SeeGatePasses, SeeGateFails, SeeRecordVersion, SeeConfirm, SeePrune, SeeAccepted, SeeRecover
       DEF Moves, Rests, Captures, Takes
  <2>6. CASE RegatePasses \/ RegateFails \/ Quarantine \/ Restore \/ RolledBack \/ RestoreFails \/ Kill
    BY <2>6, SeeRegatePasses, SeeRegateFails, SeeQuarantine, SeeRestore, SeeRolledBack, SeeRestoreFails,
       SeeKill DEF Moves, Rests, Takes
  <2>7. CASE (\E p \in Pages : Write(p)) \/ UNCHANGED vars
    BY <2>7, SeeWrite, SeeNothing
  <2> QED BY <2>1, <2>2, <2>3, <2>4, <2>5, <2>6, <2>7 DEF Next
<1>4. \A s \in Snaps : snaps'[s] # None => (Mkdir /\ s = runs /\ UNCHANGED runs) \/ snaps[s] # None
  BY SnapStep, SeeMkdir
<1> QED BY <1>1, <1>2, <1>3, <1>4 DEF Numbered

LEMMA UnfinishedIs ==
  ASSUME Unfinished # 0
  PROVE  /\ Unfinished \in Snaps /\ snaps[Unfinished] # None /\ snaps[Unfinished].whole
         /\ ~snaps[Unfinished].good /\ Unfinished \in NewestOpen
BY DEF Unfinished, NewestOpen, Open

LEMMA OwnStep ==
  ASSUME Typed, Numbered, Own, Ways, [Next]_vars
  PROVE  Own'
<1>0. /\ run.snap \in Snaps \cup {0} /\ 0 \notin Snaps
      /\ run.pc # "accepted" /\ run.snap # 0 => snaps[run.snap] # None
  BY UpgradeAssumption DEF Typed, IsRun, HasSnap, Snaps
<1>1. CASE \E flags \in Flags : Start(flags)
  <2>1. PICK flags \in Flags : Start(flags)
    BY <1>1
  <2> QED BY <2>1, SeeStart, UnfinishedIs DEF Own, NewPCs, WorkPCs
<1>2. CASE Mkdir
  <2>1. /\ UNCHANGED runs /\ runs \in Snaps /\ run'.pc = "copy" /\ run'.snap = runs
        /\ snaps'[runs].whole = FALSE /\ snaps'[runs].plan = None /\ snaps'[runs].good = FALSE
    BY <1>2, SeeMkdir
  <2> QED BY <2>1 DEF Own, NewPCs, WorkPCs
<1>3. CASE Copy
  BY <1>0, <1>3, SeeCopy DEF Own, NewPCs, WorkPCs, Stays
<1>4. CASE Manifest
  BY <1>0, <1>4, SeeManifest DEF Own, NewPCs, WorkPCs, Moves, Stays
<1>5. CASE Load
  BY <1>0, <1>5, SeeLoad DEF Own, NewPCs, WorkPCs, Moves, Stays, Apart
<1>6. CASE Migrate
  BY <1>0, <1>6, SeeMigrate DEF Own, NewPCs, WorkPCs, Moves, Stays, Apart
<1>7. CASE RecordApplied
  BY <1>0, <1>7, SeeRecordApplied DEF Own, NewPCs, WorkPCs, Moves, Stays, Apart
<1>8. CASE WritePin
  BY <1>0, <1>8, SeeWritePin DEF Own, Ways, NewPCs, WorkPCs, Moves, Stays, Apart
<1>9. CASE Recompose
  BY <1>0, <1>9, SeeRecompose DEF Own, Ways, NewPCs, WorkPCs, Moves, Stays, Apart
<1>10. CASE Freeze
  BY <1>0, <1>10, SeeFreeze DEF Own, NewPCs, WorkPCs, Captures, Takes, Stays, Apart
<1>11. CASE RecordPlan
  BY <1>0, <1>11, SeeRecordPlan DEF Own, NewPCs, WorkPCs, Moves, Stays, Apart
<1>12. CASE Raise
  BY <1>0, <1>12, SeeRaise DEF Own, NewPCs, WorkPCs, Captures, Takes, Rests, Stays, Apart
<1>13. CASE GatePasses
  BY <1>0, <1>13, SeeGatePasses DEF Own, NewPCs, WorkPCs, Moves, Stays, Apart
<1>14. CASE GateFails
  BY <1>0, <1>14, SeeGateFails DEF Own, NewPCs, WorkPCs, Moves, Captures, Takes, Rests, Stays, Apart
<1>15. CASE RecordVersion
  BY <1>0, <1>15, SeeRecordVersion DEF Own, NewPCs, WorkPCs, Moves, Stays, Apart
<1>16. CASE Recover
  BY <1>0, <1>16, SeeRecover DEF Own, NewPCs, WorkPCs, Moves, Stays, Apart
<1>17. CASE RegatePasses
  BY <1>0, <1>17, SeeRegatePasses DEF Own, NewPCs, WorkPCs, Moves, Stays, Apart
<1>18. CASE RegateFails
  BY <1>0, <1>18, SeeRegateFails DEF Own, NewPCs, WorkPCs, Takes, Rests, Stays, Apart
<1>19. CASE RestoreSaved
  BY <1>0, <1>19, SeeRestoreSaved DEF Own, NewPCs, WorkPCs
<1>20. CASE Quarantine
  BY <1>0, <1>20, SeeQuarantine DEF Own, NewPCs, WorkPCs, Stays, Apart
<1>21. CASE Restore
  BY <1>0, <1>21, SeeRestore DEF Own, NewPCs, WorkPCs, Stays, Apart
<1>22. CASE SnapshotFails \/ Accepted \/ RolledBack \/ RestoreFails \/ Kill
  <2>1. Rests
    BY <1>22, SeeSnapshotFails, SeeAccepted, SeeRolledBack, SeeRestoreFails, SeeKill
  <2> QED BY <2>1 DEF Own, NewPCs, WorkPCs, Rests
<1>23. CASE Confirm \/ Prune
  BY <1>23, SeeConfirm, SeePrune DEF Own, NewPCs, WorkPCs, Moves
<1>24. CASE (\E p \in Pages : Write(p)) \/ UNCHANGED vars
  BY <1>24, SeeWrite, SeeNothing DEF Own, NewPCs, WorkPCs, Apart
<1> QED BY <1>1, <1>2, <1>3, <1>4, <1>5, <1>6, <1>7, <1>8, <1>9, <1>10, <1>11, <1>12, <1>13, <1>14,
    <1>15, <1>16, <1>17, <1>18, <1>19, <1>20, <1>21, <1>22, <1>23, <1>24 DEF Next

LEMMA WaysStep ==
  ASSUME Typed, Own, Ways, [Next]_vars
  PROVE  Ways'
<1>0. /\ run.snap \in Snaps \cup {0} /\ 0 \notin Snaps
      /\ run.pc # "accepted" /\ run.snap # 0 => snaps[run.snap] # None
  BY UpgradeAssumption DEF Typed, IsRun, HasSnap, Snaps
<1>1. CASE \E flags \in Flags : Start(flags)
  <2>1. PICK flags \in Flags : Start(flags)
    BY <1>1
  <2> QED BY <2>1, SeeStart DEF Ways, Apart
<1>2. CASE Mkdir
  <2>1. /\ Apart /\ run.pc = "mkdir" /\ run'.pc = "copy" /\ run'.plan = run.plan
    BY <1>2, SeeMkdir
  <2> QED BY <2>1 DEF Ways, Apart
<1>3. CASE Copy
  <2>1. Apart /\ run.pc = "copy" /\ run'.pc = "copy" /\ run'.plan = run.plan
    BY <1>3, SeeCopy DEF Stays
  <2> QED BY <2>1 DEF Ways, Apart
<1>4. CASE Manifest
  BY <1>0, <1>4, SeeManifest DEF Own, Ways, Moves, Stays, Apart
<1>5. CASE Load
  BY <1>5, SeeLoad DEF Ways, Moves, Stays, Apart
<1>6. CASE Migrate
  <2>1. Apart /\ run.pc = "apply" /\ run'.pc = "apply" /\ run'.plan = run.plan /\ run'.snap = run.snap
    BY <1>6, SeeMigrate DEF Stays
  <2> QED BY <2>1 DEF Ways, Apart
<1>7. CASE RecordApplied
  <2>1. Apart /\ run.pc = "apply" /\ run'.pc = "load" /\ run'.plan = run.plan /\ run'.snap = run.snap
    BY <1>7, SeeRecordApplied DEF Moves, Stays
  <2> QED BY <2>1 DEF Ways, Apart
<1>8. CASE WritePin
  <2>1. Apart /\ run.pc = "pin" /\ run'.pc = "recompose"
    BY <1>8, SeeWritePin DEF Moves, Stays
  <2> QED BY <2>1, UpgradeAssumption DEF Ways, Apart
<1>9. CASE Recompose
  BY <1>9, SeeRecompose DEF Ways, Moves, Stays, Apart
<1>10. CASE Freeze
  BY <1>10, SeeFreeze DEF Ways, Captures, Takes, Stays, Apart
<1>11. CASE RecordPlan
  BY <1>0, <1>11, SeeRecordPlan DEF Own, NewPCs, Ways, Moves, Stays, Apart
<1>12. CASE Raise
  BY <1>12, SeeRaise DEF Ways, Captures, Takes, Rests, Stays, Apart
<1>13. CASE GatePasses
  BY <1>0, <1>13, SeeGatePasses DEF Ways, Moves, Stays, Apart
<1>14. CASE GateFails
  BY <1>14, SeeGateFails DEF Ways, Moves, Captures, Takes, Rests, Stays, Apart
<1>15. CASE RecordVersion
  BY <1>0, <1>15, SeeRecordVersion DEF Ways, Moves, Stays, Apart
<1>16. CASE Recover
  BY <1>0, <1>16, SeeRecover DEF Ways, Moves, Stays, Apart
<1>17. CASE RegatePasses
  BY <1>17, SeeRegatePasses DEF Ways, Moves, Stays, Apart
<1>18. CASE RegateFails
  BY <1>18, SeeRegateFails DEF Ways, Takes, Rests, Stays, Apart
<1>19. CASE RestoreSaved
  BY <1>19, SeeRestoreSaved DEF Ways, Apart
<1>20. CASE Quarantine
  BY <1>20, SeeQuarantine DEF Ways, Stays, Apart
<1>21. CASE Restore
  BY <1>21, SeeRestore DEF Ways, Stays, Apart
<1>22. CASE SnapshotFails \/ Accepted \/ RolledBack \/ RestoreFails \/ Kill
  <2>1. Rests /\ Apart
    BY <1>22, SeeSnapshotFails, SeeAccepted, SeeRolledBack, SeeRestoreFails, SeeKill
  <2> QED BY <2>1 DEF Ways, Rests, Apart
<1>23. CASE Confirm \/ Prune
  BY <1>23, SeeConfirm, SeePrune DEF Ways, Moves, Apart
<1>24. CASE (\E p \in Pages : Write(p)) \/ UNCHANGED vars
  BY <1>24, SeeWrite, SeeNothing DEF Ways, Apart
<1> QED BY <1>1, <1>2, <1>3, <1>4, <1>5, <1>6, <1>7, <1>8, <1>9, <1>10, <1>11, <1>12, <1>13, <1>14,
    <1>15, <1>16, <1>17, <1>18, <1>19, <1>20, <1>21, <1>22, <1>23, <1>24 DEF Next

\* A delta names files the snapshot does not have, and files that are not
\* as the snapshot has them.
DeltaOf(t, d, A, M) == /\ \A f \in A : t[f] = None /\ d[f] # None
                       /\ \A f \in M : t[f] # None /\ d[f] # None /\ d[f] # t[f]

Deltas == \A s \in Snaps : snaps[s] # None /\ snaps[s].plan # None =>
            DeltaOf(snaps[s].tree, snaps[s].plan.image, snaps[s].plan.added, snaps[s].plan.modified)

\* What a rollback has still to copy over.
Due == {f \in run.modified : run.pc = "restore" => f \in run.todo}

\* Between the capture of a delta and its use nobody else undoes it.  (A
\* pack's rollback captures it anew.)
InUse == run.snap # 0 /\ (run.pc = "plan" \/ (runner = "engine" /\ run.pc \in {"gate", "quarantine", "restore"}))
Delta == InUse => DeltaOf(snaps[run.snap].tree, disk, run.added, Due)

LEMMA Captured ==
  ASSUME NEW s \in Snaps
  PROVE  DeltaOf(snaps[s].tree, disk, Added(s), Changed(s))
BY DEF DeltaOf, Added, Changed

LEMMA DeltaStep ==
  ASSUME Typed, Dates, Own, Ways, Deltas, Delta, [Next]_vars
  PROVE  Delta'
<1> SUFFICES ASSUME InUse' PROVE DeltaOf(snaps[run.snap].tree, disk, run.added, Due)'
  BY DEF Delta
<1>0. /\ run.snap \in Snaps \cup {0} /\ 0 \notin Snaps /\ run.added \subseteq Files /\ run.modified \subseteq Files
      /\ run.pc # "accepted" /\ run.snap # 0 => snaps[run.snap] # None
  BY UpgradeAssumption DEF Typed, IsRun, HasSnap, Snaps
<1>1. CASE \E p \in Pages : Write(p)
  <2>1. PICK p \in Pages : Write(p)
    BY <1>1
  <2>2. UNCHANGED <<snaps, run>> /\ UNCHANGED runner
    BY <2>1, SeeWrite DEF Apart
  <2>3. InUse /\ Due' = Due /\ run.snap \in Snaps /\ snaps[run.snap] # None
    BY <1>0, <2>2 DEF InUse, Due
  <2>4. disk'[p] # None /\ \A f \in Files \ {p} : disk'[f] = disk[f]
    BY <2>1, SeeWrite
  <2>5. snaps[run.snap].tree[p] # None => disk'[p] # snaps[run.snap].tree[p]
    <3>1. disk'[p].edit = edits + 1 /\ edits \in Nat
      BY <2>1, SeeWrite DEF Typed
    <3>2. snaps[run.snap].tree[p] # None => snaps[run.snap].tree[p].edit <= edits /\ snaps[run.snap].tree[p].edit \in Nat
      BY <2>3, PagesAre DEF Dates, Dated, PageText
    <3> QED BY <3>1, <3>2
  <2>6. Due \subseteq Files
    BY <1>0 DEF Due
  <2> QED BY <1>0, <2>2, <2>3, <2>4, <2>5, <2>6 DEF Delta, DeltaOf
<1>2. CASE /\ Takes(run'.pc, Added(run.snap), Changed(run.snap)) /\ UNCHANGED <<disk, snaps>>
           /\ run'.pc # "restore"
  <2>1. run'.snap = run.snap /\ run'.added = Added(run.snap) /\ Due' = Changed(run.snap)
    BY <1>2 DEF Takes, Stays, Due
  <2>2. run.snap \in Snaps
    BY <1>0, <2>1 DEF InUse
  <2> QED BY <1>2, <2>1, <2>2, Captured
<1>3. CASE Freeze \/ Raise
  <2>1. Captures(run'.pc) /\ run'.pc \in {"plan", "quarantine"} /\ UNCHANGED <<disk, snaps>>
    BY <1>3, SeeFreeze, SeeRaise DEF Vault, InUse, Rests, Captures, Takes
  <2> QED BY <1>2, <2>1 DEF Captures
<1>4. CASE RecordPlan
  <2>1. run.pc = "plan" /\ Moves(IF runner = "pack" THEN "recompose" ELSE "gate") /\ UNCHANGED disk /\ UNCHANGED runner
    BY <1>4, SeeRecordPlan DEF Vault, Apart
  <2>2. InUse /\ run'.snap = run.snap /\ run'.added = run.added /\ Due' = Due
    BY <1>0, <2>1, <1>4 DEF InUse, Due, Moves, Stays
  <2>3. snaps'[run.snap].tree = snaps[run.snap].tree
    BY <1>0, <1>4, <2>2, SeeRecordPlan DEF InUse
  <2> QED BY <2>1, <2>2, <2>3 DEF Delta, DeltaOf
<1>5. CASE GateFails
  <2>1. Moves("quarantine") /\ run.pc = "gate" /\ UNCHANGED <<disk, snaps, runner>> /\ run.snap # 0 /\ runner = "engine"
    <3>1. CASE Rests
      BY <1>5, <3>1, SeeGateFails DEF InUse, Rests
    <3>2. CASE run.snap # 0 /\ runner # "engine" /\ Captures("quarantine")
      BY <1>5, <3>2, SeeGateFails DEF InUse, Apart, Captures, Takes
    <3> QED BY <1>5, <3>1, <3>2, SeeGateFails DEF Vault, Apart
  <2>2. InUse /\ run'.snap = run.snap /\ run'.added = run.added /\ Due' = Due
    BY <2>1 DEF InUse, Due, Moves, Stays
  <2> QED BY <2>1, <2>2 DEF Delta, DeltaOf
<1>6. CASE RestoreSaved
  <2>1. PICK s \in Snaps :
          /\ UNCHANGED <<disk, snaps>> /\ snaps[s] # None /\ snaps[s].plan # None
          /\ \A f \in snaps[s].plan.added \cup snaps[s].plan.modified : disk[f] = snaps[s].plan.image[f]
          /\ run'.pc = "quarantine" /\ run'.snap = s
          /\ run'.added = snaps[s].plan.added /\ run'.modified = snaps[s].plan.modified
    BY <1>6, SeeRestoreSaved DEF Vault
  <2>2. Due' = snaps[s].plan.modified
    BY <2>1 DEF Due
  <2>3. DeltaOf(snaps[s].tree, snaps[s].plan.image, snaps[s].plan.added, snaps[s].plan.modified)
    BY <2>1 DEF Deltas
  <2> QED BY <2>1, <2>2, <2>3 DEF DeltaOf
<1>7. CASE Quarantine
  <2>0. /\ run.pc = "quarantine" /\ Stays /\ UNCHANGED <<snaps, runner>> /\ run'.modified = run.modified
        /\ run'.pc \in {"quarantine", "restore"}
    BY <1>7, SeeQuarantine DEF Apart
  <2>1. InUse /\ run'.snap = run.snap
    BY <2>0 DEF InUse, Stays
  <2>2. CASE run.added = {} /\ run'.added = {} /\ UNCHANGED disk
    <3>1. Due' \subseteq Due
      BY <2>0 DEF Due
    <3> QED BY <2>0, <2>1, <2>2, <3>1 DEF Delta, DeltaOf
  <2>3. CASE \E f \in run.added :
                 /\ f \in Files /\ run'.pc = "quarantine" /\ run'.todo = run.todo
                 /\ run'.added = run.added \ {f}
                 /\ \A g \in Files : disk'[g] = IF g = f THEN None ELSE disk[g]
    <3>1. Due' = Due /\ Due \subseteq Files
      BY <1>0, <2>0, <2>3 DEF Due
    <3> QED BY <1>0, <2>0, <2>1, <2>3, <3>1 DEF Delta, DeltaOf
  <2> QED BY <1>7, <2>2, <2>3, SeeQuarantine
<1>8. CASE Restore
  <2>0. /\ run.pc = "restore" /\ run'.pc = "restore" /\ Stays /\ UNCHANGED <<snaps, runner>>
        /\ run'.modified = run.modified /\ run'.added = run.added
    BY <1>8, SeeRestore DEF Apart
  <2>1. InUse /\ run'.snap = run.snap
    BY <2>0 DEF InUse, Stays
  <2>2. PICK f \in run.todo :
              /\ f \in Files /\ run'.todo = run.todo \ {f}
              /\ snaps[run.snap].tree[f] # None
              /\ \A g \in Files \ {f} : disk'[g] = disk[g]
              /\ \/ disk'[f] = disk[f] /\ disk[f] # None /\ f \notin run.modified
                 \/ disk'[f] = snaps[run.snap].tree[f] /\ (disk[f] = None \/ f \in run.modified)
    BY <1>8, SeeRestore
  <2>3. Due' = Due \ {f} /\ Due \subseteq Files
    BY <1>0, <2>0, <2>2 DEF Due
  <2> QED BY <1>0, <2>0, <2>1, <2>2, <2>3 DEF Delta, DeltaOf
<1>9. CASE UNCHANGED vars
  <2>1. UNCHANGED <<disk, snaps, run, runner>>
    BY <1>9, SeeNothing DEF Vault, Apart
  <2> QED BY <2>1 DEF Delta, InUse, Due, DeltaOf
<1>10. CASE (\E flags \in Flags : Start(flags)) \/ Mkdir \/ Copy \/ Manifest \/ Load \/ Migrate \/ RecordApplied
  BY <1>10, SeeStart, SeeMkdir, SeeCopy, SeeManifest, SeeLoad, SeeMigrate, SeeRecordApplied
     DEF InUse, Moves, Rests
<1>11. CASE WritePin \/ GatePasses \/ RecordVersion \/ Confirm \/ Prune \/ Recover \/ RegatePasses
  BY <1>11, SeeWritePin, SeeGatePasses, SeeRecordVersion, SeeConfirm, SeePrune, SeeRecover,
     SeeRegatePasses DEF InUse, Moves
<1>12. CASE Recompose
  <2>1. /\ run'.snap = run.snap /\ runner' = runner
        /\ run'.pc = IF runner = "pack" \/ run.snap = 0 THEN "gate" ELSE "freeze"
    BY <1>12, SeeRecompose DEF Moves, Stays, Apart
  <2> QED BY <2>1 DEF InUse
<1>13. CASE RegateFails
  <2>1. run.pc = "regate" /\ runner' = runner
    BY <1>13, SeeRegateFails DEF Apart
  <2>2. run'.pc \in {"idle", "quarantine"}
    BY <1>13, SeeRegateFails DEF Rests, Takes
  <2> QED BY <2>1, <2>2 DEF Ways, InUse
<1>14. CASE SnapshotFails \/ Accepted \/ RolledBack \/ RestoreFails \/ Kill
  BY <1>14, SeeSnapshotFails, SeeAccepted, SeeRolledBack, SeeRestoreFails, SeeKill DEF Rests, InUse
<1> QED BY <1>1, <1>3, <1>4, <1>5, <1>6, <1>7, <1>8, <1>9, <1>10, <1>11, <1>12, <1>13, <1>14 DEF Next

\* A snapshot with a plan is no longer written to.
LEMMA TreeStays ==
  ASSUME Typed, Own, [Next]_vars, NEW s \in Snaps, snaps'[s] # None, snaps'[s].plan # None
  PROVE  snaps[s] # None /\ snaps'[s].tree = snaps[s].tree
<1>0. 0 \notin Snaps
  BY UpgradeAssumption DEF Snaps
<1>1. ~Mkdir \/ s # runs
  BY SeeMkdir
<1>2. ~(Copy /\ s = run.snap)
  <2> SUFFICES ASSUME Copy, s = run.snap PROVE FALSE
    OBVIOUS
  <2>1. run.pc = "copy" /\ snaps'[s].plan = snaps[s].plan
    BY SeeCopy
  <2> QED BY <1>0, <2>1 DEF Own, NewPCs
<1> QED BY <1>1, <1>2, NewTree

LEMMA DeltasStep ==
  ASSUME Typed, Own, Deltas, Delta, [Next]_vars
  PROVE  Deltas'
<1> SUFFICES ASSUME NEW s \in Snaps, snaps'[s] # None, snaps'[s].plan # None
             PROVE  DeltaOf(snaps'[s].tree, snaps'[s].plan.image, snaps'[s].plan.added, snaps'[s].plan.modified)
  BY DEF Deltas, DeltaOf
<1>0. 0 \notin Snaps
  BY UpgradeAssumption DEF Snaps
<1>1. snaps[s] # None /\ snaps'[s].tree = snaps[s].tree
  BY TreeStays
<1>2. CASE snaps'[s].plan = snaps[s].plan
  BY <1>1, <1>2 DEF Deltas
<1>3. CASE /\ snaps'[s].plan.added = run.added /\ snaps'[s].plan.modified = run.modified
           /\ snaps'[s].plan.image = disk /\ RecordPlan /\ s = run.snap
  <2>1. run.pc = "plan"
    BY <1>3, SeeRecordPlan
  <2>2. InUse /\ Due = run.modified
    BY <1>0, <1>3, <2>1 DEF InUse, Due
  <2> QED BY <1>1, <1>3, <2>2 DEF Delta
<1>4. CASE /\ snaps'[s].plan.added = Added(s) /\ snaps'[s].plan.modified = Changed(s)
           /\ snaps'[s].plan.image = disk
  BY <1>1, <1>4, Captured
<1> QED BY <1>2, <1>3, <1>4, NewPlan

\* What fresh stands for: an edit of a page that is as the snapshot has it,
\* made while the engine's gate is at work, or of one that has such an edit.
Fresh == runner = "engine" =>
  /\ fresh \in [Pages -> Nat]
  /\ run.pc \in NewPCs \cup {"mkdir"} => \A x \in Pages : fresh[x] = 0
  /\ EditKept
  /\ \A s \in Snaps : snaps[s] # None /\ snaps[s].plan # None =>
       \A x \in Pages : fresh[x] # 0 /\ snaps[s].plan.image[x] # None => snaps[s].plan.image[x].edit < fresh[x]
  /\ InUse => \A x \in Pages : fresh[x] # 0 => x \notin run.added /\ x \notin Due

\* Who writes, and what becomes of a page with such an edit.
LEMMA FreshWrite ==
  ASSUME Typed, Images, Dates, Ways, Delta, Fresh, runner = "engine", NEW p \in Pages, Write(p)
  PROVE  Fresh'
<1>0. /\ UNCHANGED <<snaps, run, runner>> /\ edits \in Nat /\ edits' = edits + 1
      /\ disk'[p] # None /\ disk'[p].edit = edits + 1 /\ \A f \in Files \ {p} : disk'[f] = disk[f]
      /\ fresh' = IF \/ fresh[p] # 0
                     \/ run.snap # 0 /\ run.pc \in Gate /\ disk[p] = snaps[run.snap].tree[p]
                    THEN [fresh EXCEPT ![p] = edits + 1] ELSE fresh
  BY SeeWrite DEF Apart, Typed
<1>1. /\ fresh \in [Pages -> Nat] /\ EditKept
      /\ run.pc \in NewPCs \cup {"mkdir"} => \A x \in Pages : fresh[x] = 0
      /\ \A s \in Snaps : snaps[s] # None /\ snaps[s].plan # None =>
           \A x \in Pages : fresh[x] # 0 /\ snaps[s].plan.image[x] # None => snaps[s].plan.image[x].edit < fresh[x]
      /\ InUse => \A x \in Pages : fresh[x] # 0 => x \notin run.added /\ x \notin Due
  BY DEF Fresh
<1>2. fresh' \in [Pages -> Nat]
  BY <1>0, <1>1
<1>3. \A x \in Pages \ {p} : fresh'[x] = fresh[x]
  BY <1>0, <1>1
<1>4. fresh'[p] = fresh[p] \/ fresh'[p] = edits + 1
  BY <1>0, <1>1
<1>5. fresh'[p] # 0 => fresh'[p] = edits + 1
  BY <1>0, <1>1
<1>6. fresh'[p] # 0 => fresh[p] # 0 \/ (run.snap # 0 /\ run.pc \in Gate /\ disk[p] = snaps[run.snap].tree[p])
  BY <1>0, <1>1
<1>7. ASSUME run.pc \in NewPCs \cup {"mkdir"}, NEW x \in Pages PROVE fresh'[x] = 0
  BY <1>1, <1>3, <1>6, <1>7 DEF NewPCs, Gate
<1>8. EditKept'
  <2> SUFFICES ASSUME NEW x \in Pages, fresh'[x] # 0 PROVE disk'[x] # None /\ disk'[x].edit = fresh'[x]
    BY DEF EditKept
  <2>1. CASE x = p
    BY <1>0, <1>5, <2>1
  <2>2. CASE x # p
    BY <1>0, <1>1, <1>3, <2>2, FilesAre DEF EditKept
  <2> QED BY <2>1, <2>2
<1>9. ASSUME NEW s \in Snaps, snaps[s] # None, snaps[s].plan # None, NEW x \in Pages, fresh'[x] # 0,
             snaps[s].plan.image[x] # None
      PROVE  snaps[s].plan.image[x].edit < fresh'[x]
  <2>1. CASE x = p
    <3>1. snaps[s].plan.image[x].edit <= edits
      BY <1>9 DEF Dates, Dated
    <3>2. fresh'[x] = edits + 1
      BY <1>5, <1>9, <2>1
    <3>3. snaps[s].plan.image[x].edit \in Nat
      <4>1. IsVault(snaps[s].plan.image) /\ x \in Files /\ Holdable(x) = PageText
        BY <1>9, FilesAre DEF Images
      <4>2. snaps[s].plan.image[x] \in PageText
        BY <1>9, <4>1 DEF IsVault
      <4> QED BY <4>2 DEF PageText
    <3> QED BY <1>0, <3>1, <3>2, <3>3
  <2>2. CASE x # p
    BY <1>1, <1>3, <1>9, <2>2
  <2> QED BY <2>1, <2>2
<1>10. ASSUME InUse, NEW x \in Pages, fresh'[x] # 0 PROVE x \notin run.added /\ x \notin Due
  <2>1. CASE fresh[x] # 0
    BY <1>1, <1>10, <2>1
  <2>2. CASE fresh[x] = 0
    <3>1. x = p /\ disk[p] = snaps[run.snap].tree[p]
      BY <1>3, <1>6, <1>10, <2>2
    <3> QED BY <1>10, <3>1 DEF Delta, DeltaOf
  <2> QED BY <2>1, <2>2
<1>11. InUse' = InUse /\ Due' = Due /\ (NewPCs' = NewPCs)
  BY <1>0 DEF InUse, Due, NewPCs
<1> QED BY <1>0, <1>2, <1>7, <1>8, <1>9, <1>10, <1>11 DEF Fresh

LEMMA FreshStep ==
  ASSUME Typed, Images, Dates, Own, Ways, Deltas, Delta, Fresh, [Next]_vars
  PROVE  Fresh'
<1> SUFFICES ASSUME runner' = "engine" PROVE Fresh'
  BY DEF Fresh
<1>0. runner = "engine" /\ runner' = runner
  BY DEF Next, vars, setting, Start, Mkdir, Copy, Manifest, SnapshotFails, Load, Migrate,
     RecordApplied, WritePin, Recompose, Freeze, RecordPlan, Raise, GatePasses, GateFails,
     RecordVersion, Confirm, Prune, Accepted, Recover, RegatePasses, RegateFails, RestoreSaved,
     Quarantine, Restore, RolledBack, RestoreFails, Write, Kill
<1>1. CASE \E p \in Pages : Write(p)
  BY <1>0, <1>1, FreshWrite
<1>2. CASE \E flags \in Flags : Start(flags)
  <2>1. fresh' = [p \in Pages |-> 0]
    BY <1>2, SeeStart
  <2> QED BY <2>1 DEF Fresh, EditKept
<1> SUFFICES ASSUME ~(\E p \in Pages : Write(p)), ~(\E flags \in Flags : Start(flags)) PROVE Fresh'
  BY <1>1, <1>2
<1>3. fresh' = fresh
  BY DEF Next, vars, world, history, Mkdir, Copy, Manifest, SnapshotFails, Load, Migrate,
     RecordApplied, WritePin, Recompose, Freeze, RecordPlan, Raise, GatePasses, GateFails,
     RecordVersion, Confirm, Prune, Accepted, Recover, RegatePasses, RegateFails, RestoreSaved,
     Quarantine, Restore, RolledBack, RestoreFails, Kill
<1>4. /\ fresh \in [Pages -> Nat] /\ EditKept
      /\ run.pc \in NewPCs \cup {"mkdir"} => \A x \in Pages : fresh[x] = 0
      /\ \A s \in Snaps : snaps[s] # None /\ snaps[s].plan # None =>
           \A x \in Pages : fresh[x] # 0 /\ snaps[s].plan.image[x] # None => snaps[s].plan.image[x].edit < fresh[x]
      /\ InUse => \A x \in Pages : fresh[x] # 0 => x \notin run.added /\ x \notin Due
  BY <1>0 DEF Fresh
<1>5. NewPCs' = NewPCs /\ NewPCs = {"copy", "load", "apply", "pin", "freeze", "plan", "recompose"}
  BY <1>0 DEF NewPCs
<1>6. run'.pc \in NewPCs \cup {"mkdir"} => run.pc \in NewPCs \cup {"mkdir"}
  <2>1. CASE Mkdir \/ Copy \/ Manifest \/ SnapshotFails
    BY <1>5, <2>1, SeeMkdir, SeeCopy, SeeManifest, SeeSnapshotFails DEF Rests
  <2>2. CASE Load \/ Migrate \/ RecordApplied \/ WritePin \/ Recompose \/ Freeze \/ RecordPlan \/ Raise
    BY <1>5, <2>2, SeeLoad, SeeMigrate, SeeRecordApplied, SeeWritePin, SeeRecompose, SeeFreeze,
       SeeRecordPlan, SeeRaise DEF Rests, Captures, Takes
  <2>3. CASE GatePasses \/ GateFails \/ RecordVersion \/ Confirm \/ Prune \/ Accepted \/ Recover
    BY <1>5, <2>3, SeeGatePasses, SeeGateFails, SeeRecordVersion, SeeConfirm, SeePrune, SeeAccepted,
       SeeRecover DEF Moves, Rests, Captures, Takes
  <2>4. CASE RegatePasses \/ RegateFails \/ Quarantine \/ Restore \/ RolledBack \/ RestoreFails \/ Kill
    BY <1>5, <2>4, SeeRegatePasses, SeeRegateFails, SeeQuarantine, SeeRestore, SeeRolledBack,
       SeeRestoreFails, SeeKill DEF Moves, Rests, Takes
  <2>5. CASE RestoreSaved \/ UNCHANGED vars
    BY <1>5, <2>5, SeeRestoreSaved, SeeNothing
  <2> QED BY <2>1, <2>2, <2>3, <2>4, <2>5 DEF Next
<1>7. EditKept'
  <2> SUFFICES ASSUME NEW x \in Pages, fresh[x] # 0 PROVE disk'[x] # None /\ disk'[x].edit = fresh[x]
    BY <1>3 DEF EditKept
  <2>0. x \in Files /\ x # "state" /\ x # "pin" /\ disk[x] # None /\ disk[x].edit = fresh[x]
    BY <1>4, PagesAre DEF EditKept
  <2>1. ~Migrate
    BY <1>4, <1>5, SeeMigrate
  <2>2. ASSUME Quarantine PROVE x \notin run.added
    <3>1. run.pc = "quarantine" /\ InUse
      BY <1>0, <2>2, SeeQuarantine DEF InUse, Typed, Restorable
    <3> QED BY <1>4, <3>1
  <2>3. ASSUME Restore PROVE disk'[x] = disk[x]
    <3>1. run.pc = "restore" /\ InUse
      BY <1>0, <2>3, SeeRestore DEF InUse, Typed, Restorable
    <3>2. x \notin Due
      BY <1>4, <3>1
    <3> QED BY <2>0, <2>3, <3>1, <3>2, SeeRestore DEF Due
  <2>4. disk'[x] = disk[x]
    BY <2>0, <2>1, <2>2, <2>3, DiskStep
  <2> QED BY <2>0, <2>4
<1>8. ASSUME NEW s \in Snaps, snaps'[s] # None, snaps'[s].plan # None, NEW x \in Pages, fresh[x] # 0,
             snaps'[s].plan.image[x] # None
      PROVE  snaps'[s].plan.image[x].edit < fresh[x]
  <2>1. CASE snaps'[s].plan = snaps[s].plan
    BY <1>4, <1>8, <2>1, NewPlan
  <2>2. CASE RecordPlan
    BY <1>4, <1>5, <1>8, <2>2, SeeRecordPlan
  <2>3. CASE Recover
    BY <1>0, <2>3, SeeRecover DEF Ways
  <2> QED BY <1>8, <2>1, <2>2, <2>3, NewPlan
<1>9. ASSUME InUse', NEW x \in Pages, fresh[x] # 0 PROVE x \notin run'.added /\ x \notin Due'
  <2>1. CASE RestoreSaved
    <3>1. PICK s \in Snaps :
          /\ snaps[s] # None /\ snaps[s].plan # None
          /\ \A f \in snaps[s].plan.added \cup snaps[s].plan.modified : disk[f] = snaps[s].plan.image[f]
          /\ run'.added = snaps[s].plan.added /\ run'.modified = snaps[s].plan.modified
      BY <2>1, SeeRestoreSaved
    <3>2. disk[x] # None /\ disk[x].edit = fresh[x]
      BY <1>4, <1>9 DEF EditKept
    <3>3. disk[x] # snaps[s].plan.image[x]
      BY <1>4, <1>9, <3>1, <3>2
    <3> QED BY <3>1, <3>3 DEF Due
  <2>2. run.pc \notin NewPCs
    BY <1>4, <1>9
  <2>3. CASE Quarantine \/ Restore
    <3>1. InUse
      BY <1>0, <2>3, SeeQuarantine, SeeRestore DEF InUse, Typed, Restorable
    <3>2. run'.added \subseteq run.added
      BY <2>3, SeeQuarantine, SeeRestore
    <3>3. Due' \subseteq Due
      BY <2>3, SeeQuarantine, SeeRestore DEF Due
    <3> QED BY <1>4, <1>9, <3>1, <3>2, <3>3
  <2>4. CASE GateFails
    <3>1. run.pc = "gate" /\ (Rests \/ (run.snap # 0 /\ Moves("quarantine")))
      BY <1>0, <2>4, SeeGateFails
    <3>2. run.snap # 0 /\ Moves("quarantine")
      BY <1>9, <3>1 DEF InUse, Rests
    <3> QED BY <1>0, <1>4, <1>9, <3>1, <3>2 DEF InUse, Due, Moves
  <2>5. CASE UNCHANGED vars
    BY <1>4, <1>9, <2>5, SeeNothing DEF InUse, Due, Apart
  <2>6. ~InUse' \/ RestoreSaved \/ Quarantine \/ Restore \/ GateFails \/ UNCHANGED vars
    <3>1. CASE Mkdir \/ Copy \/ Manifest \/ SnapshotFails
      BY <3>1, SeeMkdir, SeeCopy, SeeManifest, SeeSnapshotFails DEF Rests, Moves, InUse
    <3>2. CASE Load \/ Migrate \/ RecordApplied \/ WritePin \/ Recompose \/ Freeze \/ RecordPlan
      BY <1>5, <2>2, <3>2, SeeLoad, SeeMigrate, SeeRecordApplied, SeeWritePin, SeeRecompose, SeeFreeze,
         SeeRecordPlan
    <3>3. CASE Raise
      BY <1>0, <1>5, <2>2, <3>3, SeeRaise
    <3>4. CASE GatePasses \/ RecordVersion \/ Confirm \/ Prune \/ Accepted \/ Recover
      BY <3>4, SeeGatePasses, SeeRecordVersion, SeeConfirm, SeePrune, SeeAccepted, SeeRecover
         DEF Moves, Rests, InUse
    <3>5. CASE RegatePasses \/ RegateFails \/ RolledBack \/ RestoreFails \/ Kill
      BY <1>0, <3>5, SeeRegatePasses, SeeRegateFails, SeeRolledBack, SeeRestoreFails, SeeKill
         DEF Moves, Rests, InUse, Ways
    <3> QED BY <3>1, <3>2, <3>3, <3>4, <3>5 DEF Next
  <2> QED BY <1>9, <2>1, <2>3, <2>4, <2>5, <2>6
<1> QED BY <1>3, <1>4, <1>5, <1>6, <1>7, <1>8, <1>9 DEF Fresh

Shaped == /\ Typed /\ Images /\ Dates /\ Numbered /\ Own /\ Ways /\ Deltas /\ Delta

LEMMA ShapedInit == Init => Shaped
<1> SUFFICES ASSUME Init PROVE Shaped
  OBVIOUS
<1>1. /\ Typed /\ run = Idle /\ runner \in {"engine", "pack"}
      /\ \A s \in Snaps : snaps[s] = None
  BY TypedInit, UpgradeAssumption DEF Init
<1>2. run.pc = "idle" /\ run.snap = 0 /\ run.plan = {}
  BY <1>1 DEF Idle
<1>3. \A p \in Pages : disk[p] = None \/ disk[p].edit = 0
  BY UpgradeAssumption DEF Init, Untouched, Files
<1>4. edits = 0
  BY DEF Init
<1> QED BY <1>1, <1>2, <1>3, <1>4 DEF Shaped, Images, Dates, Dated, Numbered, Own, Ways, Deltas, Delta,
    InUse, NewPCs, WorkPCs

LEMMA ShapedStep == Shaped /\ [Next]_vars => Shaped'
<1> SUFFICES ASSUME Shaped, [Next]_vars PROVE Shaped'
  OBVIOUS
<1>1. /\ Typed /\ Images /\ Dates /\ Numbered /\ Own /\ Ways /\ Deltas /\ Delta
  BY DEF Shaped
<1>2. Typed'
  BY <1>1, TypedStep
<1> QED BY <1>1, <1>2, ImagesStep, DatesStep, NumberedStep, OwnStep, WaysStep, DeltasStep, DeltaStep
    DEF Shaped

\* An edit somebody makes while the engine's slow gate runs, of a page the
\* migration left alone, is still there when a failing gate has rolled the
\* migration back.
THEOREM GateEditsAreSpared == Spec => []GateEditsSurvive
<1>1. Init => Fresh
  <2> SUFFICES ASSUME Init PROVE Fresh
    OBVIOUS
  <2>1. /\ fresh = [p \in Pages |-> 0] /\ run.snap = 0 /\ \A s \in Snaps : snaps[s] = None
    BY DEF Init, Idle
  <2> QED BY <2>1 DEF Fresh, EditKept, InUse
<1>2. Shaped /\ Fresh /\ [Next]_vars => Fresh'
  BY FreshStep DEF Shaped
<1>3. Fresh => GateEditsSurvive
  BY DEF Fresh, GateEditsSurvive
<1> QED BY ShapedInit, ShapedStep, <1>1, <1>2, <1>3, PTL DEF Spec

-----------------------------------------------------------------------------
(* The plan and the claim                                                  *)

\* What a tree says of the vault it was taken from.
StateOf(t)   == IF t["state"] = None THEN NoState ELSE t["state"]
ClaimOf(t)   == IF runner = "engine" THEN t["pin"] ELSE StateOf(t).version
PendingOf(t) == Span(ClaimOf(t)) \ StateOf(t).applied

\* Where in its plan the invocation is.
Place == run.k \in Migs \cup {0}

LEMMA PlaceStep == ASSUME Typed, Place, [Next]_vars PROVE Place'
<1>1. CASE \E flags \in Flags : Start(flags)
  BY <1>1, SeeStart DEF Place
<1>2. CASE Load
  BY <1>2, SeeLoad DEF Place, Moves, Stays, Left, Typed, IsRun
<1>3. CASE Mkdir \/ Copy \/ Manifest \/ SnapshotFails \/ Migrate \/ RecordApplied
  BY <1>3, SeeMkdir, SeeCopy, SeeManifest, SeeSnapshotFails, SeeMigrate, SeeRecordApplied
     DEF Place, Moves, Stays, Rests
<1>4. CASE WritePin \/ Recompose \/ Freeze \/ RecordPlan \/ Raise \/ GatePasses \/ GateFails
  BY <1>4, SeeWritePin, SeeRecompose, SeeFreeze, SeeRecordPlan, SeeRaise, SeeGatePasses, SeeGateFails
     DEF Place, Moves, Captures, Takes, Stays, Rests
<1>5. CASE RecordVersion \/ Confirm \/ Prune \/ Accepted \/ Recover \/ RegatePasses \/ RegateFails
  BY <1>5, SeeRecordVersion, SeeConfirm, SeePrune, SeeAccepted, SeeRecover, SeeRegatePasses, SeeRegateFails
     DEF Place, Moves, Takes, Stays, Rests
<1>6. CASE RestoreSaved \/ Quarantine \/ Restore \/ RolledBack \/ RestoreFails \/ Kill
  BY <1>6, SeeRestoreSaved, SeeQuarantine, SeeRestore, SeeRolledBack, SeeRestoreFails, SeeKill
     DEF Place, Stays, Rests
<1>7. CASE (\E p \in Pages : Write(p)) \/ UNCHANGED vars
  BY <1>7, SeeWrite, SeeNothing DEF Place
<1> QED BY <1>1, <1>2, <1>3, <1>4, <1>5, <1>6, <1>7 DEF Next

PastPCs == {"pin", "freeze", "plan", "recompose", "gate", "version", "recover", "regate"}
LowPCs  == {"mkdir", "copy", "load", "apply", "pin", "recover", "regate", "version"} \cup
           (IF runner = "pack" THEN {"freeze", "plan", "recompose", "gate"} ELSE {})
HighPCs == {"confirm", "prune"} \cup
           (IF runner = "engine" THEN {"freeze", "plan", "recompose", "gate"} ELSE {})

\* What is left of the plan is what is pending, and the release is claimed
\* by the pin before the engine's gate and by the record after the pack's.
Progress ==
  /\ run.pc \in {"mkdir", "copy"} => run.k = 0
  /\ run.pc \in {"mkdir", "copy", "load"} => Pending = Left
  /\ run.pc = "apply" => Pending = Left \cup {run.k}
  /\ run.pc \in PastPCs => Pending = {}
  /\ run.pc \in LowPCs => Claimed # Target
  /\ run.pc \in HighPCs => Claimed = Target

\* A snapshot is of a vault that claimed less, a plan of one that was through.
Points == \A s \in Snaps : snaps[s] # None =>
  /\ ClaimOf(snaps[s].tree) # Target
  /\ runner = "pack" => PendingOf(snaps[s].tree) # {}
  /\ snaps[s].plan # None => /\ PendingOf(snaps[s].plan.image) = {}
                             /\ runner = "engine" => snaps[s].plan.image["pin"] = Target

LEMMA OfDisk == State = StateOf(disk) /\ Claimed = ClaimOf(disk) /\ Pending = PendingOf(disk)
BY DEF State, StateOf, Claimed, ClaimOf, Pending, PendingOf

LEMMA RunnerStays == ASSUME [Next]_vars PROVE Apart
BY DEF Apart, Next, vars, setting, Start, Mkdir, Copy, Manifest, SnapshotFails, Load, Migrate,
     RecordApplied, WritePin, Recompose, Freeze, RecordPlan, Raise, GatePasses, GateFails,
     RecordVersion, Confirm, Prune, Accepted, Recover, RegatePasses, RegateFails, RestoreSaved,
     Quarantine, Restore, RolledBack, RestoreFails, Write, Kill

\* Only five steps change what the vault claims.
Claiming == RecordApplied \/ WritePin \/ RecordVersion \/ Quarantine \/ Restore

LEMMA ClaimStays ==
  ASSUME Typed, [Next]_vars, ~Claiming
  PROVE  /\ disk'["state"] = disk["state"] /\ disk'["pin"] = disk["pin"]
         /\ State' = State /\ Claimed' = Claimed /\ Pending' = Pending
<1>1. disk'["state"] = disk["state"] /\ disk'["pin"] = disk["pin"]
  BY DiskStep, FilesAre, UpgradeAssumption DEF Claiming
<1>2. State' = State /\ Claimed' = Claimed
  BY <1>1, RunnerStays DEF State, Claimed, Apart
<1> QED BY <1>1, <1>2 DEF Pending, Span

LEMMA ClaimIs ==
  ASSUME Typed, Ways
  PROVE  /\ State \in StateRec
         /\ runner = "pack" => Claimed = State.version /\ Claimed \in Nat
         /\ runner = "engine" => Claimed = disk["pin"]
         /\ \A m \in Migs : To[m] \in Nat /\ To[m] <= Target
         /\ Target \in Nat
<1>1. State \in StateRec
  BY FilesAre DEF Typed, IsVault, State, StateRec, NoState
<1> QED BY <1>1, UpgradeAssumption DEF Claimed, StateRec, Ways

\* A migration that is recorded is no longer pending, whether or not the
\* pack's checkpoint moves with it.
LEMMA RecordedIsDone ==
  ASSUME Typed, Ways, Progress, RecordApplied
  PROVE  /\ Pending' = Left /\ Left' = Left /\ Claimed' # Target
         /\ State'.applied = State.applied \cup {run.k} /\ Claimed' \in {Claimed, To[run.k]}
<1>1. /\ run.pc = "apply" /\ run.k \in Migs /\ Apart /\ Stays
      /\ disk'["state"] = [applied |-> State.applied \cup {run.k},
                           version |-> IF runner = "pack" THEN Checkpoint ELSE State.version]
      /\ disk'["state"] # None /\ disk'["pin"] = disk["pin"]
  BY SeeRecordApplied, FilesAre DEF Moves
<1>2. /\ State'.applied = State.applied \cup {run.k}
      /\ State'.version = IF runner = "pack" THEN Checkpoint ELSE State.version
  BY <1>1 DEF State
<1>3. Left' = Left
  BY <1>1 DEF Left, Stays
<1>4. Pending = Left \cup {run.k} /\ Claimed # Target /\ run.k \notin Left
  <2>1. Pending = Left \cup {run.k} /\ Claimed # Target
    BY <1>1 DEF Progress, LowPCs
  <2> QED BY <1>1, <2>1 DEF Left, Migs
<1>5. CASE Claimed' = Claimed
  <2>1. Pending' = Pending \ {run.k}
    BY <1>2, <1>5 DEF Pending, Span
  <2> QED BY <1>2, <1>3, <1>4, <1>5, <2>1
<1>6. CASE Claimed' # Claimed
  <2>1. runner = "pack" /\ Claimed' = Checkpoint /\ Claimed = State.version
    BY <1>1, <1>2, <1>6, ClaimIs DEF Claimed, Apart, Ways
  <2>2. Claimed' = To[run.k] /\ To[run.k] < Target /\ \A j \in Left : To[j] # To[run.k]
    BY <1>6, <2>1 DEF Checkpoint
  <2>3. \A m \in Migs : To[m] \in Nat
    BY ClaimIs
  <2>4. \A m \in Pending : m \in Migs /\ Claimed < To[m] /\ To[m] <= Target /\ m \notin State.applied
    BY DEF Pending, Span
  <2>5. run.k \in Pending
    BY <1>4
  <2>6. Pending' = {m \in Migs : To[run.k] < To[m] /\ To[m] <= Target} \ (State.applied \cup {run.k})
    BY <1>2, <2>2 DEF Pending, Span
  <2>7. ASSUME NEW m \in Left PROVE m \in Pending'
    <3>1. m \in Pending /\ m # run.k
      BY <1>4
    <3>2. run.k <= m
      BY <1>1, <2>4, <3>1 DEF Left, Migs
    <3>3. To[run.k] < To[m]
      BY <1>1, <2>2, <2>3, <2>4, <3>1, <3>2, UpgradeAssumption
    <3> QED BY <2>4, <2>6, <3>1, <3>3
  <2>8. ASSUME NEW m \in Pending' PROVE m \in Left
    <3>1. m \in Migs /\ To[run.k] < To[m] /\ To[m] <= Target /\ m \notin State.applied /\ m # run.k
      BY <2>6
    <3>2. Claimed \in Nat
      BY <2>1, ClaimIs
    <3>3. Claimed < To[m]
      BY <1>1, <2>3, <2>4, <2>5, <3>1, <3>2
    <3>4. m \in Pending
      BY <3>1, <3>3 DEF Pending, Span
    <3> QED BY <1>4, <3>1, <3>4
  <2>9. Claimed' # Target
    BY <1>1, <2>2, ClaimIs
  <2> QED BY <1>2, <1>3, <2>2, <2>7, <2>8, <2>9
<1> QED BY <1>5, <1>6

LEMMA NoneBeyond ==
  ASSUME Typed, Ways
  PROVE  Span(Target) = {}
BY ClaimIs DEF Span

LEMMA ProgressStep ==
  ASSUME Typed, Own, Ways, Place, Progress, [Next]_vars
  PROVE  Progress'
<1>0. /\ runner' = runner /\ runner \in {"engine", "pack"}
      /\ run.pc \in {"mkdir", "copy"} => run.k = 0
      /\ run.pc \in {"mkdir", "copy", "load"} => Pending = Left
      /\ run.pc = "apply" => Pending = Left \cup {run.k}
      /\ run.pc \in PastPCs => Pending = {}
      /\ run.pc \in LowPCs => Claimed # Target
      /\ run.pc \in HighPCs => Claimed = Target
      /\ runner = "engine" => run.pc \notin {"version", "recover", "regate"}
      /\ runner = "pack" => run.pc # "pin"
  BY RunnerStays DEF Progress, Apart, Ways
<1>1. CASE RecordApplied
  <2>1. run'.pc = "load"
    BY <1>1, SeeRecordApplied DEF Moves
  <2> QED BY <1>1, <2>1, RecordedIsDone DEF Progress, PastPCs, LowPCs, HighPCs
<1>2. CASE WritePin
  <2>1. run.pc = "pin" /\ run'.pc = "recompose" /\ disk'["pin"] = Target /\ runner = "engine"
    BY <1>0, <1>2, SeeWritePin DEF Moves
  <2>2. Claimed' = Target
    BY <1>0, <2>1 DEF Claimed
  <2>3. Pending' = {}
    BY <2>2, NoneBeyond DEF Pending, Span
  <2> QED BY <1>0, <2>1, <2>2, <2>3 DEF Progress, PastPCs, LowPCs, HighPCs
<1>3. CASE RecordVersion
  <2>1. /\ run.pc = "version" /\ run'.pc \in {"accepted", "confirm"}
        /\ disk'["state"] # None /\ disk'["state"].version = Target
    BY <1>3, SeeRecordVersion DEF Moves
  <2>2. Claimed' = Target
    BY <1>0, <2>1 DEF Claimed, State
  <2> QED BY <1>0, <2>1, <2>2 DEF Progress, PastPCs, LowPCs, HighPCs
<1>4. CASE Quarantine \/ Restore
  <2>1. run'.pc \in {"quarantine", "restore"}
    BY <1>4, SeeQuarantine, SeeRestore
  <2> QED BY <2>1 DEF Progress, PastPCs, LowPCs, HighPCs
<1> SUFFICES ASSUME ~Claiming PROVE Progress'
  BY <1>1, <1>2, <1>3, <1>4 DEF Claiming
<1>5. Claimed' = Claimed /\ Pending' = Pending
  BY ClaimStays
<1>6. CASE \E flags \in Flags : Start(flags)
  <2>1. /\ run'.plan = Pending /\ run'.k = 0 /\ Claimed # Target
        /\ \/ run'.pc = "recover" /\ Pending = {}
           \/ run'.pc = "load" \/ run'.pc = "mkdir"
    BY <1>6, SeeStart
  <2>2. Left' = Pending
    <3>1. \A m \in Pending : m \in Migs /\ m > 0
      BY DEF Pending, Span, Migs
    <3> QED BY <2>1, <3>1 DEF Left
  <2> QED BY <1>5, <2>1, <2>2 DEF Progress, PastPCs, LowPCs, HighPCs
<1>7. CASE Mkdir
  <2>1. run.pc = "mkdir" /\ run'.pc = "copy" /\ run'.plan = run.plan /\ run'.k = run.k
    BY <1>7, SeeMkdir
  <2> QED BY <1>0, <1>5, <2>1 DEF Progress, Left, PastPCs, LowPCs, HighPCs
<1>8. CASE Copy
  <2>1. run.pc = "copy" /\ run'.pc = "copy" /\ run'.plan = run.plan /\ run'.k = run.k
    BY <1>8, SeeCopy DEF Stays
  <2> QED BY <1>0, <1>5, <2>1 DEF Progress, Left, PastPCs, LowPCs, HighPCs
<1>9. CASE Manifest
  <2>1. run.pc = "copy" /\ run'.pc = "load" /\ run'.plan = run.plan /\ run'.k = run.k
    BY <1>9, SeeManifest DEF Moves, Stays
  <2> QED BY <1>0, <1>5, <2>1 DEF Progress, Left, PastPCs, LowPCs, HighPCs
<1>10. CASE Load
  <2>0. run.pc = "load" /\ Pending = Left /\ Claimed # Target
    BY <1>0, <1>10, SeeLoad DEF LowPCs
  <2>1. CASE Left = {} /\ Moves(IF runner = "engine" THEN "pin" ELSE "freeze")
    BY <1>0, <1>5, <2>0, <2>1 DEF Progress, PastPCs, LowPCs, HighPCs, Moves
  <2>2. CASE \E m \in Left : /\ \A n \in Left : m <= n
                             /\ run'.pc = "apply" /\ run'.k = m /\ run'.plan = run.plan
    <3>1. PICK m \in Left : /\ \A n \in Left : m <= n
                            /\ run'.pc = "apply" /\ run'.k = m /\ run'.plan = run.plan
      BY <2>2
    <3>2. Left' = Left \ {m}
      <4>1. \A n \in run.plan : n \in Int
        BY DEF Typed, IsRun, Migs
      <4>2. m \in run.plan /\ m > run.k
        BY DEF Left
      <4>3. Left' = {n \in run.plan : n > m}
        BY <3>1 DEF Left
      <4>4. ASSUME NEW n \in run.plan, n > m PROVE n \in Left
        <5>1. n > run.k \/ run.k \notin Int
          BY <4>1, <4>2, <4>4
        <5>2. run.k \in Int
          BY UpgradeAssumption DEF Place, Migs
        <5> QED BY <5>1, <5>2 DEF Left
      <4>5. ASSUME NEW n \in Left, n # m PROVE n > m
        BY <3>1, <4>1, <4>2, <4>5 DEF Left
      <4> QED BY <3>1, <4>1, <4>2, <4>3, <4>4, <4>5 DEF Left
    <3> QED BY <1>0, <1>5, <2>0, <3>1, <3>2 DEF Progress, PastPCs, LowPCs, HighPCs
  <2> QED BY <1>10, <2>1, <2>2, SeeLoad
<1>11. CASE Migrate
  <2>1. run.pc = "apply" /\ run'.pc = "apply" /\ run'.plan = run.plan /\ run'.k = run.k
    BY <1>11, SeeMigrate DEF Stays
  <2> QED BY <1>0, <1>5, <2>1 DEF Progress, Left, PastPCs, LowPCs, HighPCs
<1>12. CASE Recompose
  <2>1. run.pc = "recompose" /\ run'.pc \in {"gate", "freeze"} /\ (runner = "pack" => run'.pc = "gate")
    BY <1>12, SeeRecompose DEF Moves
  <2> QED BY <1>0, <1>5, <2>1 DEF Progress, PastPCs, LowPCs, HighPCs
<1>13. CASE Freeze
  <2>1. run.pc = "freeze" /\ run'.pc = "plan"
    BY <1>13, SeeFreeze DEF Captures, Takes
  <2> QED BY <1>0, <1>5, <2>1 DEF Progress, PastPCs, LowPCs, HighPCs
<1>14. CASE RecordPlan
  <2>1. run.pc = "plan" /\ run'.pc = IF runner = "pack" THEN "recompose" ELSE "gate"
    BY <1>14, SeeRecordPlan DEF Moves
  <2> QED BY <1>0, <1>5, <2>1 DEF Progress, PastPCs, LowPCs, HighPCs
<1>15. CASE GatePasses
  <2>1. run.pc = "gate" /\ run'.pc \in {"version", "accepted", "confirm", "prune"} /\ (run'.pc = "version" <=> runner = "pack")
    BY <1>15, SeeGatePasses DEF Moves
  <2> QED BY <1>0, <1>5, <2>1 DEF Progress, PastPCs, LowPCs, HighPCs
<1>16. CASE Confirm
  <2>1. run.pc = "confirm" /\ run'.pc = "prune"
    BY <1>16, SeeConfirm DEF Moves
  <2> QED BY <1>0, <1>5, <2>1 DEF Progress, PastPCs, LowPCs, HighPCs
<1>17. CASE Recover
  <2>1. run.pc = "recover" /\ run'.pc \in {"version", "regate"}
    BY <1>17, SeeRecover DEF Moves
  <2> QED BY <1>0, <1>5, <2>1 DEF Progress, PastPCs, LowPCs, HighPCs
<1>18. CASE RegatePasses
  <2>1. run.pc = "regate" /\ run'.pc = "version"
    BY <1>18, SeeRegatePasses DEF Moves
  <2> QED BY <1>0, <1>5, <2>1 DEF Progress, PastPCs, LowPCs, HighPCs
<1>19. CASE SnapshotFails \/ Raise \/ GateFails \/ Prune \/ Accepted \/ RegateFails \/ RestoreSaved \/ RolledBack \/ RestoreFails \/ Kill
  <2>1. run'.pc \in {"idle", "quarantine", "accepted"}
    BY <1>19, SeeSnapshotFails, SeeRaise, SeeGateFails, SeePrune, SeeAccepted, SeeRegateFails, SeeRestoreSaved,
       SeeRolledBack, SeeRestoreFails, SeeKill DEF Moves, Captures, Takes, Rests
  <2> QED BY <2>1 DEF Progress, PastPCs, LowPCs, HighPCs
<1>20. CASE (\E p \in Pages : Write(p)) \/ UNCHANGED vars
  <2>1. run' = run
    BY <1>20, SeeWrite, SeeNothing
  <2> QED BY <1>0, <1>5, <2>1 DEF Progress, Left, PastPCs, LowPCs, HighPCs
<1> QED BY <1>6, <1>7, <1>8, <1>9, <1>10, <1>11, <1>12, <1>13, <1>14, <1>15, <1>16, <1>17, <1>18,
    <1>19, <1>20 DEF Next, Claiming

\* A vault and a tree with the same record and pin claim the same.
LEMMA SameClaim ==
  ASSUME NEW t, NEW u, t["state"] = u["state"], t["pin"] = u["pin"]
  PROVE  StateOf(t) = StateOf(u) /\ ClaimOf(t) = ClaimOf(u) /\ PendingOf(t) = PendingOf(u)
BY DEF StateOf, ClaimOf, PendingOf

LEMMA PointsStep ==
  ASSUME Typed, Own, Ways, Place, Progress, Points, [Next]_vars
  PROVE  Points'
<1>0. runner' = runner /\ "state" \in Files /\ "pin" \in Files /\ "state" \notin Pages /\ "pin" \notin Pages
  BY RunnerStays, FilesAre, UpgradeAssumption DEF Apart
<1> SUFFICES ASSUME NEW s \in Snaps, snaps'[s] # None
             PROVE  /\ ClaimOf(snaps'[s].tree) # Target
                    /\ runner = "pack" => PendingOf(snaps'[s].tree) # {}
                    /\ snaps'[s].plan # None => /\ PendingOf(snaps'[s].plan.image) = {}
                                                /\ runner = "engine" => snaps'[s].plan.image["pin"] = Target
  BY <1>0 DEF Points, ClaimOf, PendingOf, StateOf, Span
<1>1. ClaimOf(snaps'[s].tree) # Target /\ (runner = "pack" => PendingOf(snaps'[s].tree) # {})
  <2>1. CASE snaps[s] # None /\ snaps'[s].tree = snaps[s].tree
    BY <2>1 DEF Points
  <2>2. CASE Mkdir /\ \A f \in Files : snaps'[s].tree[f] = IF f \in Pages THEN None ELSE disk[f]
    <3>1. ClaimOf(snaps'[s].tree) = Claimed /\ PendingOf(snaps'[s].tree) = Pending
      BY <1>0, <2>2, SameClaim, OfDisk
    <3>2. run.pc = "mkdir"
      BY <2>2, SeeMkdir
    <3>3. Claimed # Target /\ Pending = Left /\ run.k = 0
      BY <3>2 DEF Progress, LowPCs
    <3>4. Left = run.plan
      BY <3>3 DEF Left, Typed, IsRun, Migs
    <3> QED BY <3>1, <3>2, <3>3, <3>4 DEF Ways
  <2>3. CASE snaps[s] # None /\ \E f \in Pages : \A g \in Files :
                 snaps'[s].tree[g] = IF g = f THEN disk[f] ELSE snaps[s].tree[g]
    <3>1. snaps'[s].tree["state"] = snaps[s].tree["state"] /\ snaps'[s].tree["pin"] = snaps[s].tree["pin"]
      BY <1>0, <2>3
    <3>2. ClaimOf(snaps'[s].tree) = ClaimOf(snaps[s].tree) /\ PendingOf(snaps'[s].tree) = PendingOf(snaps[s].tree)
      BY <3>1, SameClaim
    <3> QED BY <2>3, <3>2 DEF Points
  <2> QED BY <2>1, <2>2, <2>3, NewTree
<1>2. ASSUME snaps'[s].plan # None
      PROVE  /\ PendingOf(snaps'[s].plan.image) = {}
             /\ runner = "engine" => snaps'[s].plan.image["pin"] = Target
  <2>1. CASE snaps[s] # None /\ snaps'[s].plan = snaps[s].plan
    BY <1>2, <2>1 DEF Points
  <2>2. CASE RecordPlan /\ snaps'[s].plan.image = disk
    <3>1. run.pc = "plan"
      BY <2>2, SeeRecordPlan
    <3>2. Pending = {} /\ (runner = "engine" => Claimed = Target)
      BY <3>1 DEF Progress, PastPCs, HighPCs
    <3> QED BY <2>2, <3>2, OfDisk DEF ClaimOf
  <2>3. CASE Recover /\ snaps'[s].plan.image = disk
    <3>1. run.pc = "recover"
      BY <2>3, SeeRecover
    <3>2. Pending = {} /\ runner # "engine"
      BY <3>1 DEF Progress, PastPCs, Ways
    <3> QED BY <2>3, <3>2, OfDisk
  <2> QED BY <1>2, <2>1, <2>2, <2>3, NewPlan
<1> QED BY <1>1, <1>2

-----------------------------------------------------------------------------
(* Counts and histories                                                    *)

Tallies ==
  /\ runner \in Runners /\ bad \subseteq BadMigs /\ aside \subseteq Pages
  /\ edits \in 0..MaxEdits /\ cuts \in 0..MaxCuts /\ torn \in BOOLEAN
  /\ since \in [Snaps -> SUBSET Pages] /\ fresh \in [Pages -> 0..MaxEdits]
  /\ cutoff \in [Migs -> Nat] /\ (\A m \in Migs : cutoff[m] <= cuts) /\ strays \subseteq Pages

\* An operator's restore is a rollback from its first step to its last.
SavedBack == "saved" \in run.flags
SavedOnly == SavedBack => RollingBack

LEMMA SavedOnlyStep == ASSUME Typed, SavedOnly, [Next]_vars PROVE SavedOnly'
<1>1. CASE \E flags \in Flags : Start(flags)
  <2>1. run'.flags \in Flags
    BY <1>1, SeeStart
  <2> QED BY <2>1, UpgradeAssumption DEF SavedOnly, SavedBack
<1>2. CASE Mkdir \/ Copy \/ Manifest \/ SnapshotFails \/ Load \/ Migrate \/ RecordApplied
  <2>1. run.pc \notin {"quarantine", "restore"} /\ (run'.flags = run.flags \/ run'.flags = {})
    BY <1>2, SeeMkdir, SeeCopy, SeeManifest, SeeSnapshotFails, SeeLoad, SeeMigrate, SeeRecordApplied
       DEF Moves, Stays, Rests
  <2> QED BY <2>1 DEF SavedOnly, SavedBack, RollingBack
<1>3. CASE WritePin \/ Recompose \/ Freeze \/ RecordPlan \/ Raise \/ GatePasses \/ GateFails
  <2>1. run.pc \notin {"quarantine", "restore"} /\ (run'.flags = run.flags \/ run'.flags = {})
    BY <1>3, SeeWritePin, SeeRecompose, SeeFreeze, SeeRecordPlan, SeeRaise, SeeGatePasses, SeeGateFails
       DEF Moves, Captures, Takes, Stays, Rests
  <2> QED BY <2>1 DEF SavedOnly, SavedBack, RollingBack
<1>4. CASE RecordVersion \/ Confirm \/ Prune \/ Accepted \/ Recover \/ RegatePasses \/ RegateFails
  <2>1. run.pc \notin {"quarantine", "restore"} /\ (run'.flags = run.flags \/ run'.flags = {})
    BY <1>4, SeeRecordVersion, SeeConfirm, SeePrune, SeeAccepted, SeeRecover, SeeRegatePasses, SeeRegateFails
       DEF Moves, Takes, Stays, Rests
  <2> QED BY <2>1 DEF SavedOnly, SavedBack, RollingBack
<1>5. CASE RestoreSaved \/ Quarantine \/ Restore
  BY <1>5, SeeRestoreSaved, SeeQuarantine, SeeRestore DEF SavedOnly, RollingBack
<1>6. CASE RolledBack \/ RestoreFails \/ Kill
  BY <1>6, SeeRolledBack, SeeRestoreFails, SeeKill DEF SavedOnly, SavedBack, Rests
<1>7. CASE (\E p \in Pages : Write(p)) \/ UNCHANGED vars
  BY <1>7, SeeWrite, SeeNothing DEF SavedOnly, SavedBack, RollingBack
<1> QED BY <1>1, <1>2, <1>3, <1>4, <1>5, <1>6, <1>7 DEF Next

LEMMA TalliesStep == ASSUME Typed, Tallies, [Next]_vars PROVE Tallies'
<1>0. /\ Apart /\ MaxEdits \in Nat /\ MaxCuts \in Nat
      /\ since \in [Snaps -> SUBSET Pages] /\ fresh \in [Pages -> 0..MaxEdits]
      /\ cutoff \in [Migs -> Nat] /\ strays \subseteq Pages /\ aside \subseteq Pages
      /\ edits \in 0..MaxEdits /\ cuts \in 0..MaxCuts /\ \A m \in Migs : cutoff[m] <= cuts
  BY RunnerStays, UpgradeAssumption DEF Tallies
<1>1. aside' \subseteq Pages
  <2>1. aside' = aside \/ Quarantine
    BY DEF Next, vars, Start, Mkdir, Copy, Manifest, SnapshotFails, Load, Migrate,
       RecordApplied, WritePin, Recompose, Freeze, RecordPlan, Raise, GatePasses, GateFails,
       RecordVersion, Confirm, Prune, Accepted, Recover, RegatePasses, RegateFails, RestoreSaved,
       Restore, RolledBack, RestoreFails, Write, Kill
  <2> QED BY <1>0, <2>1 DEF Quarantine
\* What the steps do that are no one else's.
<1>2. CASE \E p \in Pages : Write(p)
  <2>1. PICK p \in Pages : Write(p)
    BY <1>2
  <2>2. /\ edits' = edits + 1 /\ edits < MaxEdits /\ since' = [s \in Snaps |-> since[s] \cup {p}]
        /\ fresh' = fresh \/ fresh' = [fresh EXCEPT ![p] = edits + 1]
        /\ UNCHANGED <<cuts, torn, cutoff, strays>>
    BY <2>1, SeeWrite
  <2>3. edits' \in 0..MaxEdits
    BY <1>0, <2>2
  <2>4. since' \in [Snaps -> SUBSET Pages] /\ fresh' \in [Pages -> 0..MaxEdits]
    BY <1>0, <2>2, <2>3
  <2> QED BY <1>1, <1>0, <2>2, <2>3, <2>4 DEF Tallies, Apart
<1>3. CASE \E flags \in Flags : Start(flags)
  <2>1. fresh' = [p \in Pages |-> 0] /\ UNCHANGED <<edits, cuts, torn, since, cutoff, strays>>
    BY <1>3, SeeStart
  <2> QED BY <1>1, <1>0, <2>1 DEF Tallies, Apart
<1>4. CASE UNCHANGED <<edits, cuts, torn, fresh, cutoff, strays>> /\ since' \in {since, [since EXCEPT ![run.snap] = {}]}
  BY <1>1, <1>0, <1>4 DEF Tallies, Apart
<1>5. CASE Freeze \/ GateFails \/ Recover
  BY <1>4, <1>5, SeeFreeze, SeeGateFails, SeeRecover DEF Captures
<1>6. CASE UNCHANGED <<edits, since, fresh, strays>> /\ cuts' = cuts + 1 /\ cuts < MaxCuts
           /\ torn' \in BOOLEAN /\ (cutoff' = cutoff \/ CutOff)
  <2>1. cuts' \in 0..MaxCuts /\ cuts \in Nat /\ cuts' = cuts + 1
    BY <1>0, <1>6
  <2>2. run.pc = "apply" => run.k \in Migs
    BY DEF Typed, IsRun
  <2>3. cutoff' \in [Migs -> Nat] /\ \A m \in Migs : cutoff'[m] <= cuts'
    <3>1. CASE cutoff' = cutoff
      BY <1>0, <2>1, <3>1
    <3>2. CASE run.k \in Migs /\ cutoff' = [cutoff EXCEPT ![run.k] = @ + 1]
      BY <1>0, <2>1, <3>2
    <3> QED BY <1>6, <2>2, <3>1, <3>2 DEF CutOff, At
  <2> QED BY <1>1, <1>0, <1>6, <2>1, <2>3 DEF Tallies, Apart
<1>7. CASE Raise
  <2>1. CASE cuts < MaxCuts /\ cuts' = cuts + 1 /\ CutOff /\ UNCHANGED since
    BY <1>6, <1>7, <2>1, SeeRaise DEF Tallies
  <2>2. CASE UNCHANGED <<cuts, cutoff>> /\ Captures("quarantine")
    BY <1>4, <1>7, <2>2, SeeRaise DEF Captures
  <2> QED BY <1>7, <2>1, <2>2, SeeRaise
<1>8. CASE Kill
  BY <1>6, <1>8, SeeKill DEF Tallies
<1>9. CASE RestoreFails
  <2>1. torn' = TRUE /\ UNCHANGED <<edits, since, fresh, cutoff, strays>> /\ cuts' = cuts + 1 /\ cuts < MaxCuts
    BY <1>9, SeeRestoreFails DEF RestoreFails
  <2> QED BY <1>6, <2>1
<1>10. CASE RestoreSaved
  <2>1. strays' \subseteq Pages /\ UNCHANGED <<edits, cuts, torn, since, fresh, cutoff>>
    BY <1>0, <1>10, SeeRestoreSaved
  <2> QED BY <1>1, <1>0, <2>1 DEF Tallies, Apart
<1>11. CASE Quiet
  BY <1>4, <1>11 DEF Quiet
<1> QED BY <1>2, <1>3, <1>5, <1>7, <1>8, <1>9, <1>10, <1>11, SeeMkdir, SeeCopy, SeeManifest, SeeSnapshotFails,
    SeeLoad, SeeMigrate, SeeRecordApplied, SeeWritePin, SeeRecompose, SeeRecordPlan, SeeGatePasses,
    SeeRecordVersion, SeeConfirm, SeePrune, SeeAccepted, SeeRegatePasses, SeeRegateFails, SeeQuarantine,
    SeeRestore, SeeRolledBack, SeeNothing DEF Next

-----------------------------------------------------------------------------
(* A rollback brings everything back                                       *)

\* x is y, but for what others wrote to the files S since.
Same(S, f, x, y) == x = y \/ (f \in S /\ x # None /\ OnlyEdited(x, y))

\* What a plan does not name is as in the snapshot, or gone.
PlanIs(s) == \A f \in Files : \/ f \in snaps[s].plan.added \cup snaps[s].plan.modified
                              \/ snaps[s].plan.image[f] = None
                              \/ Same(since[s], f, snaps[s].plan.image[f], snaps[s].tree[f])
Plotted == \A s \in Snaps : snaps[s] # None /\ snaps[s].plan # None =>
             PlanIs(s) \/ (RollingBack /\ s = run.snap /\ ~SavedBack)

\* The same of the delta an invocation has captured.
Captive == run.snap # 0 /\ (run.pc = "plan" \/ (runner = "engine" /\ run.pc = "gate")) =>
  \A f \in Files : \/ f \in run.added \cup run.modified \/ disk[f] = None
                   \/ Same(since[run.snap], f, disk[f], snaps[run.snap].tree[f])

\* Each file is back, on its way back, or not the operator's business.
Back(f) == LET s == run.snap  t == snaps[s].tree IN
  \/ Same(since[s], f, disk[f], t[f])
  \/ f \in run.added
  \/ t[f] # None /\ (f \in run.modified \/ disk[f] = None) /\ (run.pc = "restore" => f \in run.todo)
  \/ SavedBack /\ f \notin snaps[s].plan.added \cup snaps[s].plan.modified
     /\ Same(since[s], f, snaps[s].plan.image[f], t[f])
Returning == RollingBack =>
  /\ \A f \in Files : Back(f)
  /\ \A f \in run.added : snaps[run.snap].tree[f] = None
  /\ run.pc = "restore" => run.added = {}
  /\ SavedBack => snaps[run.snap].plan # None

\* The vault is as the recorded plan has it.
Exact(s) == \A f \in Files : Same(since[s], f, disk[f], snaps[s].plan.image[f])
Settled ==
  /\ run.pc \in {"recover", "regate"} /\ run.snap # 0 /\ snaps[run.snap].plan # None => Exact(run.snap)
  /\ runner = "pack" /\ run.pc \in {"recompose", "gate", "version"} /\ run.snap # 0 =>
       snaps[run.snap].plan # None /\ Exact(run.snap)
  /\ runner = "pack" /\ ~RollingBack /\ Pending = {} /\ Claimed # Target =>
       \A s \in NewestOpen : snaps[s].plan = None \/ Exact(s)

Sinces == since \in [Snaps -> SUBSET Pages]

\* Same is transitive, and stays when others write.
LEMMA SameSame ==
  ASSUME NEW S, NEW f, NEW x, NEW y, NEW z, Same(S, f, x, y), Same(S, f, y, z)
  PROVE  Same(S, f, x, z)
BY DEF Same, OnlyEdited

LEMMA SameNone ==
  ASSUME NEW S, NEW f, NEW x, NEW z, Same(S, f, x, None), x # None
  PROVE  Same(S, f, x, z)
BY DEF Same, OnlyEdited

LEMMA SameWrite ==
  ASSUME Typed, Sinces, NEW p \in Pages, Write(p), NEW s \in Snaps
  PROVE  /\ \A f, x, y : Same(since[s], f, x, y) => Same(since'[s], f, x, y)
         /\ \A f \in Files : \A y : Same(since[s], f, disk[f], y) => Same(since'[s], f, disk'[f], y)
         /\ \A f \in Files : \A y : disk[f] = None /\ disk'[f] # None => Same(since'[s], f, disk'[f], y)
<1>1. since'[s] = since[s] \cup {p} /\ \A f \in Files \ {p} : disk'[f] = disk[f]
  BY SeeWrite DEF Sinces
<1>2. disk'[p] # None /\ disk'[p].did = IF disk[p] = None THEN Untouched.did ELSE disk[p].did
  BY SeeWrite
<1>3. ASSUME NEW f, NEW x, NEW y, Same(since[s], f, x, y) PROVE Same(since'[s], f, x, y)
  BY <1>1, <1>3 DEF Same
<1>4. ASSUME NEW f \in Files, NEW y, Same(since[s], f, disk[f], y) PROVE Same(since'[s], f, disk'[f], y)
  <2>1. CASE f # p
    BY <1>1, <1>4, <2>1 DEF Same
  <2>2. CASE f = p
    BY <1>1, <1>2, <1>4, <2>2 DEF Same, OnlyEdited
  <2> QED BY <2>1, <2>2
<1>5. ASSUME NEW f \in Files, NEW y, disk[f] = None, disk'[f] # None PROVE Same(since'[s], f, disk'[f], y)
  <2>1. f = p
    BY <1>1, <1>5
  <2> QED BY <1>1, <1>2, <1>5, <2>1 DEF Same, OnlyEdited
<1> QED BY <1>3, <1>4, <1>5

\* When what others wrote is counted anew, or further.
LEMMA SinceStep ==
  ASSUME Typed, Sinces, [Next]_vars
  PROVE  \/ since' = since
         \/ /\ since' = [since EXCEPT ![run.snap] = {}]
            /\ \/ (Freeze \/ Raise \/ GateFails) /\ Captures(run'.pc) /\ UNCHANGED snaps
                  /\ (Freeze \/ run'.pc = "quarantine")
               \/ Recover /\ snaps[run.snap].plan = None /\ snaps'[run.snap].plan # None
         \/ \E p \in Pages : Write(p)
<1>1. CASE Freeze
  BY <1>1, SeeFreeze DEF Captures, Takes
<1>2. CASE Raise
  BY <1>2, SeeRaise DEF Captures, Takes
<1>3. CASE GateFails
  BY <1>3, SeeGateFails DEF Captures, Takes
<1>4. CASE Recover
  BY <1>4, SeeRecover
<1>5. CASE Quiet
  BY <1>5 DEF Quiet
<1> QED BY <1>1, <1>2, <1>3, <1>4, <1>5, SeeStart, SeeMkdir, SeeCopy, SeeManifest, SeeSnapshotFails,
    SeeLoad, SeeMigrate, SeeRecordApplied, SeeWritePin, SeeRecompose, SeeRecordPlan, SeeGatePasses,
    SeeRecordVersion, SeeConfirm, SeePrune, SeeAccepted, SeeRegatePasses, SeeRegateFails, SeeQuarantine,
    SeeRestore, SeeRolledBack, SeeNothing, SeeRestoreSaved, SeeRestoreFails, SeeKill DEF Next

\* How an invocation comes to roll back ...
LEMMA RollIn ==
  ASSUME Typed, [Next]_vars, RollingBack'
  PROVE  \/ RollingBack /\ (Quarantine \/ Restore \/ (\E p \in Pages : Write(p)) \/ UNCHANGED vars)
         \/ ~RollingBack /\ (Raise \/ GateFails) /\ run.snap # 0 /\ Captures("quarantine")
         \/ ~RollingBack /\ GateFails /\ run.pc = "gate" /\ run.snap # 0 /\ runner = "engine" /\ Moves("quarantine")
         \/ ~RollingBack /\ RegateFails /\ run.snap # 0
         \/ ~RollingBack /\ RestoreSaved
<1>1. CASE (\E flags \in Flags : Start(flags)) \/ Mkdir \/ Copy \/ Manifest \/ SnapshotFails \/ Load \/ Migrate
  BY <1>1, SeeStart, SeeMkdir, SeeCopy, SeeManifest, SeeSnapshotFails, SeeLoad, SeeMigrate
     DEF RollingBack, Moves, Rests
<1>2. CASE RecordApplied \/ WritePin \/ Recompose \/ Freeze \/ RecordPlan \/ GatePasses \/ RecordVersion
  BY <1>2, SeeRecordApplied, SeeWritePin, SeeRecompose, SeeFreeze, SeeRecordPlan, SeeGatePasses, SeeRecordVersion
     DEF RollingBack, Moves, Captures, Takes
<1>3. CASE Confirm \/ Prune \/ Accepted \/ Recover \/ RegatePasses
  BY <1>3, SeeConfirm, SeePrune, SeeAccepted, SeeRecover, SeeRegatePasses DEF RollingBack, Moves, Rests
<1>4. CASE Raise
  BY <1>4, SeeRaise DEF RollingBack, Rests
<1>5. CASE GateFails
  BY <1>5, SeeGateFails DEF RollingBack, Rests
<1>6. CASE RegateFails
  BY <1>6, SeeRegateFails DEF RollingBack, Rests
<1>7. CASE RestoreSaved
  BY <1>7, SeeRestoreSaved DEF RollingBack
<1>8. CASE RolledBack \/ RestoreFails \/ Kill
  BY <1>8, SeeRolledBack, SeeRestoreFails, SeeKill DEF RollingBack, Rests
<1>9. CASE Quarantine \/ Restore
  BY <1>9, SeeQuarantine, SeeRestore DEF RollingBack
<1>10. CASE (\E p \in Pages : Write(p)) \/ UNCHANGED vars
  BY <1>10, SeeWrite, SeeNothing DEF RollingBack
<1> QED BY <1>1, <1>2, <1>3, <1>4, <1>5, <1>6, <1>7, <1>8, <1>9, <1>10 DEF Next

\* ... and what can happen then.
LEMMA RollOn ==
  ASSUME Typed, [Next]_vars, RollingBack, ~torn'
  PROVE  \/ RollingBack' /\ run'.snap = run.snap /\ run'.flags = run.flags
         \/ RolledBack
<1>1. CASE (\E flags \in Flags : Start(flags)) \/ Mkdir \/ Copy \/ Manifest \/ SnapshotFails \/ Load \/ Migrate
  BY <1>1, SeeStart, SeeMkdir, SeeCopy, SeeManifest, SeeSnapshotFails, SeeLoad, SeeMigrate DEF RollingBack
<1>2. CASE RecordApplied \/ WritePin \/ Recompose \/ Freeze \/ RecordPlan \/ GatePasses \/ RecordVersion
  BY <1>2, SeeRecordApplied, SeeWritePin, SeeRecompose, SeeFreeze, SeeRecordPlan, SeeGatePasses, SeeRecordVersion
     DEF RollingBack
<1>3. CASE Confirm \/ Prune \/ Accepted \/ Recover \/ RegatePasses \/ Raise \/ GateFails
  BY <1>3, SeeConfirm, SeePrune, SeeAccepted, SeeRecover, SeeRegatePasses, SeeRaise, SeeGateFails DEF RollingBack
<1>4. CASE RegateFails \/ RestoreSaved
  BY <1>4, SeeRegateFails, SeeRestoreSaved DEF RollingBack
<1>5. CASE RestoreFails \/ Kill
  BY <1>5, SeeRestoreFails, SeeKill DEF RollingBack
<1>6. CASE Quarantine \/ Restore
  BY <1>6, SeeQuarantine, SeeRestore DEF RollingBack, Stays
<1>7. CASE (\E p \in Pages : Write(p)) \/ UNCHANGED vars
  BY <1>7, SeeWrite, SeeNothing DEF RollingBack
<1> QED BY <1>1, <1>2, <1>3, <1>4, <1>5, <1>6, <1>7 DEF Next

LEMMA PlottedStep ==
  ASSUME Typed, Own, Sinces, SavedOnly, Plotted, Captive, ~torn', [Next]_vars
  PROVE  Plotted'
<1> SUFFICES ASSUME NEW s \in Snaps, snaps'[s] # None, snaps'[s].plan # None,
                    ~(RollingBack' /\ s = run'.snap /\ ~SavedBack')
             PROVE  PlanIs(s)'
  BY DEF Plotted
<1>0. /\ snaps[s] # None /\ snaps'[s].tree = snaps[s].tree /\ 0 \notin Snaps
  BY TreeStays, UpgradeAssumption DEF Snaps
<1>1. CASE snaps'[s].plan = snaps[s].plan
  <2>1. PlanIs(s)
    <3> SUFFICES ASSUME RollingBack, s = run.snap, ~SavedBack PROVE FALSE
      BY <1>0, <1>1 DEF Plotted
    <3>1. ~RolledBack
      BY SeeRolledBack DEF SavedBack
    <3> QED BY <3>1, RollOn DEF SavedBack
  <2>2. CASE since'[s] = since[s]
    BY <1>0, <1>1, <2>1, <2>2 DEF PlanIs
  <2>3. CASE \E p \in Pages : Write(p)
    <3>1. \A f, x, y : Same(since[s], f, x, y) => Same(since'[s], f, x, y)
      BY <2>3, SameWrite
    <3> QED BY <1>0, <1>1, <2>1, <3>1 DEF PlanIs
  <2>4. CASE s = run.snap /\ Freeze
    <3>1. run.pc = "freeze"
      BY <2>4, SeeFreeze
    <3> QED BY <1>0, <1>1, <2>4, <3>1 DEF Own, NewPCs
  <2>5. CASE s = run.snap /\ run'.pc = "quarantine" /\ Captures(run'.pc) /\ (Raise \/ GateFails)
    <3>1. run'.snap = run.snap /\ run'.flags = run.flags /\ RollingBack'
      BY <2>5 DEF Captures, Takes, Stays, RollingBack
    <3>2. ~RollingBack
      BY <2>5, SeeRaise, SeeGateFails DEF RollingBack
    <3> QED BY <2>5, <3>1, <3>2 DEF SavedBack, SavedOnly
  <2>6. CASE s # run.snap /\ since' = [since EXCEPT ![run.snap] = {}]
    BY <2>2, <2>6 DEF Sinces
  <2> QED BY <1>1, <2>2, <2>3, <2>4, <2>5, <2>6, SinceStep
<1>2. CASE /\ snaps'[s].plan.added = run.added /\ snaps'[s].plan.modified = run.modified
           /\ snaps'[s].plan.image = disk /\ RecordPlan /\ s = run.snap
  <2>1. run.pc = "plan" /\ since' = since /\ run.snap # 0
    BY <1>0, <1>2, SeeRecordPlan DEF Quiet
  <2> QED BY <1>0, <1>2, <2>1 DEF Captive, PlanIs
<1>3. CASE /\ snaps'[s].plan.added = Added(s) /\ snaps'[s].plan.modified = Changed(s)
           /\ snaps'[s].plan.image = disk
  BY <1>0, <1>3 DEF PlanIs, Added, Changed, Same
<1> QED BY <1>1, <1>2, <1>3, NewPlan

LEMMA CaptiveStep ==
  ASSUME Typed, Own, Ways, Sinces, Captive, [Next]_vars
  PROVE  Captive'
<1> SUFFICES ASSUME run'.snap # 0, run'.pc = "plan" \/ (runner' = "engine" /\ run'.pc = "gate"),
                    NEW f \in Files, f \notin run'.added \cup run'.modified, disk'[f] # None
             PROVE  Same(since'[run'.snap], f, disk'[f], snaps'[run'.snap].tree[f])
  BY DEF Captive
<1>0. runner' = runner /\ 0 \notin Snaps /\ run.snap \in Snaps \cup {0}
  BY RunnerStays, UpgradeAssumption DEF Apart, Snaps, Typed, IsRun
<1>1. CASE Freeze
  <2>1. /\ run'.snap = run.snap /\ run'.added = Added(run.snap) /\ run'.modified = Changed(run.snap)
        /\ UNCHANGED <<disk, snaps>>
    BY <1>1, SeeFreeze DEF Captures, Takes, Stays, Vault
  <2> QED BY <2>1 DEF Added, Changed, Same
<1>2. CASE RecordPlan
  <2>1. /\ run.pc = "plan" /\ run'.snap = run.snap /\ run'.added = run.added /\ run'.modified = run.modified
        /\ disk' = disk /\ since' = since
    BY <1>2, SeeRecordPlan DEF Moves, Stays, Vault, Quiet
  <2>2. snaps'[run.snap].tree = snaps[run.snap].tree
    BY <1>0, <1>2, <2>1, SeeRecordPlan
  <2> QED BY <2>1, <2>2 DEF Captive
<1>3. CASE \E p \in Pages : Write(p)
  <2>1. UNCHANGED <<snaps, run>>
    BY <1>3, SeeWrite
  <2>2. disk[f] = None \/ Same(since[run.snap], f, disk[f], snaps[run.snap].tree[f])
    BY <1>0, <2>1 DEF Captive
  <2>3. run.snap \in Snaps
    BY <1>0, <2>1
  <2> QED BY <1>3, <2>1, <2>2, <2>3, SameWrite
<1>4. CASE UNCHANGED vars
  BY <1>0, <1>4, SeeNothing DEF Captive, Vault, Quiet
<1>5. CASE (\E flags \in Flags : Start(flags)) \/ Mkdir \/ Copy \/ Manifest \/ SnapshotFails \/ Load \/ Migrate
  BY <1>5, SeeStart, SeeMkdir, SeeCopy, SeeManifest, SeeSnapshotFails, SeeLoad, SeeMigrate
     DEF Moves, Rests
<1>6. CASE RecordApplied \/ WritePin \/ GatePasses \/ RecordVersion \/ Confirm \/ Prune \/ Accepted \/ Recover
  BY <1>6, SeeRecordApplied, SeeWritePin, SeeGatePasses, SeeRecordVersion, SeeConfirm, SeePrune, SeeAccepted,
     SeeRecover DEF Moves, Rests
<1>7. CASE Recompose
  BY <1>0, <1>7, SeeRecompose DEF Moves, Stays
<1>8. CASE Raise \/ GateFails \/ RegatePasses \/ RegateFails \/ RestoreSaved
  BY <1>8, SeeRaise, SeeGateFails, SeeRegatePasses, SeeRegateFails, SeeRestoreSaved DEF Moves, Captures, Takes, Rests
<1>9. CASE Quarantine \/ Restore \/ RolledBack \/ RestoreFails \/ Kill
  BY <1>9, SeeQuarantine, SeeRestore, SeeRolledBack, SeeRestoreFails, SeeKill DEF Rests
<1> QED BY <1>1, <1>2, <1>3, <1>4, <1>5, <1>6, <1>7, <1>8, <1>9 DEF Next

\* A rollback begins with a delta that covers what is not as in the snapshot.
LEMMA BackFrom ==
  ASSUME Typed, Own, Sinces, SavedOnly, Deltas, Delta, Plotted, Captive, Settled, [Next]_vars,
         ~RollingBack, RollingBack'
  PROVE  Returning'
<1>0. /\ run.snap \in Snaps \cup {0} /\ 0 \notin Snaps /\ ~SavedBack
      /\ runner' = runner
  BY RunnerStays, UpgradeAssumption DEF Typed, IsRun, Snaps, SavedOnly, Apart
<1>1. CASE (Raise \/ GateFails) /\ run.snap # 0 /\ Captures("quarantine")
  <2>1. /\ run'.pc = "quarantine" /\ run'.snap = run.snap /\ run'.flags = run.flags
        /\ run'.added = Added(run.snap) /\ run'.modified = Changed(run.snap)
        /\ UNCHANGED <<disk, snaps>>
    BY <1>1, SeeRaise, SeeGateFails DEF Captures, Takes, Stays, Vault
  <2>2. ~SavedBack'
    BY <1>0, <2>1 DEF SavedBack
  <2> QED BY <2>1, <2>2 DEF Returning, Back, Added, Changed, Same
<1>2. CASE GateFails /\ run.pc = "gate" /\ run.snap # 0 /\ runner = "engine" /\ Moves("quarantine")
  <2>1. /\ run'.pc = "quarantine" /\ run'.snap = run.snap /\ run'.flags = run.flags
        /\ run'.added = run.added /\ run'.modified = run.modified
        /\ UNCHANGED <<disk, snaps>>
    BY <1>2, SeeGateFails DEF Moves, Stays, Vault
  <2>2. since' = since
    BY <1>2, SeeGateFails
  <2>3. DeltaOf(snaps[run.snap].tree, disk, run.added, run.modified)
    <3>1. InUse /\ Due = run.modified
      BY <1>2 DEF InUse, Due
    <3> QED BY <3>1 DEF Delta
  <2>4. \A f \in Files : \/ f \in run.added \cup run.modified \/ disk[f] = None
                         \/ Same(since[run.snap], f, disk[f], snaps[run.snap].tree[f])
    BY <1>2 DEF Captive
  <2>5. ASSUME NEW f \in Files PROVE Back(f)'
    <3>1. CASE disk[f] = None /\ snaps[run.snap].tree[f] = None
      BY <2>1, <3>1 DEF Back, Same
    <3>2. CASE disk[f] = None /\ snaps[run.snap].tree[f] # None
      BY <2>1, <3>2 DEF Back
    <3>3. CASE f \in run.added \cup run.modified
      BY <2>1, <2>3, <3>3 DEF Back, DeltaOf
    <3>4. CASE Same(since[run.snap], f, disk[f], snaps[run.snap].tree[f])
      BY <2>1, <2>2, <3>4 DEF Back
    <3> QED BY <2>4, <3>1, <3>2, <3>3, <3>4
  <2>6. ~SavedBack'
    BY <1>0, <2>1 DEF SavedBack
  <2> QED BY <2>1, <2>3, <2>5, <2>6 DEF Returning, DeltaOf
<1>3. CASE RegateFails /\ run.snap # 0
  <2> DEFINE d == snaps[run.snap].plan
             t == snaps[run.snap].tree
             S == since[run.snap]
  <2>1. /\ run.pc = "regate" /\ Takes("quarantine", d.added, d.modified) /\ UNCHANGED <<disk, snaps, since>>
    BY <1>3, SeeRegateFails DEF Vault, Quiet
  <2>2. /\ run'.pc = "quarantine" /\ run'.snap = run.snap /\ run'.flags = run.flags
        /\ run'.added = d.added /\ run'.modified = d.modified
    BY <2>1 DEF Takes, Stays
  <2>3. run.snap \in Snaps /\ snaps[run.snap] # None /\ d # None
    BY <1>0, <1>3, <2>1 DEF Typed, HasSnap
  <2>4. DeltaOf(t, d.image, d.added, d.modified)
    BY <2>3 DEF Deltas
  <2>5. \A f \in Files : f \in d.added \cup d.modified \/ d.image[f] = None \/ Same(S, f, d.image[f], t[f])
    BY <1>0, <2>3 DEF Plotted, PlanIs
  <2>6. \A f \in Files : Same(S, f, disk[f], d.image[f])
    BY <1>3, <2>1, <2>3 DEF Settled, Exact
  <2>7. ASSUME NEW f \in Files PROVE Back(f)'
    <3>1. CASE f \in d.added \cup d.modified
      BY <2>2, <2>1, <2>4, <3>1 DEF Back, DeltaOf
    <3>2. CASE disk[f] = None
      BY <2>2, <2>1, <3>2 DEF Back, Same
    <3>3. CASE disk[f] # None /\ d.image[f] = None
      <4>1. Same(S, f, disk[f], None)
        BY <2>6, <3>3
      <4>2. Same(S, f, disk[f], t[f])
        BY <3>3, <4>1, SameNone
      <4> QED BY <2>1, <2>2, <4>2 DEF Back
    <3>4. CASE Same(S, f, d.image[f], t[f])
      <4>1. Same(S, f, disk[f], d.image[f])
        BY <2>6
      <4>2. Same(S, f, disk[f], t[f])
        BY <3>4, <4>1, SameSame
      <4> QED BY <2>1, <2>2, <4>2 DEF Back
    <3> QED BY <2>5, <3>1, <3>2, <3>3, <3>4
  <2>8. ~SavedBack'
    BY <1>0, <2>2 DEF SavedBack
  <2> QED BY <2>1, <2>2, <2>4, <2>7, <2>8 DEF Returning, DeltaOf
<1>4. CASE RestoreSaved
  <2>1. PICK s \in Snaps :
           /\ UNCHANGED <<disk, snaps, since>> /\ snaps[s] # None /\ snaps[s].plan # None
           /\ \A f \in Files : snaps[s].tree[f] # None /\ snaps[s].plan.image[f] = None => disk[f] = None
           /\ run'.pc = "quarantine" /\ run'.flags = {"saved"} /\ run'.snap = s
           /\ run'.added = snaps[s].plan.added /\ run'.modified = snaps[s].plan.modified
    BY <1>4, SeeRestoreSaved DEF Vault
  <2> DEFINE d == snaps[s].plan
             t == snaps[s].tree
  <2>2. DeltaOf(t, d.image, d.added, d.modified)
    BY <2>1 DEF Deltas
  <2>3. \A f \in Files : f \in d.added \cup d.modified \/ d.image[f] = None \/ Same(since[s], f, d.image[f], t[f])
    BY <2>1 DEF Plotted, PlanIs
  <2>4. SavedBack'
    BY <2>1 DEF SavedBack
  <2>5. ASSUME NEW f \in Files PROVE Back(f)'
    <3>1. CASE f \in d.added \cup d.modified
      BY <2>1, <2>2, <3>1 DEF Back, DeltaOf
    <3>2. CASE disk[f] = None /\ t[f] # None
      BY <2>1, <3>2 DEF Back
    <3>3. CASE Same(since[s], f, d.image[f], t[f]) /\ f \notin d.added \cup d.modified
      BY <2>1, <2>4, <3>3 DEF Back
    <3>4. CASE d.image[f] = None /\ t[f] = None
      BY <3>3, <3>1, <3>4 DEF Same
    <3> QED BY <2>1, <2>3, <3>1, <3>2, <3>3, <3>4
  <2> QED BY <2>1, <2>2, <2>4, <2>5 DEF Returning, DeltaOf
<1> QED BY <1>1, <1>2, <1>3, <1>4, RollIn

LEMMA ReturningStep ==
  ASSUME Typed, Own, Sinces, SavedOnly, Deltas, Delta, Plotted, Captive, Settled, Returning, [Next]_vars
  PROVE  Returning'
<1> SUFFICES ASSUME RollingBack, RollingBack' PROVE Returning'
  BY BackFrom DEF Returning
<1> DEFINE t == snaps[run.snap].tree
<1>0. /\ run.snap \in Snaps /\ run.added \subseteq Files
      /\ \A f \in Files : Back(f)
      /\ \A f \in run.added : t[f] = None
      /\ run.pc = "restore" => run.added = {}
      /\ SavedBack => snaps[run.snap].plan # None
  BY DEF Returning, Typed, IsRun, Restorable, RollingBack
<1>1. CASE \E p \in Pages : Write(p)
  <2>1. UNCHANGED <<snaps, run>>
    BY <1>1, SeeWrite
  <2>2. /\ \A f, x, y : Same(since[run.snap], f, x, y) => Same(since'[run.snap], f, x, y)
        /\ \A f \in Files : \A y : Same(since[run.snap], f, disk[f], y) => Same(since'[run.snap], f, disk'[f], y)
        /\ \A f \in Files : \A y : disk[f] = None /\ disk'[f] # None => Same(since'[run.snap], f, disk'[f], y)
    BY <1>0, <1>1, SameWrite
  <2>3. ASSUME NEW f \in Files PROVE Back(f)'
    <3>1. CASE Same(since[run.snap], f, disk[f], t[f])
      BY <2>1, <2>2, <3>1 DEF Back
    <3>2. CASE f \in run.added
      BY <2>1, <3>2 DEF Back
    <3>3. CASE t[f] # None /\ (f \in run.modified \/ disk[f] = None) /\ (run.pc = "restore" => f \in run.todo)
      <4>1. CASE f \in run.modified \/ disk'[f] = None
        BY <2>1, <3>3, <4>1 DEF Back
      <4>2. CASE disk[f] = None /\ disk'[f] # None
        BY <2>1, <2>2, <4>2 DEF Back
      <4> QED BY <3>3, <4>1, <4>2
    <3>4. CASE SavedBack /\ f \notin snaps[run.snap].plan.added \cup snaps[run.snap].plan.modified
               /\ Same(since[run.snap], f, snaps[run.snap].plan.image[f], t[f])
      BY <2>1, <2>2, <3>4 DEF Back, SavedBack
    <3> QED BY <1>0, <3>1, <3>2, <3>3, <3>4 DEF Back
  <2> QED BY <1>0, <2>1, <2>3 DEF Returning, SavedBack
<1>2. CASE UNCHANGED vars
  BY <1>0, <1>2, SeeNothing DEF Returning, Back, SavedBack, Vault, Quiet
<1>3. CASE Quarantine
  <2>1. /\ UNCHANGED <<snaps, since>> /\ run.pc = "quarantine" /\ run'.snap = run.snap
        /\ run'.flags = run.flags /\ run'.modified = run.modified
    BY <1>3, SeeQuarantine DEF Quiet, Stays
  <2>2. CASE run.added = {} /\ run'.pc = "restore" /\ run'.added = {} /\ UNCHANGED disk
             /\ run'.todo = {f \in Files : t[f] # None}
    <3>1. ASSUME NEW f \in Files PROVE Back(f)'
      <4>1. Back(f)
        BY <1>0
      <4> QED BY <2>1, <2>2, <4>1 DEF Back, SavedBack
    <3> QED BY <1>0, <2>1, <2>2, <3>1 DEF Returning, SavedBack
  <2>3. CASE \E f \in run.added :
                 /\ f \in Files /\ run'.pc = "quarantine" /\ run'.todo = run.todo
                 /\ run'.added = run.added \ {f}
                 /\ \A g \in Files : disk'[g] = IF g = f THEN None ELSE disk[g]
    <3>1. PICK f \in run.added :
                 /\ f \in Files /\ run'.pc = "quarantine" /\ run'.todo = run.todo
                 /\ run'.added = run.added \ {f}
                 /\ \A g \in Files : disk'[g] = IF g = f THEN None ELSE disk[g]
      BY <2>3
    <3>2. ASSUME NEW g \in Files PROVE Back(g)'
      <4>1. CASE g = f
        <5>1. disk'[g] = None /\ t[g] = None
          BY <1>0, <3>1, <4>1
        <5> QED BY <2>1, <5>1 DEF Back, Same
      <4>2. CASE g # f
        <5>1. Back(g) /\ disk'[g] = disk[g] /\ (g \in run.added => g \in run'.added)
          BY <1>0, <3>1, <4>2
        <5> QED BY <2>1, <3>1, <5>1 DEF Back, SavedBack
      <4> QED BY <4>1, <4>2
    <3> QED BY <1>0, <2>1, <3>1, <3>2 DEF Returning, SavedBack
  <2> QED BY <1>3, <2>2, <2>3, SeeQuarantine
<1>4. CASE Restore
  <2>1. /\ UNCHANGED <<snaps, since>> /\ run.pc = "restore" /\ run'.pc = "restore" /\ run'.snap = run.snap
        /\ run'.flags = run.flags /\ run'.modified = run.modified /\ run'.added = run.added
    BY <1>4, SeeRestore DEF Quiet, Stays
  <2>2. PICK f \in run.todo :
              /\ f \in Files /\ run'.todo = run.todo \ {f}
              /\ \A g \in Files \ {f} : disk'[g] = disk[g]
              /\ \/ disk'[f] = disk[f] /\ disk[f] # None /\ f \notin run.modified
                 \/ disk'[f] = t[f] /\ (disk[f] = None \/ f \in run.modified)
    BY <1>4, SeeRestore
  <2>3. ASSUME NEW g \in Files PROVE Back(g)'
    <3>0. Back(g) /\ run.added = {}
      BY <1>0, <2>1
    <3>1. CASE g # f
      <4>1. disk'[g] = disk[g] /\ (g \in run.todo => g \in run'.todo)
        BY <2>2, <3>1
      <4> QED BY <2>1, <3>0, <4>1 DEF Back, SavedBack
    <3>2. CASE g = f /\ disk'[f] = t[f]
      BY <2>1, <3>2 DEF Back, Same
    <3>3. CASE g = f /\ disk'[f] = disk[f] /\ disk[f] # None /\ f \notin run.modified
      BY <2>1, <3>0, <3>3 DEF Back, SavedBack
    <3> QED BY <2>2, <3>1, <3>2, <3>3
  <2> QED BY <1>0, <2>1, <2>3 DEF Returning, SavedBack
<1> QED BY <1>1, <1>2, <1>3, <1>4, RollIn

\* When it is through, what is not back is others' work or the operator's.
LEMMA Through ==
  ASSUME Typed, Returning, run.pc = "restore", run.todo = {}, NEW f \in Files, f \notin since[run.snap]
  PROVE  \/ disk[f] = snaps[run.snap].tree[f]
         \/ SavedBack /\ snaps[run.snap].plan.image[f] = snaps[run.snap].tree[f]
<1>1. Back(f) /\ run.added = {}
  BY DEF Returning, RollingBack
<1> QED BY <1>1 DEF Back, Same

\* A step that leaves a vault that is through alone, or is of others.
LEMMA ExactStays ==
  ASSUME Typed, Sinces, NEW s \in Snaps, Exact(s), snaps'[s].plan = snaps[s].plan,
         \/ UNCHANGED disk /\ since'[s] = since[s]
         \/ \E p \in Pages : Write(p)
  PROVE  Exact(s)'
<1>1. CASE UNCHANGED disk /\ since'[s] = since[s]
  BY <1>1 DEF Exact
<1>2. CASE \E p \in Pages : Write(p)
  BY <1>2, SameWrite DEF Exact
<1> QED BY <1>1, <1>2

\* A pack's rollback that is through leaves something pending.
LEMMA RolledBackPends ==
  ASSUME Typed, Ways, Sinces, Points, Returning, RolledBack, runner = "pack"
  PROVE  Pending # {}
<1>1. run.pc = "restore" /\ run.todo = {} /\ run.snap \in Snaps /\ snaps[run.snap] # None
  BY SeeRolledBack, UpgradeAssumption DEF Typed, Restorable, HasSnap, IsRun, Snaps
<1>2. "state" \in Files /\ "state" \notin since[run.snap]
  BY <1>1, FilesAre, UpgradeAssumption DEF Sinces
<1> DEFINE t == snaps[run.snap].tree
           i == snaps[run.snap].plan.image
<1>3. PendingOf(t) # {} /\ (snaps[run.snap].plan # None => PendingOf(i) = {})
  BY <1>1 DEF Points
<1>4. ASSUME NEW u, NEW v, u["state"] = v["state"] PROVE PendingOf(u) = PendingOf(v)
  BY <1>4 DEF PendingOf, ClaimOf, StateOf
<1>5. SavedBack => snaps[run.snap].plan # None
  BY <1>1 DEF Returning, RollingBack
<1> HIDE DEF t, i
<1>6. disk["state"] = t["state"]
  <2>1. disk["state"] = t["state"] \/ (SavedBack /\ i["state"] = t["state"])
    BY <1>1, <1>2, Through DEF t, i
  <2>2. ASSUME SavedBack PROVE i["state"] # t["state"]
    BY <1>3, <1>4, <1>5, <2>2
  <2> QED BY <2>1, <2>2
<1> QED BY <1>3, <1>4, <1>6, OfDisk

\* The newest complete snapshot of a run that applies migrations is its own.
LEMMA NewestIsOwn ==
  ASSUME Typed, Numbered, Own, run.pc \in {"load", "apply", "freeze", "plan"}, run.snap # 0, NEW s \in NewestOpen
  PROVE  s = run.snap
<1>1. run.snap \in Snaps /\ snaps[run.snap] # None /\ snaps[run.snap].whole /\ ~snaps[run.snap].good /\ run.snap = runs
  BY DEF Typed, IsRun, HasSnap, Own, NewPCs, WorkPCs
<1>2. run.snap \in Open /\ s \in Snaps /\ snaps[s] # None
  BY <1>1 DEF Open, NewestOpen
<1>3. run.snap <= s /\ s <= run.snap
  BY <1>1, <1>2 DEF NewestOpen, Numbered
<1> QED BY <1>1, <1>2, <1>3, UpgradeAssumption DEF Snaps

LEMMA SettledStep ==
  ASSUME Typed, Numbered, Own, Ways, Sinces, SavedOnly, Progress, Points, Returning, Settled, ~torn', [Next]_vars
  PROVE  Settled'
<1>0. /\ runner' = runner /\ runner \in {"engine", "pack"} /\ run.snap \in Snaps \cup {0} /\ 0 \notin Snaps
      /\ run.pc # "accepted" /\ run.snap # 0 => snaps[run.snap] # None
  BY RunnerStays, UpgradeAssumption DEF Apart, Ways, Snaps, Typed, IsRun, HasSnap
<1>1. ASSUME run'.pc \in {"recover", "regate"}, run'.snap # 0, snaps'[run'.snap].plan # None
      PROVE  Exact(run.snap)'
  <2>1. CASE \E flags \in Flags : Start(flags)
    <3>1. /\ run'.snap = Unfinished /\ runner = "pack" /\ Pending = {} /\ Claimed # Target /\ run.pc = "idle"
          /\ UNCHANGED <<disk, snaps, since>>
      BY <1>1, <2>1, SeeStart DEF Vault
    <3>2. Unfinished \in NewestOpen /\ Unfinished \in Snaps
      BY <1>1, <3>1, UnfinishedIs
    <3>3. Exact(Unfinished)
      BY <1>1, <3>1, <3>2 DEF Settled, RollingBack
    <3> QED BY <3>1, <3>3 DEF Exact
  <2>2. CASE Recover
    <3>1. run.pc = "recover" /\ run'.snap = run.snap /\ UNCHANGED disk /\ run.snap \in Snaps
      BY <1>0, <1>1, <2>2, SeeRecover DEF Moves, Stays, Vault
    <3>2. CASE UNCHANGED <<snaps, since>>
      BY <1>1, <3>1, <3>2 DEF Settled, Exact
    <3>3. CASE snaps'[run.snap].plan = [added |-> Added(run.snap), modified |-> Changed(run.snap), image |-> disk]
      BY <3>1, <3>3 DEF Exact, Same
    <3> QED BY <2>2, <3>2, <3>3, SeeRecover
  <2>3. CASE (\E p \in Pages : Write(p)) \/ UNCHANGED vars
    <3>1. UNCHANGED <<snaps, run>>
      BY <2>3, SeeWrite, SeeNothing
    <3>2. Exact(run.snap) /\ run.snap \in Snaps
      BY <1>0, <1>1, <3>1 DEF Settled
    <3>3. Exact(run.snap)'
      BY <2>3, <3>1, <3>2, ExactStays, SeeNothing DEF Vault, Quiet, Exact
    <3> QED BY <3>1, <3>3
  <2>4. CASE Mkdir \/ Copy \/ Manifest \/ SnapshotFails \/ Load \/ Migrate \/ RecordApplied \/ WritePin
    BY <1>1, <2>4, SeeMkdir, SeeCopy, SeeManifest, SeeSnapshotFails, SeeLoad, SeeMigrate, SeeRecordApplied,
       SeeWritePin DEF Moves, Rests
  <2>5. CASE Recompose \/ Freeze \/ RecordPlan \/ Raise \/ GatePasses \/ GateFails \/ RecordVersion
    BY <1>1, <2>5, SeeRecompose, SeeFreeze, SeeRecordPlan, SeeRaise, SeeGatePasses, SeeGateFails, SeeRecordVersion
       DEF Moves, Rests, Captures, Takes
  <2>6. CASE Confirm \/ Prune \/ Accepted \/ RegatePasses \/ RegateFails \/ RestoreSaved
    BY <1>1, <2>6, SeeConfirm, SeePrune, SeeAccepted, SeeRegatePasses, SeeRegateFails, SeeRestoreSaved
       DEF Moves, Rests, Takes
  <2>7. CASE Quarantine \/ Restore \/ RolledBack \/ RestoreFails \/ Kill
    BY <1>1, <2>7, SeeQuarantine, SeeRestore, SeeRolledBack, SeeRestoreFails, SeeKill DEF Rests
  <2> QED BY <2>1, <2>2, <2>3, <2>4, <2>5, <2>6, <2>7 DEF Next
<1>2. ASSUME runner' = "pack", run'.pc \in {"recompose", "gate", "version"}, run'.snap # 0
      PROVE  snaps'[run'.snap].plan # None /\ Exact(run.snap)'
  <2>1. CASE RecordPlan
    <3>1. run'.snap = run.snap /\ UNCHANGED disk /\ run.snap \in Snaps
      BY <1>0, <1>2, <2>1, SeeRecordPlan DEF Moves, Stays, Vault
    <3>2. snaps'[run.snap].plan # None /\ snaps'[run.snap].plan.image = disk
      BY <2>1, <3>1, SeeRecordPlan
    <3> QED BY <3>1, <3>2 DEF Exact, Same
  <2>2. CASE Recover
    <3>1. run'.snap = run.snap /\ run.snap # 0 /\ run'.pc = "regate"
      BY <1>0, <1>2, <2>2, SeeRecover DEF Moves, Stays
    <3> QED BY <1>2, <3>1
  <2>3. CASE (\E p \in Pages : Write(p)) \/ UNCHANGED vars
    <3>1. UNCHANGED <<snaps, run>>
      BY <2>3, SeeWrite, SeeNothing
    <3>2. Exact(run.snap) /\ run.snap \in Snaps /\ snaps[run.snap].plan # None
      BY <1>0, <1>2, <3>1 DEF Settled
    <3>3. Exact(run.snap)'
      BY <2>3, <3>1, <3>2, ExactStays, SeeNothing DEF Vault, Quiet, Exact
    <3> QED BY <3>1, <3>2, <3>3
  <2>4. CASE Recompose \/ GatePasses \/ RegatePasses
    <3>1. /\ UNCHANGED <<snaps, disk, since>> /\ run'.snap = run.snap
          /\ run.pc \in {"recompose", "gate", "regate"}
      BY <2>4, SeeRecompose, SeeGatePasses, SeeRegatePasses DEF Vault, Quiet, Moves, Stays
    <3>2. snaps[run.snap].plan # None
      BY <1>0, <1>2, <3>1 DEF Settled, Typed, HasSnap
    <3>3. Exact(run.snap)
      BY <1>0, <1>2, <3>1, <3>2 DEF Settled
    <3> QED BY <3>1, <3>2, <3>3 DEF Exact
  <2>5. CASE (\E flags \in Flags : Start(flags)) \/ Mkdir \/ Copy \/ Manifest \/ SnapshotFails \/ Load \/ Migrate \/ RecordApplied
    BY <1>0, <1>2, <2>5, SeeStart, SeeMkdir, SeeCopy, SeeManifest, SeeSnapshotFails, SeeLoad, SeeMigrate,
       SeeRecordApplied DEF Moves, Rests
  <2>6. CASE WritePin
    BY <1>0, <1>2, <2>6, SeeWritePin DEF Ways
  <2>7. CASE Freeze \/ Raise \/ GateFails \/ RecordVersion \/ Confirm \/ Prune \/ Accepted \/ RegateFails \/ RestoreSaved
    BY <1>2, <2>7, SeeFreeze, SeeRaise, SeeGateFails, SeeRecordVersion, SeeConfirm, SeePrune, SeeAccepted,
       SeeRegateFails, SeeRestoreSaved DEF Moves, Rests, Takes, Captures
  <2>8. CASE Quarantine \/ Restore \/ RolledBack \/ RestoreFails \/ Kill
    BY <1>2, <2>8, SeeQuarantine, SeeRestore, SeeRolledBack, SeeRestoreFails, SeeKill DEF Rests
  <2> QED BY <2>1, <2>2, <2>3, <2>4, <2>5, <2>6, <2>7, <2>8 DEF Next
\* What an interrupted run left, and nobody but the others touched since.
<1>3. ASSUME runner' = "pack", ~RollingBack', Pending' = {}, Claimed' # Target, NEW s \in NewestOpen',
             snaps'[s].plan # None
      PROVE  Exact(s)'
  <2>0. s \in Snaps /\ snaps'[s] # None /\ snaps'[s].whole /\ ~snaps'[s].good
    BY <1>3 DEF NewestOpen, Open
  <2>1. ~RollingBack
    <3> SUFFICES ASSUME RollingBack PROVE FALSE
      OBVIOUS
    <3>1. RolledBack
      BY <1>3, RollOn
    <3>2. Pending' = Pending /\ Pending # {}
      <4>1. ~Claiming
        <5>1. run.pc = "restore" /\ run'.pc = "idle"
          BY <3>1, SeeRolledBack DEF Rests
        <5> QED BY <5>1, SeeRecordApplied, SeeWritePin, SeeRecordVersion, SeeQuarantine, SeeRestore
            DEF Claiming
      <4> QED BY <1>0, <1>3, <3>1, <4>1, ClaimStays, RolledBackPends
    <3> QED BY <1>3, <3>2
  <2>2. ~Quarantine /\ ~Restore
    BY <2>1, SeeQuarantine, SeeRestore DEF RollingBack
  <2>3. ~WritePin
    BY <1>0, <1>3, SeeWritePin DEF Ways
  <2>4. ~RecordVersion
    <3> SUFFICES ASSUME RecordVersion PROVE FALSE
      OBVIOUS
    <3>1. disk'["state"] # None /\ disk'["state"].version = Target
      BY SeeRecordVersion
    <3> QED BY <1>0, <1>3, <3>1 DEF Claimed, State
  <2>5. ~RecordApplied
    <3> SUFFICES ASSUME RecordApplied PROVE FALSE
      OBVIOUS
    <3>1. run.pc = "apply" /\ UNCHANGED snaps /\ run.snap # 0
      BY <1>0, <1>3, SeeRecordApplied DEF Ways
    <3>2. s \in NewestOpen
      BY <1>3, <3>1 DEF NewestOpen, Open
    <3>3. s = run.snap
      BY <3>1, <3>2, NewestIsOwn
    <3> QED BY <1>3, <3>1, <3>3 DEF Own, NewPCs
  <2>6. Claimed' = Claimed /\ Pending' = Pending
    BY <2>2, <2>3, <2>4, <2>5, ClaimStays DEF Claiming
  <2>7. run.pc \notin {"mkdir", "copy", "apply", "confirm", "prune"}
    <3>1. run.pc \in {"mkdir", "copy"} => run.k = 0 /\ Pending = Left /\ run.plan # {}
      BY <1>0, <1>3 DEF Progress, Ways
    <3>2. run.k = 0 => Left = run.plan
      BY DEF Left, Typed, IsRun, Migs
    <3>3. run.pc = "apply" => Pending # {}
      BY DEF Progress
    <3>4. run.pc \in {"confirm", "prune"} => Claimed = Target
      BY DEF Progress, HighPCs
    <3> QED BY <1>3, <2>6, <3>1, <3>2, <3>3, <3>4
  <2>8. ~Mkdir /\ ~Copy /\ ~Manifest /\ ~SnapshotFails /\ ~Migrate /\ ~Confirm /\ ~Prune
    BY <2>7, SeeMkdir, SeeCopy, SeeManifest, SeeSnapshotFails, SeeMigrate, SeeConfirm, SeePrune
  <2>9. ~RolledBack /\ ~RestoreFails
    BY <2>1, SeeRolledBack, SeeRestoreFails DEF RollingBack
  <2>10. CASE RecordPlan /\ s = run.snap
    <3>1. UNCHANGED disk /\ snaps'[s].plan.image = disk
      BY <2>0, <2>10, SeeRecordPlan DEF Vault
    <3> QED BY <3>1 DEF Exact, Same
  <2>11. CASE Recover /\ s = run.snap /\ snaps'[s].plan.image = disk
    <3>1. UNCHANGED disk
      BY <2>11, SeeRecover DEF Vault
    <3> QED BY <2>11, <3>1 DEF Exact, Same
  <2> SUFFICES ASSUME ~(RecordPlan /\ s = run.snap), ~(Recover /\ s = run.snap /\ snaps'[s].plan.image = disk)
               PROVE  Exact(s)'
    BY <2>10, <2>11
  <2>12. snaps[s] # None /\ snaps'[s].plan = snaps[s].plan
    BY <1>3, <2>0, NewPlan
  <2>13. s \in NewestOpen
    <3>1. \A x \in Snaps : /\ (snaps'[x] # None) = (snaps[x] # None)
                           /\ snaps[x] # None => snaps'[x].whole = snaps[x].whole /\ snaps'[x].good = snaps[x].good
      <4>1. CASE UNCHANGED snaps
        BY <4>1
      <4>2. CASE RecordPlan
        BY <1>0, <4>2, SeeRecordPlan DEF Others
      <4>3. CASE Recover
        BY <1>0, <4>3, SeeRecover DEF Others
      <4> QED BY <2>8, <2>9, <4>1, <4>2, <4>3 DEF Next, vars, Start, Load, RecordApplied, WritePin,
          Recompose, Freeze, Raise, GatePasses, GateFails, RecordVersion, Accepted, RegatePasses, RegateFails,
          RestoreSaved, Quarantine, Restore, Write, Kill
    <3>2. Open' = Open
      BY <3>1 DEF Open
    <3> QED BY <1>3, <3>2 DEF NewestOpen
  <2>14. Exact(s)
    BY <1>0, <1>3, <2>1, <2>6, <2>12, <2>13 DEF Settled
  <2>15. CASE \E p \in Pages : Write(p)
    BY <2>0, <2>12, <2>14, <2>15, ExactStays
  <2>16. CASE ~(\E p \in Pages : Write(p))
    <3>1. UNCHANGED disk
      BY <2>2, <2>3, <2>4, <2>5, <2>8, <2>16 DEF Next, vars, Start, Load, Recompose, Freeze, RecordPlan,
         Raise, GatePasses, GateFails, Accepted, Recover, RegatePasses, RegateFails, RestoreSaved, RolledBack,
         RestoreFails, Kill
    <3>2. since'[s] = since[s]
      <4>1. CASE s # run.snap
        BY <2>0, <2>16, <4>1, SinceStep DEF Sinces
      <4>2. ~(Freeze /\ s = run.snap)
        BY <1>0, <1>3, <2>0, <2>12, SeeFreeze DEF Own, NewPCs
      <4>3. run'.pc # "quarantine"
        BY <1>3 DEF RollingBack
      <4>4. ~(Recover /\ s = run.snap /\ snaps[run.snap].plan = None)
        BY <1>3, <2>12
      <4> QED BY <2>16, <4>1, <4>2, <4>3, <4>4, SinceStep
    <3> QED BY <2>0, <2>12, <2>14, <3>1, <3>2, ExactStays
  <2> QED BY <2>15, <2>16
<1> QED BY <1>1, <1>2, <1>3 DEF Settled

Steered == Shaped /\ Tallies /\ SavedOnly /\ Place /\ Progress /\ Points

LEMMA SteeredInit == Init => Steered
<1> SUFFICES ASSUME Init PROVE Steered
  OBVIOUS
<1>1. /\ run = Idle /\ \A s \in Snaps : snaps[s] = None
  BY DEF Init
<1>2. run.pc = "idle" /\ run.snap = 0 /\ run.k = 0 /\ run.flags = {}
  BY <1>1 DEF Idle
<1>3. Tallies
  <2>1. /\ runner \in Runners /\ bad \subseteq BadMigs /\ aside = {} /\ edits = 0 /\ cuts = 0 /\ torn = FALSE
        /\ since = [s \in Snaps |-> {}] /\ fresh = [p \in Pages |-> 0]
        /\ cutoff = [m \in Migs |-> 0] /\ strays = {}
    BY DEF Init
  <2>2. MaxEdits \in Nat /\ MaxCuts \in Nat
    BY UpgradeAssumption
  <2>3. edits \in 0..MaxEdits /\ cuts \in 0..MaxCuts
    BY <2>1, <2>2
  <2>4. since \in [Snaps -> SUBSET Pages] /\ cutoff \in [Migs -> Nat]
    BY <2>1
  <2>5. fresh \in [Pages -> 0..MaxEdits] /\ \A m \in Migs : cutoff[m] <= cuts
    BY <2>1, <2>2
  <2>6. torn \in BOOLEAN /\ aside \subseteq Pages /\ strays \subseteq Pages
    BY <2>1
  <2> QED BY <2>1, <2>3, <2>4, <2>5, <2>6 DEF Tallies
<1> QED BY <1>1, <1>2, <1>3, ShapedInit DEF Steered, SavedOnly, SavedBack, Place, Progress, Points, PastPCs, LowPCs,
    HighPCs

LEMMA SteeredStep == Steered /\ [Next]_vars => Steered'
<1> SUFFICES ASSUME Steered, [Next]_vars PROVE Steered'
  OBVIOUS
<1>1. Typed /\ Own /\ Ways /\ Shaped /\ Tallies /\ SavedOnly /\ Place /\ Progress /\ Points
  BY DEF Steered, Shaped
<1> QED BY <1>1, ShapedStep, TalliesStep, SavedOnlyStep, PlaceStep, ProgressStep, PointsStep DEF Steered

LEMMA TornStays == ASSUME [Next]_vars, torn PROVE torn'
BY DEF Next, vars, world, history, Start, Mkdir, Copy, Manifest, SnapshotFails, Load, Migrate,
     RecordApplied, WritePin, Recompose, Freeze, RecordPlan, Raise, GatePasses, GateFails,
     RecordVersion, Confirm, Prune, Accepted, Recover, RegatePasses, RegateFails, RestoreSaved,
     Quarantine, Restore, RolledBack, RestoreFails, Write, Kill

Covered == torn \/ (Plotted /\ Captive /\ Returning /\ Settled)

LEMMA CoveredInit == Init => Covered
<1> SUFFICES ASSUME Init PROVE Covered
  OBVIOUS
<1>1. run.pc = "idle" /\ run.snap = 0 /\ \A s \in Snaps : snaps[s] = None
  BY DEF Init, Idle
<1> QED BY <1>1 DEF Covered, Plotted, Captive, Returning, Settled, RollingBack, NewestOpen, Open

LEMMA CoveredStep == Steered /\ Covered /\ [Next]_vars => Covered'
<1> SUFFICES ASSUME Steered, Covered, [Next]_vars, ~torn' PROVE Covered'
  BY DEF Covered
<1>1. /\ Typed /\ Numbered /\ Own /\ Ways /\ Deltas /\ Delta /\ SavedOnly /\ Progress /\ Points /\ Sinces
      /\ Plotted /\ Captive /\ Returning /\ Settled
  BY TornStays DEF Steered, Shaped, Tallies, Sinces, Covered
<1>2. Plotted' /\ Captive'
  BY <1>1, PlottedStep, CaptiveStep
<1>3. Returning' /\ Settled'
  BY <1>1, ReturningStep, SettledStep
<1> QED BY <1>2, <1>3 DEF Covered

\* A rollback that is through leaves every file as the snapshot has it, but
\* for what others wrote since the delta was captured and for what an
\* operator's restore has no business with: whatever was killed before, and
\* however the runs before it ended, unless a rollback was torn.
THEOREM RollbackBringsBack == Spec => []RollbackUnchanges
<1>1. Steered /\ Covered => RollbackUnchanges
  <2> SUFFICES ASSUME Steered, Covered, At("restore"), run.todo = {}, ~torn,
                      NEW f \in Files \ since[run.snap]
               PROVE  \/ disk[f] = snaps[run.snap].tree[f]
                      \/ "saved" \in run.flags /\ snaps[run.snap].plan.image[f] = snaps[run.snap].tree[f]
    BY DEF RollbackUnchanges
  <2> QED BY Through DEF Covered, Steered, Shaped, At, SavedBack
<1> QED BY SteeredInit, SteeredStep, CoveredInit, CoveredStep, <1>1, PTL DEF Spec

-----------------------------------------------------------------------------
(* The release that is claimed                                             *)

\* What a rollback sets aside was not in the snapshot.
NewOnly == RollingBack => \A f \in run.added : snaps[run.snap].tree[f] = None

LEMMA NewOnlyStep ==
  ASSUME Typed, Own, Deltas, Delta, NewOnly, [Next]_vars
  PROVE  NewOnly'
<1> SUFFICES ASSUME RollingBack', NEW f \in run'.added PROVE snaps'[run'.snap].tree[f] = None
  BY DEF NewOnly
<1>1. CASE RollingBack /\ (Quarantine \/ Restore)
  <2>1. UNCHANGED snaps /\ run'.snap = run.snap /\ run'.added \subseteq run.added
    BY <1>1, SeeQuarantine, SeeRestore DEF Stays
  <2> QED BY <1>1, <2>1 DEF NewOnly
<1>2. CASE RollingBack /\ ((\E p \in Pages : Write(p)) \/ UNCHANGED vars)
  BY <1>2, SeeWrite, SeeNothing DEF NewOnly
<1>3. CASE (Raise \/ GateFails) /\ Captures("quarantine")
  BY <1>3, SeeRaise, SeeGateFails DEF Captures, Takes, Stays, Added
<1>4. CASE GateFails /\ run.pc = "gate" /\ run.snap # 0 /\ runner = "engine" /\ Moves("quarantine")
  <2>1. InUse /\ UNCHANGED snaps /\ run'.snap = run.snap /\ run'.added = run.added
    BY <1>4, SeeGateFails DEF InUse, Moves, Stays, GateFails
  <2> QED BY <2>1 DEF Delta, DeltaOf
<1>5. CASE RegateFails /\ run.snap # 0
  <2>1. run.pc = "regate" /\ UNCHANGED snaps /\ run'.snap = run.snap /\ run'.added = snaps[run.snap].plan.added
    BY <1>5, SeeRegateFails DEF Takes, Stays
  <2>2. run.snap \in Snaps /\ snaps[run.snap] # None /\ snaps[run.snap].plan # None
    BY <1>5, <2>1 DEF Typed, IsRun, HasSnap
  <2> QED BY <2>1, <2>2 DEF Deltas, DeltaOf
<1>6. CASE RestoreSaved
  <2>1. PICK s \in Snaps : UNCHANGED snaps /\ run'.snap = s /\ run'.added = snaps[s].plan.added
                           /\ snaps[s] # None /\ snaps[s].plan # None
    BY <1>6, SeeRestoreSaved
  <2> QED BY <2>1 DEF Deltas, DeltaOf
<1> QED BY <1>1, <1>2, <1>3, <1>4, <1>5, <1>6, RollIn

\* The pin is where it was or at the target.
Pins == /\ disk["pin"] \in {0, Target}
        /\ \A s \in Snaps : snaps[s] # None =>
             /\ snaps[s].tree["pin"] \in {0, Target}
             /\ snaps[s].plan # None => snaps[s].plan.image["pin"] \in {0, Target}

LEMMA PinsStep ==
  ASSUME Typed, Own, NewOnly, Pins, [Next]_vars
  PROVE  Pins'
<1>0. "pin" \in Files /\ "pin" \notin Pages /\ "pin" # "state" /\ None \notin {0, Target}
  BY FilesAre, Plain, UpgradeAssumption
<1>1. disk'["pin"] \in {0, Target}
  <2>1. ~(Quarantine /\ "pin" \in run.added)
    <3> SUFFICES ASSUME Quarantine, "pin" \in run.added PROVE FALSE
      OBVIOUS
    <3>1. run.pc = "quarantine"
      BY SeeQuarantine
    <3>2. run.snap \in Snaps /\ snaps[run.snap] # None
      BY <3>1, UpgradeAssumption DEF Typed, IsRun, HasSnap, Restorable, Snaps
    <3> QED BY <1>0, <3>1, <3>2 DEF NewOnly, RollingBack, Pins
  <2>2. ASSUME Restore PROVE snaps[run.snap].tree["pin"] \in {0, Target}
    <3>1. run.pc = "restore"
      BY <2>2, SeeRestore
    <3>2. run.snap \in Snaps /\ snaps[run.snap] # None
      BY <3>1, UpgradeAssumption DEF Typed, IsRun, HasSnap, Restorable, Snaps
    <3> QED BY <3>2 DEF Pins
  <2> QED BY <1>0, <2>1, <2>2, DiskStep, SeeWritePin DEF Pins
<1>2. ASSUME NEW s \in Snaps, snaps'[s] # None PROVE snaps'[s].tree["pin"] \in {0, Target}
  BY <1>0, <1>2, NewTree DEF Pins
<1>3. ASSUME NEW s \in Snaps, snaps'[s] # None, snaps'[s].plan # None
      PROVE  snaps'[s].plan.image["pin"] \in {0, Target}
  BY <1>3, NewPlan DEF Pins
<1> QED BY <1>1, <1>2, <1>3 DEF Pins

\* Pages no migration is written to delete are there, and in each complete
\* snapshot.
Kept == InitialPages \ UNION {Drop[m] : m \in Migs}
HasKept(t) == \A x \in Kept : t[x] # None
Kepts ==
  /\ HasKept(disk)
  /\ \A s \in Snaps : snaps[s] # None /\ snaps[s].whole => HasKept(snaps[s].tree)
  /\ run.pc = "copy" =>
       /\ \A x \in Kept \ run.todo : snaps[run.snap].tree[x] # None
       /\ snaps[run.snap].tree["state"] = disk["state"] /\ snaps[run.snap].tree["pin"] = disk["pin"]

LEMMA KeptAre == Kept \subseteq Pages /\ Kept \subseteq Files /\ \A m \in Migs : Kept \cap Drop[m] = {}
BY FilesAre, UpgradeAssumption DEF Kept

\* A copy goes on.
LEMMA CopyOn ==
  ASSUME Typed, Own, [Next]_vars, run'.pc = "copy"
  PROVE  \/ Mkdir \/ Copy
         \/ run' = run /\ snaps' = snaps /\ run.pc = "copy"
<1>1. CASE \E flags \in Flags : Start(flags)
  BY <1>1, SeeStart
<1>2. CASE Manifest \/ SnapshotFails \/ Load \/ Migrate \/ RecordApplied \/ WritePin \/ Recompose \/ Freeze
  BY <1>2, SeeManifest, SeeSnapshotFails, SeeLoad, SeeMigrate, SeeRecordApplied, SeeWritePin, SeeRecompose,
     SeeFreeze DEF Moves, Rests, Captures, Takes
<1>3. CASE RecordPlan \/ Raise \/ GatePasses \/ GateFails \/ RecordVersion \/ Confirm \/ Prune \/ Accepted
  BY <1>3, SeeRecordPlan, SeeRaise, SeeGatePasses, SeeGateFails, SeeRecordVersion, SeeConfirm, SeePrune,
     SeeAccepted DEF Moves, Rests, Captures, Takes
<1>4. CASE Recover \/ RegatePasses \/ RegateFails \/ RestoreSaved \/ Quarantine \/ Restore
  BY <1>4, SeeRecover, SeeRegatePasses, SeeRegateFails, SeeRestoreSaved, SeeQuarantine, SeeRestore
     DEF Moves, Rests, Takes
<1>5. CASE RolledBack \/ RestoreFails \/ Kill
  BY <1>5, SeeRolledBack, SeeRestoreFails, SeeKill DEF Rests
<1>6. CASE (\E p \in Pages : Write(p)) \/ UNCHANGED vars
  BY <1>6, SeeWrite, SeeNothing
<1> QED BY <1>1, <1>2, <1>3, <1>4, <1>5, <1>6 DEF Next

LEMMA KeptsStep ==
  ASSUME Typed, Own, NewOnly, Kepts, [Next]_vars
  PROVE  Kepts'
<1>0. "state" \in Files /\ "pin" \in Files /\ "state" \notin Pages /\ "pin" \notin Pages /\ 0 \notin Snaps
  BY FilesAre, UpgradeAssumption DEF Snaps
<1>1. ASSUME NEW x \in Kept PROVE disk'[x] # None
  <2>0. x \in Files /\ x \in Pages /\ x # "state" /\ x # "pin" /\ disk[x] # None
    BY <1>0, KeptAre DEF Kepts, HasKept
  <2>1. ASSUME Migrate PROVE Output(run.k, x) # None
    <3>1. run.k \in Migs
      BY <2>1, SeeMigrate
    <3>2. x \notin Drop[run.k]
      BY <3>1, KeptAre
    <3>3. disk[x] \in PageText
      BY <2>0, PagesAre
    <3>4. Output(run.k, x) = [disk[x] EXCEPT !.did[run.k] = @ + 1]
      BY <2>0, <3>2 DEF Output
    <3>5. Output(run.k, x) \in PageText
      BY <3>1, <3>3, <3>4, PageIs
    <3> QED BY <3>5, Plain
  <2>2. ~(Quarantine /\ x \in run.added)
    <3> SUFFICES ASSUME Quarantine, x \in run.added PROVE FALSE
      OBVIOUS
    <3>1. run.pc = "quarantine"
      BY SeeQuarantine
    <3>2. run.snap \in Snaps /\ snaps[run.snap] # None /\ snaps[run.snap].whole
      BY <3>1, UpgradeAssumption DEF Typed, IsRun, HasSnap, Restorable, Snaps, Own, WorkPCs
    <3> QED BY <3>1, <3>2 DEF NewOnly, RollingBack, Kepts, HasKept
  <2>3. ASSUME Restore, x \in run.todo PROVE snaps[run.snap].tree[x] # None
    BY <2>3, SeeRestore DEF Typed, Restorable
  <2> QED BY <2>0, <2>1, <2>2, <2>3, DiskStep, SeeWrite
<1>2. ASSUME run'.pc = "copy"
      PROVE  /\ \A x \in Kept \ run'.todo : snaps'[run'.snap].tree[x] # None
             /\ snaps'[run'.snap].tree["state"] = disk'["state"] /\ snaps'[run'.snap].tree["pin"] = disk'["pin"]
  <2>1. CASE Mkdir
    <3>1. /\ run'.snap = runs /\ runs \in Snaps /\ run'.todo = {p \in Pages : disk[p] # None}
          /\ UNCHANGED disk /\ snaps'[runs] # None
      BY <2>1, SeeMkdir DEF Vault
    <3>2. \A f \in Files : snaps'[runs].tree[f] = IF f \in Pages THEN None ELSE disk[f]
      <4>1. snaps'[runs] = [tree |-> [f \in Files |-> IF f \in Pages THEN None ELSE disk[f]],
                            whole |-> FALSE, plan |-> None, good |-> FALSE]
        BY <2>1, SeeMkdir
      <4> QED BY <4>1
    <3>3. Kept \subseteq run'.todo
      BY <3>1, KeptAre DEF Kepts, HasKept
    <3> QED BY <1>0, <3>1, <3>2, <3>3
  <2>2. CASE Copy
    <3>1. PICK f \in run.todo :
           /\ UNCHANGED disk /\ run'.snap = run.snap /\ run.pc = "copy"
           /\ run'.todo = run.todo \ {f} /\ f \in Pages
           /\ run.snap \in Snaps =>
              \A g \in Files : snaps'[run.snap].tree[g] = IF g = f THEN disk[f] ELSE snaps[run.snap].tree[g]
      BY <2>2, SeeCopy DEF Vault, Stays
    <3>2. run.snap \in Snaps
      BY <3>1 DEF Own
    <3> QED BY <1>0, <3>1, <3>2, KeptAre DEF Kepts, HasKept
  <2>3. CASE run' = run /\ snaps' = snaps /\ run.pc = "copy"
    <3>1. ~Claiming
      BY <2>3, SeeRecordApplied, SeeWritePin, SeeRecordVersion, SeeQuarantine, SeeRestore DEF Claiming
    <3> QED BY <2>3, <3>1, ClaimStays DEF Kepts
  <2> QED BY <1>2, <2>1, <2>2, <2>3, CopyOn
<1>3. ASSUME NEW s \in Snaps, snaps'[s] # None, snaps'[s].whole PROVE HasKept(snaps'[s].tree)
  <2>1. CASE snaps[s] # None /\ snaps'[s].tree = snaps[s].tree
    <3>1. snaps[s].whole \/ (Manifest /\ s = run.snap)
      BY <1>3, <2>1, SnapStep, SeeMkdir
    <3>2. CASE Manifest /\ s = run.snap
      BY <2>1, <3>2, SeeManifest DEF Kepts, HasKept
    <3> QED BY <2>1, <3>1, <3>2 DEF Kepts
  <2>2. CASE Copy /\ s = run.snap /\ snaps'[s].whole = snaps[s].whole
    BY <1>3, <2>2, SeeCopy DEF Own
  <2> QED BY <1>3, <2>1, <2>2, NewTree
<1> QED BY <1>1, <1>2, <1>3 DEF Kepts, HasKept

\* Only what is complete is confirmed.
Goods == \A s \in Snaps : snaps[s] # None /\ snaps[s].good => snaps[s].whole

LEMMA GoodsStep == ASSUME Typed, Own, Goods, [Next]_vars PROVE Goods'
<1> SUFFICES ASSUME NEW s \in Snaps, snaps'[s] # None, snaps'[s].good PROVE snaps'[s].whole
  BY DEF Goods
<1>1. CASE Mkdir /\ s = runs
  BY <1>1, SeeMkdir
<1>2. CASE Confirm /\ s = run.snap
  BY <1>2, SeeConfirm, UpgradeAssumption DEF Own, WorkPCs, Snaps
<1>3. CASE Manifest /\ s = run.snap
  BY <1>3, SeeManifest
<1>4. CASE snaps[s] # None /\ snaps'[s].good = snaps[s].good /\ snaps'[s].whole = snaps[s].whole
  BY <1>4 DEF Goods
<1> QED BY <1>1, <1>2, <1>3, <1>4, SnapStep

\* Every migration up to the release a tree claims is recorded in it, and
\* what is recorded has been over the pages that are kept.
Has(t, ms) == \A m \in ms : \A x \in Touch[m] \cap Kept : t[x].did[m] > 0
Sound(t)   == /\ \A m \in Migs : To[m] <= ClaimOf(t) => m \in StateOf(t).applied
              /\ Has(t, StateOf(t).applied)

SoundVault == ~RollingBack => Sound(disk)
SoundTrees == \A s \in Snaps : snaps[s] # None /\ snaps[s].whole => Sound(snaps[s].tree)

\* A plan is recorded once everything is applied.
FullPlans == \A s \in Snaps : snaps[s] # None /\ snaps[s].plan # None =>
               StateOf(snaps[s].plan.image).applied = Migs

\* The same of what is copied, applied and brought back so far.
CopiedSo  == run.pc = "copy" => \A m \in State.applied : \A x \in (Touch[m] \cap Kept) \ run.todo :
               snaps[run.snap].tree[x].did[m] > 0
AppliedSo == run.pc = "apply" => \A x \in (Touch[run.k] \cap Kept) \ run.todo : disk[x].did[run.k] > 0
BackSo    == RollingBack => Has(disk, StateOf(snaps[run.snap].tree).applied)

\* The record only grows while the invocation is at work.
TakenPCs == (WorkPCs \ {"quarantine", "restore"}) \cup {"copy"}
GrownSo  == run.pc \in TakenPCs /\ run.snap # 0 =>
              StateOf(snaps[run.snap].tree).applied \subseteq State.applied

\* A migration that went over a page is not taken off it but by a rollback.
LEMMA DidStays ==
  ASSUME Typed, Kepts, Kepts', [Next]_vars, NEW x \in Kept, NEW m \in Migs, disk[x].did[m] > 0,
         ~(Restore /\ disk'[x] = snaps[run.snap].tree[x])
  PROVE  disk'[x].did[m] > 0
<1>1. x \in Pages /\ x \in Files /\ x # "state" /\ x # "pin" /\ disk[x] # None /\ disk'[x] # None
  BY KeptAre, FilesAre, UpgradeAssumption DEF Kepts, HasKept
<1>2. disk[x] \in PageText
  BY <1>1, PagesAre
<1>3. CASE Migrate /\ disk'[x] = Output(run.k, x)
  <2>1. run.k \in Migs
    BY <1>3, SeeMigrate
  <2>2. disk'[x].did[m] = disk[x].did[m] + (IF m = run.k THEN 1 ELSE 0)
    BY <1>1, <1>3, <2>1, OutputIs
  <2> QED BY <1>2, <2>2 DEF PageText
<1>4. CASE Write(x)
  BY <1>1, <1>4, SeeWrite
<1> QED BY <1>1, <1>3, <1>4, DiskStep

\* Steps that go on migrating.
LEMMA ApplyOn ==
  ASSUME Typed, [Next]_vars, run'.pc = "apply"
  PROVE  \/ Load /\ run'.k \in Left /\ run'.todo = Touch[run'.k] \cup Make[run'.k] \cup Drop[run'.k]
         \/ Migrate
         \/ run' = run /\ run.pc = "apply" /\ ((\E p \in Pages : Write(p)) \/ UNCHANGED vars)
<1>1. CASE \E flags \in Flags : Start(flags)
  BY <1>1, SeeStart
<1>2. CASE Mkdir \/ Copy \/ Manifest \/ SnapshotFails \/ RecordApplied \/ WritePin \/ Recompose \/ Freeze
  BY <1>2, SeeMkdir, SeeCopy, SeeManifest, SeeSnapshotFails, SeeRecordApplied, SeeWritePin, SeeRecompose,
     SeeFreeze DEF Moves, Rests, Captures, Takes
<1>3. CASE Load
  BY <1>3, SeeLoad DEF Moves
<1>4. CASE RecordPlan \/ Raise \/ GatePasses \/ GateFails \/ RecordVersion \/ Confirm \/ Prune \/ Accepted
  BY <1>4, SeeRecordPlan, SeeRaise, SeeGatePasses, SeeGateFails, SeeRecordVersion, SeeConfirm, SeePrune,
     SeeAccepted DEF Moves, Rests, Captures, Takes
<1>5. CASE Recover \/ RegatePasses \/ RegateFails \/ RestoreSaved \/ Quarantine \/ Restore
  BY <1>5, SeeRecover, SeeRegatePasses, SeeRegateFails, SeeRestoreSaved, SeeQuarantine, SeeRestore
     DEF Moves, Rests, Takes
<1>6. CASE RolledBack \/ RestoreFails \/ Kill
  BY <1>6, SeeRolledBack, SeeRestoreFails, SeeKill DEF Rests
<1>7. CASE (\E p \in Pages : Write(p)) \/ UNCHANGED vars
  BY <1>7, SeeWrite, SeeNothing
<1> QED BY <1>1, <1>2, <1>3, <1>4, <1>5, <1>6, <1>7 DEF Next

LEMMA AppliedSoStep ==
  ASSUME Typed, Kepts, Kepts', AppliedSo, [Next]_vars
  PROVE  AppliedSo'
<1> SUFFICES ASSUME run'.pc = "apply", NEW x \in (Touch[run'.k] \cap Kept) \ run'.todo
             PROVE  disk'[x].did[run'.k] > 0
  BY DEF AppliedSo
<1>1. CASE Migrate
  <2>1. PICK p \in run.todo : /\ p \in Pages /\ run'.todo = run.todo \ {p} /\ run'.k = run.k /\ run.k \in Migs
                              /\ run.pc = "apply"
                              /\ \A f \in Files : disk'[f] = IF f = p THEN Output(run.k, p) ELSE disk[f]
    BY <1>1, SeeMigrate DEF Stays
  <2>2. CASE x = p
    <3>1. disk'[x] = Output(run.k, x) /\ disk'[x] # None /\ disk[x] # None /\ x \in Pages
      BY <2>1, <2>2, KeptAre DEF Kepts, HasKept
    <3>2. disk'[x].did[run.k] = disk[x].did[run.k] + 1 /\ disk[x] \in PageText
      BY <2>1, <3>1, OutputIs, PagesAre
    <3> QED BY <2>1, <3>2 DEF PageText
  <2>3. CASE x # p
    <3>1. disk'[x] = disk[x] /\ x \in (Touch[run.k] \cap Kept) \ run.todo
      BY <2>1, <2>3, KeptAre
    <3> QED BY <2>1, <3>1 DEF AppliedSo
  <2> QED BY <2>2, <2>3
<1>2. CASE run' = run /\ run.pc = "apply" /\ ((\E p \in Pages : Write(p)) \/ UNCHANGED vars)
  <2>1. run.k \in Migs /\ disk[x].did[run.k] > 0
    BY <1>2 DEF AppliedSo, Typed, IsRun
  <2>2. ~Restore
    BY <1>2, SeeRestore
  <2> QED BY <1>2, <2>1, <2>2, DidStays
<1> QED BY <1>1, <1>2, ApplyOn

\* An invocation at work was so before, but for its first steps.
LEMMA TakenFrom ==
  ASSUME Typed, Ways, [Next]_vars, run'.pc \in TakenPCs, run'.snap # 0
  PROVE  \/ Mkdir
         \/ run'.pc = "recover" /\ run'.snap = Unfinished /\ Pending = {} /\ \E flags \in Flags : Start(flags)
         \/ run.pc \in TakenPCs /\ run'.snap = run.snap /\ ~Quarantine /\ ~Restore
<1>1. CASE \E flags \in Flags : Start(flags)
  BY <1>1, SeeStart
<1>2. CASE Mkdir
  BY <1>2
<1>3. CASE Copy \/ Manifest \/ SnapshotFails \/ Load \/ Migrate \/ RecordApplied \/ WritePin
  BY <1>3, SeeCopy, SeeManifest, SeeSnapshotFails, SeeLoad, SeeMigrate, SeeRecordApplied, SeeWritePin,
     SeeQuarantine, SeeRestore DEF Moves, Stays, Rests, TakenPCs, WorkPCs
<1>4. CASE Recompose \/ Freeze \/ RecordPlan \/ Raise \/ GatePasses \/ GateFails
  BY <1>4, SeeRecompose, SeeFreeze, SeeRecordPlan, SeeRaise, SeeGatePasses, SeeGateFails, SeeQuarantine,
     SeeRestore DEF Moves, Stays, Rests, Captures, Takes, TakenPCs, WorkPCs
<1>5. CASE RecordVersion \/ Confirm \/ Prune \/ Accepted \/ Recover \/ RegatePasses \/ RegateFails
  BY <1>5, SeeRecordVersion, SeeConfirm, SeePrune, SeeAccepted, SeeRecover, SeeRegatePasses, SeeRegateFails,
     SeeQuarantine, SeeRestore DEF Moves, Stays, Rests, Takes, TakenPCs, WorkPCs
<1>6. CASE RestoreSaved \/ Quarantine \/ Restore \/ RolledBack \/ RestoreFails \/ Kill
  BY <1>6, SeeRestoreSaved, SeeQuarantine, SeeRestore, SeeRolledBack, SeeRestoreFails, SeeKill
     DEF Stays, Rests, TakenPCs, WorkPCs
<1>7. CASE (\E p \in Pages : Write(p)) \/ UNCHANGED vars
  BY <1>7, SeeWrite, SeeNothing, SeeQuarantine, SeeRestore DEF TakenPCs, WorkPCs
<1> QED BY <1>1, <1>2, <1>3, <1>4, <1>5, <1>6, <1>7 DEF Next

\* With nothing pending everything is recorded.
LEMMA AllRecorded ==
  ASSUME Typed, Ways, Pins, Sound(disk), Pending = {} \/ Claimed = Target
  PROVE  State.applied = Migs
<1>1. /\ State.applied \subseteq Migs /\ State = StateOf(disk) /\ Claimed = ClaimOf(disk)
      /\ \A m \in Migs : To[m] \in Nat /\ To[m] <= Target
  BY ClaimIs, OfDisk DEF StateRec
<1>2. Claimed \in Nat
  BY ClaimIs, UpgradeAssumption DEF Ways, Pins
<1>3. \A m \in Migs : m \in State.applied \/ ~(To[m] <= Claimed)
  BY <1>1 DEF Sound
<1>4. ASSUME NEW m \in Migs PROVE m \in State.applied
  <2>1. CASE Claimed = Target
    BY <1>1, <1>3, <2>1
  <2>2. CASE Pending = {}
    BY <1>1, <1>2, <1>3, <2>2 DEF Pending, Span
  <2> QED BY <2>1, <2>2
<1> QED BY <1>1, <1>4

\* The record and the pin of a snapshot are what they were.
LEMMA TreeRecords ==
  ASSUME Typed, [Next]_vars, NEW s \in Snaps, snaps'[s] # None
  PROVE  \/ Mkdir /\ s = runs /\ StateOf(snaps'[s].tree) = State
         \/ /\ snaps[s] # None
            /\ snaps'[s].tree["state"] = snaps[s].tree["state"]
            /\ snaps'[s].tree["pin"] = snaps[s].tree["pin"]
            /\ StateOf(snaps'[s].tree) = StateOf(snaps[s].tree)
<1>1. "state" \in Files /\ "pin" \in Files /\ "state" \notin Pages /\ "pin" \notin Pages
  BY FilesAre, UpgradeAssumption
<1> QED BY <1>1, NewTree DEF StateOf, State

LEMMA GrownSoStep ==
  ASSUME Typed, Own, Ways, Place, Progress, Pins, SoundVault, GrownSo, [Next]_vars
  PROVE  GrownSo'
<1> SUFFICES ASSUME run'.pc \in TakenPCs, run'.snap # 0
             PROVE  StateOf(snaps'[run'.snap].tree).applied \subseteq State'.applied
  BY DEF GrownSo, TakenPCs, WorkPCs, StateOf
<1>1. CASE Mkdir
  <2>1. run'.snap = runs /\ runs \in Snaps /\ snaps'[runs] # None /\ ~Claiming
    BY <1>1, SeeMkdir, SeeRecordApplied, SeeWritePin, SeeRecordVersion, SeeQuarantine, SeeRestore DEF Claiming
  <2>2. StateOf(snaps'[runs].tree) = State
    <3>1. \A f \in Files : snaps'[runs].tree[f] = IF f \in Pages THEN None ELSE disk[f]
      <4>1. snaps'[runs] = [tree |-> [f \in Files |-> IF f \in Pages THEN None ELSE disk[f]],
                            whole |-> FALSE, plan |-> None, good |-> FALSE]
        BY <1>1, SeeMkdir
      <4> QED BY <4>1
    <3> QED BY <3>1, FilesAre, UpgradeAssumption DEF StateOf, State
  <2> QED BY <2>1, <2>2, ClaimStays
<1>2. CASE run'.pc = "recover" /\ run'.snap = Unfinished /\ Pending = {} /\ \E flags \in Flags : Start(flags)
  <2>1. run.pc = "idle" /\ UNCHANGED <<disk, snaps>>
    BY <1>2, SeeStart DEF Vault
  <2>2. State' = State /\ State.applied = Migs
    BY <1>2, <2>1, AllRecorded DEF SoundVault, RollingBack, State
  <2>3. run'.snap \in Snaps /\ snaps[run'.snap] # None
    BY <1>2, UnfinishedIs
  <2>4. IsVault(snaps[run'.snap].tree)
    BY <2>3 DEF Typed, Saved, IsSnap
  <2>5. StateOf(snaps[run'.snap].tree) \in StateRec
    BY <2>4, FilesAre DEF IsVault, StateOf, StateRec, NoState
  <2> QED BY <2>1, <2>2, <2>5 DEF StateRec
<1>3. CASE run.pc \in TakenPCs /\ run'.snap = run.snap /\ ~Quarantine /\ ~Restore
  <2>1. State'.applied = State.applied \/ State'.applied = State.applied \cup {run.k}
    <3>1. CASE RecordApplied
      BY <3>1, RecordedIsDone
    <3>2. CASE WritePin
      BY <3>2, SeeWritePin, FilesAre, UpgradeAssumption DEF State
    <3>3. CASE RecordVersion
      BY <3>3, SeeRecordVersion DEF State
    <3> QED BY <1>3, <3>1, <3>2, <3>3, ClaimStays DEF Claiming
  <2>2. run.snap \in Snaps
    BY <1>3 DEF Typed, IsRun
  <2>3. snaps'[run.snap] # None
    <3>1. Typed'
      BY TypedStep
    <3> QED BY <1>3, <2>2, <3>1 DEF Typed, HasSnap, TakenPCs, WorkPCs
  <2>4. CASE Mkdir
    BY <1>1, <2>4
  <2>5. CASE ~Mkdir
    <3>1. StateOf(snaps'[run.snap].tree) = StateOf(snaps[run.snap].tree)
      BY <2>2, <2>3, <2>5, TreeRecords
    <3>2. StateOf(snaps[run.snap].tree).applied \subseteq State.applied
      BY <1>3 DEF GrownSo
    <3> QED BY <1>3, <2>1, <3>1, <3>2
  <2> QED BY <2>4, <2>5
<1> QED BY <1>1, <1>2, <1>3, TakenFrom

LEMMA HasStays ==
  ASSUME Typed, Kepts, Kepts', [Next]_vars, ~Restore, NEW ms \in SUBSET Migs, Has(disk, ms)
  PROVE  Has(disk', ms)
BY DidStays DEF Has

LEMMA CopiedSoStep ==
  ASSUME Typed, Own, Kepts, SoundVault, CopiedSo, [Next]_vars
  PROVE  CopiedSo'
<1> SUFFICES ASSUME run'.pc = "copy", NEW m \in State'.applied, NEW x \in (Touch[m] \cap Kept) \ run'.todo
             PROVE  snaps'[run'.snap].tree[x].did[m] > 0
  BY DEF CopiedSo
<1>0. x \in Pages /\ x \in Files /\ disk[x] # None
  BY KeptAre DEF Kepts, HasKept
<1>1. ASSUME run.pc = "copy" PROVE Has(disk, State.applied)
  BY <1>1, OfDisk DEF SoundVault, Sound, RollingBack
<1>2. CASE Mkdir
  BY <1>0, <1>2, SeeMkdir
<1>3. CASE Copy
  <2>1. PICK f \in run.todo :
         /\ run'.snap = run.snap /\ run.pc = "copy" /\ UNCHANGED disk
         /\ run'.todo = run.todo \ {f} /\ f \in Pages
         /\ run.snap \in Snaps =>
            \A g \in Files : snaps'[run.snap].tree[g] = IF g = f THEN disk[f] ELSE snaps[run.snap].tree[g]
    BY <1>3, SeeCopy DEF Stays, Vault
  <2>2. run.snap \in Snaps /\ State' = State
    BY <2>1 DEF Own, State
  <2>3. CASE x = f
    BY <1>0, <1>1, <2>1, <2>2, <2>3 DEF Has
  <2>4. CASE x # f
    BY <1>0, <2>1, <2>2, <2>4 DEF CopiedSo
  <2> QED BY <2>3, <2>4
<1>4. CASE run' = run /\ snaps' = snaps /\ run.pc = "copy"
  <2>1. ~Claiming
    BY <1>4, SeeRecordApplied, SeeWritePin, SeeRecordVersion, SeeQuarantine, SeeRestore DEF Claiming
  <2> QED BY <1>4, <2>1, ClaimStays DEF CopiedSo
<1> QED BY <1>2, <1>3, <1>4, CopyOn

LEMMA FullPlansStep ==
  ASSUME Typed, Own, Ways, Progress, Pins, SoundVault, FullPlans, [Next]_vars
  PROVE  FullPlans'
<1> SUFFICES ASSUME NEW s \in Snaps, snaps'[s] # None, snaps'[s].plan # None
             PROVE  StateOf(snaps'[s].plan.image).applied = Migs
  BY DEF FullPlans, StateOf
<1>1. CASE snaps[s] # None /\ snaps'[s].plan = snaps[s].plan
  BY <1>1 DEF FullPlans
<1>2. CASE (RecordPlan \/ Recover) /\ snaps'[s].plan.image = disk
  <2>1. run.pc \in {"plan", "recover"}
    BY <1>2, SeeRecordPlan, SeeRecover
  <2>2. Pending = {} /\ Sound(disk)
    BY <2>1 DEF Progress, PastPCs, SoundVault, RollingBack
  <2> QED BY <1>2, <2>2, AllRecorded, OfDisk
<1> QED BY <1>1, <1>2, NewPlan

\* A tree with the record and the pin of another, and all its pages, is as
\* sound.
LEMMA SoundAs ==
  ASSUME NEW t, NEW u, t["state"] = u["state"], t["pin"] = u["pin"], Sound(u),
         Has(t, StateOf(u).applied)
  PROVE  Sound(t)
BY SameClaim DEF Sound

LEMMA SoundTreesStep ==
  ASSUME Typed, Own, Kepts, SoundVault, SoundTrees, CopiedSo, [Next]_vars
  PROVE  SoundTrees'
<1> SUFFICES ASSUME NEW s \in Snaps, snaps'[s] # None, snaps'[s].whole PROVE Sound(snaps'[s].tree)
  <2>1. \A t : Sound(t) => Sound(t)'
    BY RunnerStays DEF Sound, ClaimOf, StateOf, Has, Apart
  <2> QED BY RunnerStays DEF SoundTrees, Sound, ClaimOf, StateOf, Has, Apart
<1>1. CASE snaps[s] # None /\ snaps'[s].tree = snaps[s].tree
  <2>1. snaps[s].whole \/ (Manifest /\ s = run.snap)
    BY <1>1, SnapStep, SeeMkdir
  <2>2. CASE Manifest /\ s = run.snap
    <3>1. run.pc = "copy" /\ run.todo = {}
      BY <2>2, SeeManifest
    <3>2. snaps[s].tree["state"] = disk["state"] /\ snaps[s].tree["pin"] = disk["pin"] /\ Sound(disk)
      BY <2>2, <3>1 DEF Kepts, SoundVault, RollingBack
    <3>3. Has(snaps[s].tree, StateOf(disk).applied)
      BY <2>2, <3>1, OfDisk DEF CopiedSo, Has
    <3> QED BY <1>1, <3>2, <3>3, SoundAs
  <2> QED BY <1>1, <2>1, <2>2 DEF SoundTrees
<1>2. CASE Copy /\ s = run.snap /\ snaps'[s].whole = snaps[s].whole
  BY <1>2, SeeCopy DEF Own
<1> QED BY <1>1, <1>2, NewTree

\* A rollback begins on a vault that has what the snapshot's record says.
LEMMA BackSoFrom ==
  ASSUME Typed, Own, Ways, Sinces, Points, Pins, Plotted, SoundVault, FullPlans, GrownSo, [Next]_vars,
         ~RollingBack, RollingBack'
  PROVE  Has(disk, StateOf(snaps[run'.snap].tree).applied) /\ UNCHANGED <<disk, snaps>> /\ run'.snap \in Snaps
<1>1. Sound(disk) /\ Has(disk, State.applied) /\ State = StateOf(disk) /\ Claimed = ClaimOf(disk)
  BY OfDisk DEF SoundVault, Sound
<1>2. CASE \/ (Raise \/ GateFails) /\ run.snap # 0 /\ Captures("quarantine")
           \/ GateFails /\ run.pc = "gate" /\ run.snap # 0 /\ runner = "engine" /\ Moves("quarantine")
           \/ RegateFails /\ run.snap # 0
  <2>1. run.pc \in TakenPCs /\ run.snap # 0 /\ run'.snap = run.snap /\ UNCHANGED <<disk, snaps>>
    <3>1. CASE (Raise \/ GateFails) /\ run.snap # 0 /\ Captures("quarantine")
      BY <3>1, SeeRaise, SeeGateFails DEF TakenPCs, WorkPCs, Captures, Takes, Stays, Vault
    <3>2. CASE GateFails /\ run.snap # 0 /\ Moves("quarantine")
      BY <3>2, SeeGateFails DEF TakenPCs, WorkPCs, Moves, Stays, Vault
    <3>3. CASE RegateFails /\ run.snap # 0
      BY <3>3, SeeRegateFails DEF TakenPCs, WorkPCs, Takes, Stays, Vault
    <3> QED BY <1>2, <3>1, <3>2, <3>3
  <2>2. StateOf(snaps[run.snap].tree).applied \subseteq State.applied /\ run.snap \in Snaps
    BY <2>1 DEF GrownSo, Typed, IsRun
  <2> QED BY <1>1, <2>1, <2>2 DEF Has
<1>3. CASE RestoreSaved
  <2>1. PICK s \in Snaps :
          /\ UNCHANGED <<disk, snaps>> /\ snaps[s] # None /\ snaps[s].plan # None /\ run'.snap = s
          /\ \A f \in snaps[s].plan.added \cup snaps[s].plan.modified : disk[f] = snaps[s].plan.image[f]
    BY <1>3, SeeRestoreSaved DEF Vault
  <2> DEFINE named == snaps[s].plan.added \cup snaps[s].plan.modified
             image == snaps[s].plan.image
             tree  == snaps[s].tree
  <2>2. /\ StateOf(image).applied = Migs /\ ClaimOf(tree) # Target
        /\ runner = "pack" => PendingOf(tree) # {} /\ PendingOf(image) = {}
        /\ runner = "engine" => image["pin"] = Target
    BY <2>1 DEF FullPlans, Points
  <2>3. \A f \in Files \ Pages : f \in named \/ image[f] = None \/ image[f] = tree[f]
    BY <2>1, UpgradeAssumption DEF Plotted, PlanIs, Same, Sinces
  <2>4. "pin" \in Files \ Pages /\ "state" \in Files \ Pages /\ Target # None
    BY FilesAre, Plain, UpgradeAssumption
  <2>5. StateOf(tree).applied \subseteq Migs
    <3>1. IsVault(tree)
      BY <2>1 DEF Typed, Saved, IsSnap
    <3> QED BY <3>1, <2>4 DEF IsVault, Holdable, StateOf, StateRec, NoState
  <2>6. CASE runner = "engine"
    <3>1. tree["pin"] # Target
      BY <2>2, <2>6 DEF ClaimOf
    <3>2. disk["pin"] = Target
      BY <2>1, <2>2, <2>3, <2>4, <2>6, <3>1
    <3>3. State.applied = Migs
      BY <1>1, <2>6, <3>2, AllRecorded DEF Claimed
    <3> QED BY <1>1, <2>1, <2>5, <3>3 DEF Has
  <2>7. CASE runner = "pack"
    <3>1. CASE "state" \in named
      <4>1. disk["state"] = image["state"]
        BY <2>1, <3>1
      <4>2. State.applied = Migs
        BY <1>1, <2>2, <4>1 DEF StateOf
      <4> QED BY <1>1, <2>1, <2>5, <4>2 DEF Has
    <3>2. CASE image["state"] = None
      <4>1. Migs = {}
        BY <2>2, <3>2 DEF StateOf, NoState
      <4> QED BY <2>1, <2>5, <4>1 DEF Has
    <3>3. CASE image["state"] = tree["state"]
      <4>1. PendingOf(image) = PendingOf(tree)
        BY <2>7, <3>3 DEF PendingOf, ClaimOf, StateOf
      <4> QED BY <2>2, <2>7, <4>1
    <3> QED BY <2>3, <2>4, <3>1, <3>2, <3>3
  <2> QED BY <2>6, <2>7 DEF Ways
<1> QED BY <1>2, <1>3, RollIn

LEMMA BackSoStep ==
  ASSUME Typed, Own, Ways, Sinces, Points, Pins, Kepts, Kepts', Plotted, SoundVault, SoundTrees, FullPlans, GrownSo, BackSo,
         [Next]_vars
  PROVE  BackSo'
<1> SUFFICES ASSUME RollingBack' PROVE Has(disk', StateOf(snaps'[run'.snap].tree).applied)
  BY DEF BackSo, StateOf, Has
<1>1. CASE ~RollingBack
  BY <1>1, BackSoFrom
<1>2. CASE RollingBack
  <2>1. Quarantine \/ Restore \/ (\E p \in Pages : Write(p)) \/ UNCHANGED vars
    BY <1>2, RollIn
  <2>2. snaps' = snaps /\ run'.snap = run.snap
    BY <2>1, SeeQuarantine, SeeRestore, SeeWrite, SeeNothing DEF Stays
  <2>3. run.snap \in Snaps /\ snaps[run.snap] # None /\ snaps[run.snap].whole
    BY <1>2, UpgradeAssumption DEF Typed, IsRun, HasSnap, Restorable, RollingBack, Own, WorkPCs
  <2> DEFINE ms == StateOf(snaps[run.snap].tree).applied
  <2>4. ms \subseteq Migs
    <3>1. IsVault(snaps[run.snap].tree)
      BY <2>3 DEF Typed, Saved, IsSnap
    <3> QED BY <3>1, FilesAre DEF IsVault, Holdable, StateOf, StateRec, NoState
  <2>5. Has(disk, ms) /\ Has(snaps[run.snap].tree, ms)
    BY <1>2, <2>3 DEF BackSo, SoundTrees, Sound
  <2> HIDE DEF ms
  <2>6. ASSUME NEW m \in ms, NEW x \in Touch[m] \cap Kept PROVE disk'[x].did[m] > 0
    <3>1. CASE Restore /\ disk'[x] = snaps[run.snap].tree[x]
      BY <2>5, <2>6, <3>1 DEF Has
    <3>2. CASE ~(Restore /\ disk'[x] = snaps[run.snap].tree[x])
      BY <2>4, <2>5, <2>6, <3>2, DidStays DEF Has
    <3> QED BY <3>1, <3>2
  <2>7. Has(disk', ms)
    BY <2>6 DEF Has
  <2> QED BY <2>2, <2>7 DEF ms
<1> QED BY <1>1, <1>2

\* A claim that moves up to a release moves past what is recorded only.
LEMMA ClaimsUp ==
  ASSUME Typed, Ways, Pins, Sound(disk), State.applied \subseteq State'.applied,
         NEW m \in Migs, To[m] <= Claimed', Claimed' \in Nat,
         m \in Pending => m \in State'.applied
  PROVE  m \in State'.applied
<1>1. State = StateOf(disk) /\ Claimed = ClaimOf(disk) /\ Claimed \in Nat /\ To[m] \in Nat /\ To[m] <= Target
  BY ClaimIs, OfDisk, UpgradeAssumption DEF Pins, Ways
<1>2. CASE To[m] <= Claimed
  BY <1>1, <1>2 DEF Sound
<1>3. CASE Claimed < To[m]
  BY <1>1, <1>3 DEF Pending, Span
<1> QED BY <1>1, <1>2, <1>3

\* Once a rollback is through the vault claims what it did.
LEMMA SoundAgain ==
  ASSUME Typed, Own, Ways, Sinces, Points, Pins, Kepts, Returning, SoundTrees, FullPlans, BackSo, RolledBack
  PROVE  Sound(disk)
<1>1. /\ run.pc = "restore" /\ run.todo = {} /\ run.snap \in Snaps
      /\ snaps[run.snap] # None /\ snaps[run.snap].whole /\ RollingBack
  BY SeeRolledBack, UpgradeAssumption DEF Typed, IsRun, HasSnap, Restorable, Own, WorkPCs, RollingBack
<1> DEFINE tree  == snaps[run.snap].tree
           image == snaps[run.snap].plan.image
<1>2. Sound(tree) /\ Has(disk, StateOf(tree).applied) /\ ClaimOf(tree) # Target
  BY <1>1 DEF SoundTrees, BackSo, Points
<1>3. "pin" \in Files /\ "state" \in Files /\ "pin" \notin since[run.snap] /\ "state" \notin since[run.snap]
  BY <1>1, FilesAre, UpgradeAssumption DEF Sinces
<1>4. SavedBack => /\ StateOf(image).applied = Migs
                   /\ runner = "pack" => PendingOf(tree) # {} /\ PendingOf(image) = {}
                   /\ runner = "engine" => image["pin"] = Target
  BY <1>1 DEF Returning, FullPlans, Points
<1>5. \/ disk["state"] = tree["state"]
      \/ SavedBack /\ image["state"] = tree["state"]
  BY <1>1, <1>3, Through
<1>6. \/ disk["pin"] = tree["pin"]
      \/ SavedBack /\ image["pin"] = tree["pin"]
  BY <1>1, <1>3, Through
<1>7. State.applied \subseteq Migs /\ State = StateOf(disk) /\ Claimed = ClaimOf(disk)
  BY ClaimIs, OfDisk DEF StateRec
<1> HIDE DEF tree, image
<1>8. CASE runner = "engine"
  <2>1. disk["pin"] = tree["pin"] /\ disk["pin"] # Target
    BY <1>2, <1>4, <1>6, <1>8 DEF ClaimOf
  <2>2. ClaimOf(disk) = 0
    BY <1>8, <2>1 DEF Pins, ClaimOf
  <2>3. \A m \in Migs : ~(To[m] <= 0)
    BY UpgradeAssumption
  <2>4. Has(disk, State.applied)
    <3>1. CASE disk["state"] = tree["state"]
      BY <1>2, <1>7, <3>1 DEF StateOf
    <3>2. CASE SavedBack /\ image["state"] = tree["state"]
      <4>1. StateOf(tree).applied = Migs
        BY <1>4, <3>2 DEF StateOf
      <4> QED BY <1>2, <1>7, <4>1 DEF Has
    <3> QED BY <1>5, <3>1, <3>2
  <2> QED BY <1>7, <2>2, <2>3, <2>4 DEF Sound
<1>9. CASE runner = "pack"
  <2>1. disk["state"] = tree["state"]
    <3>1. ~(SavedBack /\ image["state"] = tree["state"])
      BY <1>4, <1>9 DEF PendingOf, ClaimOf, StateOf
    <3> QED BY <1>5, <3>1
  <2>2. StateOf(disk) = StateOf(tree) /\ ClaimOf(disk) = ClaimOf(tree)
    BY <1>9, <2>1 DEF StateOf, ClaimOf
  <2> QED BY <1>2, <2>2 DEF Sound
<1> QED BY <1>8, <1>9 DEF Ways

LEMMA SoundVaultStep ==
  ASSUME Typed, Own, Ways, Place, Sinces, Progress, Points, Pins, Pins', Kepts, Kepts', Returning,
         SoundVault, SoundTrees, FullPlans, AppliedSo, BackSo, ~torn', [Next]_vars
  PROVE  SoundVault'
<1> SUFFICES ASSUME ~RollingBack'
             PROVE  /\ \A m \in Migs : To[m] <= Claimed' => m \in State'.applied
                    /\ Has(disk', State'.applied)
  BY OfDisk, RunnerStays DEF SoundVault, Sound, StateOf, ClaimOf, State, Claimed, Has
<1>0. /\ State = StateOf(disk) /\ Claimed = ClaimOf(disk) /\ State.applied \subseteq Migs
      /\ \A m \in Migs : To[m] \in Nat
  BY ClaimIs, OfDisk DEF StateRec
<1>1. CASE RollingBack
  <2>1. RolledBack
    BY <1>1, RollOn
  <2>2. Sound(disk)
    BY <2>1, SoundAgain
  <2>3. UNCHANGED disk /\ ~Claiming
    BY <2>1, SeeRolledBack, SeeRecordApplied, SeeWritePin, SeeRecordVersion DEF Vault, Claiming, RolledBack, Quarantine,
       Restore, At
  <2>4. State' = State /\ Claimed' = Claimed
    BY <2>3, ClaimStays
  <2> QED BY <1>0, <2>2, <2>3, <2>4 DEF Sound, Has
<1> SUFFICES ASSUME ~RollingBack
             PROVE  /\ \A m \in Migs : To[m] <= Claimed' => m \in State'.applied
                    /\ Has(disk', State'.applied)
  BY <1>1
<1>2. /\ Sound(disk) /\ Has(disk, State.applied)
      /\ \A m \in Migs : To[m] <= Claimed => m \in State.applied
  BY <1>0 DEF SoundVault, Sound
<1>3. ~Quarantine /\ ~Restore
  BY SeeQuarantine, SeeRestore DEF RollingBack
<1>4. Has(disk', State.applied)
  BY <1>0, <1>2, <1>3, HasStays
<1>5. CASE RecordApplied
  <2>1. /\ Pending' = Left /\ State'.applied = State.applied \cup {run.k} /\ Claimed' \in {Claimed, To[run.k]}
        /\ run.pc = "apply" /\ run.todo = {} /\ run.k \in Migs
    BY <1>5, RecordedIsDone, SeeRecordApplied
  <2>2. Claimed' \in Nat /\ Pending = Left \cup {run.k}
    BY <1>0, <2>1, ClaimIs, UpgradeAssumption DEF Progress, Ways, Pins
  <2>3. ASSUME NEW m \in Migs, To[m] <= Claimed' PROVE m \in State'.applied
    <3>1. m \notin Pending'
      <4>1. Pending' \subseteq {n \in Migs : Claimed' < To[n]}
        BY DEF Pending, Span
      <4> QED BY <1>0, <2>2, <2>3, <4>1
    <3>2. m \in Pending => m \in State'.applied
      BY <2>1, <2>2, <3>1
    <3> QED BY <1>2, <2>1, <2>2, <2>3, <3>2, ClaimsUp
  <2>4. \A x \in Touch[run.k] \cap Kept : disk'[x].did[run.k] > 0
    BY <1>3, <2>1, DidStays DEF AppliedSo
  <2> QED BY <1>4, <2>1, <2>3, <2>4 DEF Has
<1>6. CASE WritePin \/ RecordVersion
  <2>1. State'.applied = State.applied /\ Pending = {} /\ Claimed' = Target
    <3>1. CASE WritePin
      <4>1. run.pc = "pin" /\ disk'["pin"] = Target /\ disk'["state"] = disk["state"] /\ runner' = runner
        BY <3>1, SeeWritePin, FilesAre, UpgradeAssumption DEF Apart
      <4> QED BY <4>1 DEF Progress, PastPCs, State, Claimed, Ways
    <3>2. CASE RecordVersion
      <4>1. /\ run.pc = "version" /\ disk'["state"] # None /\ disk'["state"].applied = State.applied
            /\ disk'["state"].version = Target /\ runner' = runner
        BY <3>2, SeeRecordVersion DEF Apart
      <4> QED BY <4>1 DEF Progress, PastPCs, State, Claimed, Ways
    <3> QED BY <1>6, <3>1, <3>2
  <2>2. State.applied = Migs
    BY <1>2, <2>1, AllRecorded
  <2> QED BY <1>4, <2>1, <2>2
<1>7. CASE ~Claiming
  BY <1>2, <1>4, <1>7, ClaimStays
<1> QED BY <1>3, <1>5, <1>6, <1>7 DEF Claiming

-----------------------------------------------------------------------------
(* What is left after a rollback that was torn                             *)

\* The engine's complete snapshots outlive it: one is left that is not about
\* to be used up.
Lasting(s) == /\ snaps[s] # None /\ snaps[s].whole
              /\ s = run.snap => SavedBack \/ run.pc = "accepted"
Recov == runner = "engine" /\ torn /\ Keep > 0 => \E s \in Snaps : Lasting(s)

\* There is a newest one among those confirmed.
LEMMA NewestSpent ==
  ASSUME Spent # {}
  PROVE  \E t \in Spent : \A u \in Spent : u <= t
<1> DEFINE S == {MaxRuns - s : s \in Spent}
<1>1. MaxRuns \in Nat /\ \A s \in Spent : s \in Nat /\ s <= MaxRuns
  BY UpgradeAssumption DEF Spent, Snaps
<1>2. S \in SUBSET Nat /\ S # {}
  BY <1>1
<1> DEFINE Less == {ss \in Nat \X Nat : ss[1] < ss[2]}
<1>3. IsWellFoundedOn(Less, Nat)
  BY NatLessThanWellFounded DEF OpToRel
<1>4. PICK l \in S : \A m \in S : ~(<<m, l>> \in Less)
  <2> HIDE DEF S, Less
  <2> QED BY <1>2, <1>3, WFMin
<1>5. PICK t \in Spent : l = MaxRuns - t
  OBVIOUS
<1>6. ASSUME NEW u \in Spent PROVE u <= t
  <2>1. MaxRuns - u \in S /\ MaxRuns - u \in Nat /\ l \in Nat
    BY <1>1, <1>5
  <2>2. <<MaxRuns - u, l>> \in Nat \X Nat /\ ~(<<MaxRuns - u, l>> \in Less)
    BY <1>4, <2>1
  <2>3. ~(MaxRuns - u < l)
    BY <2>2
  <2> QED BY <1>1, <1>5, <2>1, <2>3
<1> QED BY <1>5, <1>6

\* Retention that keeps any keeps the newest.
LEMMA NewestIsKept ==
  ASSUME Typed, Keep > 0, Prune, NEW t \in Spent, \A u \in Spent : u <= t
  PROVE  snaps'[t] = snaps[t]
<1>1. {u \in Spent : u > t} = {}
  BY UpgradeAssumption DEF Spent, Snaps
<1>2. Cardinality({u \in Spent : u > t}) = 0
  BY <1>1, FS_EmptySet
<1>3. Keep \in Nat
  BY UpgradeAssumption
<1> QED BY <1>2, <1>3, SeePrune DEF Spent

\* What makes a snapshot of the engine go away.
LEMMA GoneWith ==
  ASSUME Typed, [Next]_vars, runner = "engine", NEW s \in Snaps, snaps[s] # None, snaps'[s] = None
  PROVE  \/ SnapshotFails /\ s = run.snap
         \/ Prune /\ s \in Spent
         \/ RolledBack /\ s = run.snap /\ ~SavedBack
<1>1. CASE UNCHANGED snaps
  BY <1>1
<1>2. CASE Mkdir
  BY <1>2, SeeMkdir DEF Others
<1>3. CASE Copy
  BY <1>3, SeeCopy DEF Others
<1>4. CASE Manifest
  BY <1>4, SeeManifest DEF Others
<1>5. CASE SnapshotFails
  BY <1>5, SeeSnapshotFails DEF Others
<1>6. CASE RecordPlan
  BY <1>6, SeeRecordPlan DEF Others
<1>7. CASE Confirm
  BY <1>7, SeeConfirm DEF Others
<1>8. CASE Prune
  BY <1>8, SeePrune
<1>9. CASE Recover
  BY <1>9, SeeRecover DEF Others
<1>10. CASE RolledBack
  BY <1>10, SeeRolledBack DEF Others, SavedBack
<1>11. CASE RestoreFails
  BY <1>11, SeeRestoreFails DEF Others
<1> QED BY <1>1, <1>2, <1>3, <1>4, <1>5, <1>6, <1>7, <1>8, <1>9, <1>10, <1>11 DEF Next, vars,
    Start, Load, Migrate, RecordApplied, WritePin, Recompose, Freeze, Raise, GatePasses, GateFails,
    RecordVersion, Accepted, RegatePasses, RegateFails, RestoreSaved, Quarantine, Restore, Write, Kill

\* The invocation takes no snapshot on but its own.
LEMMA SnapOf ==
  ASSUME Typed, [Next]_vars, runner = "engine"
  PROVE  \/ run'.snap = 0 \/ (Mkdir /\ run'.snap = runs)
         \/ RestoreSaved /\ run'.flags = {"saved"}
         \/ run'.snap = run.snap /\ run'.flags = run.flags /\ (run.pc = "accepted" => run'.pc = "accepted")
<1>1. CASE \E flags \in Flags : Start(flags)
  BY <1>1, SeeStart
<1>2. CASE Mkdir
  BY <1>2, SeeMkdir
<1>3. CASE Copy \/ Manifest \/ SnapshotFails \/ Load \/ Migrate \/ RecordApplied \/ WritePin
  BY <1>3, SeeCopy, SeeManifest, SeeSnapshotFails, SeeLoad, SeeMigrate, SeeRecordApplied, SeeWritePin
     DEF Moves, Stays, Rests
<1>4. CASE Recompose \/ Freeze \/ RecordPlan \/ Raise \/ GatePasses \/ GateFails
  BY <1>4, SeeRecompose, SeeFreeze, SeeRecordPlan, SeeRaise, SeeGatePasses, SeeGateFails
     DEF Moves, Stays, Rests, Captures, Takes
<1>5. CASE RecordVersion \/ Confirm \/ Prune \/ Accepted \/ Recover \/ RegatePasses \/ RegateFails
  <2>1. CASE RecordVersion \/ Confirm \/ Prune
    BY <2>1, SeeRecordVersion, SeeConfirm, SeePrune DEF Moves, Stays
  <2>2. CASE Accepted \/ Recover \/ RegatePasses \/ RegateFails
    BY <2>2, SeeAccepted, SeeRecover, SeeRegatePasses, SeeRegateFails DEF Moves, Stays, Rests, Takes
  <2> QED BY <1>5, <2>1, <2>2
<1>6. CASE RestoreSaved
  BY <1>6, SeeRestoreSaved
<1>7. CASE Quarantine \/ Restore \/ RolledBack \/ RestoreFails \/ Kill
  BY <1>7, SeeQuarantine, SeeRestore, SeeRolledBack, SeeRestoreFails, SeeKill DEF Stays, Rests
<1>8. CASE (\E p \in Pages : Write(p)) \/ UNCHANGED vars
  BY <1>8, SeeWrite, SeeNothing
<1> QED BY <1>1, <1>2, <1>3, <1>4, <1>5, <1>6, <1>7, <1>8 DEF Next

\* The only way to tear a rollback is to end it.
LEMMA TornWith ==
  ASSUME Typed, [Next]_vars, ~torn, torn'
  PROVE  (Kill \/ RestoreFails) /\ RollingBack
<1>1. CASE RestoreFails
  BY <1>1, SeeRestoreFails DEF RollingBack
<1>2. CASE Kill
  BY <1>2, SeeKill DEF RollingBack
<1> QED BY <1>1, <1>2 DEF Next, vars, world, history, Start, Mkdir, Copy, Manifest, SnapshotFails, Load, Migrate,
     RecordApplied, WritePin, Recompose, Freeze, RecordPlan, Raise, GatePasses, GateFails,
     RecordVersion, Confirm, Prune, Accepted, Recover, RegatePasses, RegateFails, RestoreSaved,
     Quarantine, Restore, RolledBack, Write

LEMMA RecovStep ==
  ASSUME Typed, Numbered, Own, Goods, SavedOnly, Tallies, Recov, [Next]_vars
  PROVE  Recov'
<1> SUFFICES ASSUME runner = "engine", torn', Keep > 0 PROVE \E s \in Snaps : Lasting(s)'
  BY RunnerStays DEF Recov, Apart
<1>0. 0 \notin Snaps
  BY DEF Snaps
<1>1. CASE ~torn
  <2>1. (Kill \/ RestoreFails) /\ RollingBack /\ torn \in BOOLEAN
    BY <1>1, TornWith DEF Tallies
  <2>2. UNCHANGED snaps /\ run'.snap = 0
    BY <2>1, SeeKill, SeeRestoreFails DEF Rests
  <2>3. run.snap \in Snaps /\ snaps[run.snap] # None /\ snaps[run.snap].whole
    BY <2>1, UpgradeAssumption DEF Typed, IsRun, HasSnap, Restorable, RollingBack, Own, WorkPCs
  <2> QED BY <1>0, <2>2, <2>3 DEF Lasting
<1>2. CASE torn
  <2>1. PICK s \in Snaps : Lasting(s)
    BY <1>2 DEF Recov
  <2>2. CASE snaps'[s] # None
    <3>1. snaps'[s].whole
      <4>1. ~(Mkdir /\ s = runs)
        <5> SUFFICES ASSUME Mkdir, s = runs PROVE FALSE
          OBVIOUS
        <5>1. run.pc = "mkdir" /\ s < s
          BY <2>1, SeeMkdir DEF Numbered, Lasting
        <5> QED BY <5>1 DEF Snaps
      <4> QED BY <2>1, <2>2, <4>1, SnapStep, SeeManifest DEF Lasting
    <3>2. ASSUME s = run'.snap PROVE SavedBack' \/ run'.pc = "accepted"
      <4>1. ~(Mkdir /\ run'.snap = runs)
        <5> SUFFICES ASSUME Mkdir, run'.snap = runs PROVE FALSE
          OBVIOUS
        <5>1. run.pc = "mkdir" /\ s <= runs /\ s < runs /\ s = runs
          BY <2>1, <3>2, SeeMkdir DEF Numbered, Lasting
        <5> QED BY <5>1 DEF Snaps
      <4> QED BY <1>0, <2>1, <3>2, <4>1, SnapOf DEF Lasting, SavedBack
    <3> QED BY <2>2, <3>1, <3>2 DEF Lasting
  <2>3. CASE snaps'[s] = None
    <3>1. CASE Prune /\ s \in Spent
      <4>1. PICK t \in Spent : \A u \in Spent : u <= t
        BY <3>1, NewestSpent
      <4>2. snaps'[t] = snaps[t] /\ t \in Snaps /\ snaps[t] # None /\ snaps[t].whole
        BY <3>1, <4>1, NewestIsKept DEF Spent, Goods
      <4>3. run'.pc = "accepted"
        BY <3>1, SeePrune DEF Moves
      <4> QED BY <4>2, <4>3 DEF Lasting
    <3>2. CASE SnapshotFails /\ s = run.snap
      BY <2>1, <3>2, SeeSnapshotFails DEF Lasting, SavedOnly, RollingBack
    <3>3. CASE RolledBack /\ s = run.snap /\ ~SavedBack
      BY <2>1, <3>3, SeeRolledBack DEF Lasting
    <3> QED BY <2>1, <2>3, <3>1, <3>2, <3>3, GoneWith DEF Lasting
  <2> QED BY <2>2, <2>3
<1> QED BY <1>1, <1>2

-----------------------------------------------------------------------------
(* Claims                                                                  *)

Posted == NewOnly /\ Pins /\ Kepts /\ Goods /\ Recov
Backed == torn \/ (SoundVault /\ SoundTrees /\ FullPlans /\ CopiedSo /\ AppliedSo /\ BackSo /\ GrownSo)

LEMMA InitDisk ==
  ASSUME Init
  PROVE  /\ disk["pin"] = 0 /\ disk["state"] \in {NoState, None}
         /\ \A p \in Pages : disk[p] = IF p \in InitialPages THEN Untouched ELSE None
<1>1. ASSUME NEW f \in Files, f = "pin" PROVE disk[f] = 0
  BY <1>1, UpgradeAssumption DEF Init
<1>2. ASSUME NEW f \in Files, f = "state" PROVE disk[f] \in {NoState, None}
  BY <1>2, UpgradeAssumption DEF Init
<1>3. ASSUME NEW p \in Pages PROVE disk[p] = IF p \in InitialPages THEN Untouched ELSE None
  <2>1. p \in Files /\ p # "pin" /\ p # "state"
    BY FilesAre, UpgradeAssumption
  <2> QED BY <2>1 DEF Init
<1> QED BY <1>1, <1>2, <1>3, FilesAre

LEMMA PostedInit == Init => Posted
<1> SUFFICES ASSUME Init PROVE Posted
  OBVIOUS
<1>1. run.pc = "idle" /\ torn = FALSE /\ \A s \in Snaps : snaps[s] = None
  BY DEF Init, Idle
<1>3. disk["pin"] = 0
  BY InitDisk
<1>4. \A x \in Kept : disk[x] = Untouched
  BY InitDisk, KeptAre DEF Kept
<1>5. Untouched # None
  BY PageIs, Plain
<1> QED BY <1>1, <1>3, <1>4, <1>5 DEF Posted, NewOnly, RollingBack, Pins, Kepts, HasKept, Goods, Recov

LEMMA PostedStep == Steered /\ Posted /\ [Next]_vars => Posted'
<1> SUFFICES ASSUME Steered, Posted, [Next]_vars PROVE Posted'
  OBVIOUS
<1>1. /\ Typed /\ Own /\ Deltas /\ Delta /\ Numbered /\ SavedOnly /\ Tallies
      /\ NewOnly /\ Pins /\ Kepts /\ Goods /\ Recov
  BY DEF Steered, Shaped, Posted
<1>2. NewOnly' /\ Pins' /\ Kepts'
  BY <1>1, NewOnlyStep, PinsStep, KeptsStep
<1>3. Goods' /\ Recov'
  BY <1>1, GoodsStep, RecovStep
<1> QED BY <1>2, <1>3 DEF Posted

LEMMA BackedInit == Init => Backed
<1> SUFFICES ASSUME Init PROVE Backed
  OBVIOUS
<1>1. run.pc = "idle" /\ run.snap = 0 /\ (\A s \in Snaps : snaps[s] = None) /\ runner \in {"engine", "pack"}
  BY UpgradeAssumption DEF Init, Idle
<1>3. disk["pin"] = 0 /\ disk["state"] \in {NoState, None}
  BY InitDisk
<1>4. StateOf(disk) = NoState /\ ClaimOf(disk) = 0
  BY <1>1, <1>3 DEF StateOf, ClaimOf, NoState
<1>5. \A m \in Migs : ~(To[m] <= 0)
  BY UpgradeAssumption
<1>6. Sound(disk)
  BY <1>4, <1>5 DEF Sound, Has, NoState
<1> QED BY <1>1, <1>6 DEF Backed, SoundVault, SoundTrees, FullPlans, CopiedSo, AppliedSo, BackSo, RollingBack,
    GrownSo, TakenPCs, WorkPCs

LEMMA BackedStep == Steered /\ Covered /\ Posted /\ Posted' /\ Backed /\ [Next]_vars => Backed'
<1> SUFFICES ASSUME Steered, Covered, Posted, Posted', Backed, [Next]_vars, ~torn' PROVE Backed'
  BY DEF Backed
<1>1. /\ Typed /\ Own /\ Ways /\ Place /\ Progress /\ Points /\ Sinces /\ Pins /\ Kepts /\ Pins' /\ Kepts'
      /\ Plotted /\ Returning
      /\ SoundVault /\ SoundTrees /\ FullPlans /\ CopiedSo /\ AppliedSo /\ BackSo /\ GrownSo
  BY TornStays DEF Steered, Shaped, Tallies, Sinces, Covered, Posted, Backed
<1>2. SoundVault' /\ SoundTrees' /\ FullPlans'
  BY <1>1, SoundVaultStep, SoundTreesStep, FullPlansStep
<1>3. CopiedSo' /\ AppliedSo' /\ GrownSo'
  BY <1>1, CopiedSoStep, AppliedSoStep, GrownSoStep
<1>4. BackSo'
  BY <1>1, BackSoStep
<1> QED BY <1>2, <1>3, <1>4 DEF Backed

\* No release is claimed for a vault that was not migrated to it, whatever was
\* killed and rolled back before, except while a rollback is on its way and
\* after one was torn.  Of a torn one the theorem says something only with the
\* engine's runner and Keep > 0: the way back is there.  With the pack's runner
\* it is not (PackClaimIsTrue is false of it), and Keep = 0 keeps none.
THEOREM ClaimsAreTrue == Spec => []ClaimIsTrue
<1>1. Steered /\ Posted /\ Backed => ClaimIsTrue
  <2> SUFFICES ASSUME Steered, Posted, Backed, ~RollingBack, ~(torn /\ (runner = "pack" \/ Keep = 0))
               PROVE  Migrated \/ (torn /\ Recoverable)
    BY DEF ClaimIsTrue
  <2>1. CASE ~torn
    <3>1. Sound(disk) /\ State = StateOf(disk) /\ Claimed = ClaimOf(disk)
      BY <2>1, OfDisk DEF Backed, SoundVault
    <3>2. ASSUME NEW m \in Migs, To[m] <= Claimed, NEW p \in Touch[m] \cap InitialPages,
                 p \notin UNION {Drop[n] : n \in Migs}
          PROVE  disk[p] # None /\ disk[p].did[m] > 0
      <4>1. p \in Kept /\ m \in State.applied
        BY <3>1, <3>2 DEF Kept, Sound
      <4> QED BY <3>1, <3>2, <4>1 DEF Sound, Has, Posted, Kepts, HasKept
    <3> QED BY <3>1, <3>2 DEF Migrated, Sound
  <2>2. CASE torn
    <3>1. runner = "engine" /\ Keep > 0 /\ Claimed \in {0, Target}
      BY <2>2, UpgradeAssumption DEF Steered, Shaped, Ways, Posted, Pins, Claimed
    <3>2. CASE Claimed = 0
      BY <3>2, UpgradeAssumption DEF Migrated
    <3>3. CASE Claimed = Target
      <4>1. PICK s \in Snaps : snaps[s] # None /\ snaps[s].whole
        BY <2>2, <3>1 DEF Posted, Recov, Lasting
      <4>2. snaps[s].tree["pin"] = 0
        BY <3>1, <4>1 DEF Posted, Pins, Steered, Points, ClaimOf
      <4>3. 0 < Target
        BY UpgradeAssumption
      <4> QED BY <2>2, <3>1, <3>3, <4>1, <4>2, <4>3 DEF Recoverable
    <3> QED BY <3>1, <3>2, <3>3
  <2> QED BY <2>1, <2>2
<1> QED BY SteeredInit, SteeredStep, CoveredInit, CoveredStep, PostedInit, PostedStep, BackedInit, BackedStep, <1>1,
    PTL DEF Spec

-----------------------------------------------------------------------------
(* Replays                                                                 *)

\* What is recorded went over a page once more than it was cut off, what is
\* not no more often.
Bound(x, ms, c) == \A m \in Migs : x.did[m] <= c[m] + (IF m \in ms THEN 1 ELSE 0)

\* The migrations that are done with page x.
DoneWith(x) == State.applied \cup (IF run.pc = "apply" /\ x \notin run.todo THEN {run.k} ELSE {})

VaultOnce == ~RollingBack =>
  \A x \in Pages \ strays : disk[x] # None => Bound(disk[x], DoneWith(x), cutoff)
TreesOnce == \A s \in Snaps : snaps[s] # None /\ snaps[s].whole =>
  \A x \in Pages \ strays : snaps[s].tree[x] # None =>
    Bound(snaps[s].tree[x], StateOf(snaps[s].tree).applied, cutoff)
CopyOnce  == run.pc = "copy" =>
  \A x \in Pages \ (strays \cup run.todo) : snaps[run.snap].tree[x] # None =>
    Bound(snaps[run.snap].tree[x], State.applied, cutoff)

\* What is not as the snapshot's record has it is on its way.
BackOnce  == RollingBack =>
  \A x \in Pages \ strays :
    \/ disk[x] = None \/ x \in run.added
    \/ x \in run.modified /\ snaps[run.snap].tree[x] # None /\ (run.pc = "restore" => x \in run.todo)
    \/ Bound(disk[x], StateOf(snaps[run.snap].tree).applied, cutoff)

\* An operator's restore that leaves the record alone found it complete.
RecordLeft == RollingBack /\ SavedBack
              /\ snaps[run.snap].plan.image["state"] = snaps[run.snap].tree["state"] => State.applied = Migs

Counts == [Migs -> Nat]

LEMMA BoundMore ==
  ASSUME NEW x \in PageText, NEW ms, NEW ns, NEW c \in Counts, NEW d \in Counts,
         Bound(x, ms, c), ms \subseteq ns, \A m \in Migs : c[m] <= d[m]
  PROVE  Bound(x, ns, d)
<1> SUFFICES ASSUME NEW m \in Migs PROVE x.did[m] <= d[m] + (IF m \in ns THEN 1 ELSE 0)
  BY DEF Bound
<1>1. x.did[m] \in Nat /\ c[m] \in Nat /\ d[m] \in Nat /\ c[m] <= d[m]
  BY DEF PageText, Counts
<1>2. x.did[m] <= c[m] + (IF m \in ms THEN 1 ELSE 0)
  BY DEF Bound
<1> QED BY <1>1, <1>2

LEMMA BoundNew ==
  ASSUME NEW x, x.did = Untouched.did, NEW ms, NEW c \in Counts
  PROVE  Bound(x, ms, c)
BY DEF Bound, Untouched, Counts

LEMMA BoundAs ==
  ASSUME NEW x, NEW y, x.did = y.did, NEW ms, NEW c, Bound(y, ms, c)
  PROVE  Bound(x, ms, c)
BY DEF Bound

\* Cuts are counted up, and only a migration that is being applied is cut
\* off.
LEMMA CutsGrow ==
  ASSUME Typed, Tallies, Tallies', [Next]_vars
  PROVE  /\ cutoff \in Counts /\ cutoff' \in Counts /\ \A m \in Migs : cutoff[m] <= cutoff'[m]
         /\ cutoff' = cutoff \/ (CutOff /\ run.pc = "apply" /\ (Raise \/ Kill))
<1>1. cutoff \in Counts /\ cutoff' \in Counts
  BY DEF Tallies, Counts
<1>2. cutoff' = cutoff \/ (CutOff /\ run.pc = "apply" /\ (Raise \/ Kill))
  <2>1. CASE Raise
    BY <2>1, SeeRaise DEF CutOff, At
  <2>2. CASE Kill
    BY <2>2, SeeKill DEF CutOff, At
  <2> QED BY <2>1, <2>2 DEF Next, vars, world, history, Start, Mkdir, Copy, Manifest, SnapshotFails, Load, Migrate,
     RecordApplied, WritePin, Recompose, Freeze, RecordPlan, GatePasses, GateFails,
     RecordVersion, Confirm, Prune, Accepted, Recover, RegatePasses, RegateFails, RestoreSaved,
     Quarantine, Restore, RolledBack, RestoreFails, Write
<1>3. \A m \in Migs : cutoff[m] <= cutoff'[m]
  <2>1. CASE cutoff' = cutoff
    BY <1>1, <2>1 DEF Counts
  <2>2. CASE CutOff /\ run.pc = "apply"
    BY <1>1, <2>2 DEF CutOff, At, Counts
  <2> QED BY <1>2, <2>1, <2>2
<1> QED BY <1>1, <1>2, <1>3

LEMMA StraysGrow == ASSUME Typed, [Next]_vars PROVE strays \subseteq strays'
<1>1. CASE RestoreSaved
  BY <1>1, SeeRestoreSaved
<1> QED BY <1>1 DEF Next, vars, world, history, Start, Mkdir, Copy, Manifest, SnapshotFails, Load, Migrate,
     RecordApplied, WritePin, Recompose, Freeze, RecordPlan, Raise, GatePasses, GateFails,
     RecordVersion, Confirm, Prune, Accepted, Recover, RegatePasses, RegateFails,
     Quarantine, Restore, RolledBack, RestoreFails, Kill, Write

\* Who is at work on a migration.
LEMMA AtApply ==
  ASSUME Typed, [Next]_vars, run.pc = "apply"
  PROVE  \/ Migrate \/ RecordApplied \/ Raise \/ Kill
         \/ (\E p \in Pages : Write(p)) \/ UNCHANGED vars
BY DEF Next, At, Start, Mkdir, Copy, Manifest, SnapshotFails, Load, WritePin, Recompose, Freeze, RecordPlan,
   GatePasses, GateFails, RecordVersion, Confirm, Prune, Accepted, Recover, RegatePasses, RegateFails,
   RestoreSaved, Quarantine, Restore, RolledBack, RestoreFails

\* The record of a rollback's snapshot, when the rollback is through.
LEMMA RecordedAgain ==
  ASSUME Typed, Own, Ways, Sinces, Points, Returning, RecordLeft, RolledBack
  PROVE  StateOf(snaps[run.snap].tree).applied \subseteq State.applied
<1>1. /\ run.pc = "restore" /\ run.todo = {} /\ run.snap \in Snaps /\ snaps[run.snap] # None /\ RollingBack
  BY SeeRolledBack, UpgradeAssumption DEF Typed, IsRun, HasSnap, Restorable, RollingBack
<1> DEFINE tree  == snaps[run.snap].tree
           image == snaps[run.snap].plan.image
<1>2. "state" \in Files /\ "state" \notin since[run.snap]
  BY <1>1, FilesAre, UpgradeAssumption DEF Sinces
<1>3. \/ disk["state"] = tree["state"]
      \/ SavedBack /\ image["state"] = tree["state"]
  BY <1>1, <1>2, Through
<1>4. CASE disk["state"] = tree["state"]
  BY <1>4 DEF StateOf, State
<1>5. CASE SavedBack /\ image["state"] = tree["state"]
  <2>1. State.applied = Migs
    BY <1>1, <1>5 DEF RecordLeft
  <2>2. IsVault(tree)
    BY <1>1 DEF Typed, Saved, IsSnap
  <2>3. StateOf(tree).applied \subseteq Migs
    BY <2>2, FilesAre DEF IsVault, Holdable, StateOf, StateRec, NoState
  <2> QED BY <2>1, <2>3
<1> QED BY <1>3, <1>4, <1>5

LEMMA RecordLeftStep ==
  ASSUME Typed, Own, Ways, Sinces, SavedOnly, NewOnly, Points, Pins, Plotted, Returning, SoundVault, FullPlans, RecordLeft,
         [Next]_vars
  PROVE  RecordLeft'
<1> SUFFICES ASSUME RollingBack', SavedBack',
                    snaps'[run'.snap].plan.image["state"] = snaps'[run'.snap].tree["state"]
             PROVE  State'.applied = Migs
  BY DEF RecordLeft
<1>1. CASE ~RollingBack
  <2>1. RestoreSaved
    BY <1>1, RollIn, SeeRaise, SeeGateFails, SeeRegateFails DEF Captures, Takes, Moves, Stays, SavedBack, SavedOnly
  <2>2. PICK s \in Snaps :
          /\ UNCHANGED <<disk, snaps>> /\ snaps[s] # None /\ snaps[s].plan # None /\ run'.snap = s
          /\ \A f \in snaps[s].plan.added \cup snaps[s].plan.modified : disk[f] = snaps[s].plan.image[f]
    BY <2>1, SeeRestoreSaved DEF Vault
  <2> DEFINE named == snaps[s].plan.added \cup snaps[s].plan.modified
             image == snaps[s].plan.image
             tree  == snaps[s].tree
  <2>3. /\ ClaimOf(tree) # Target /\ image["state"] = tree["state"]
        /\ runner = "pack" => PendingOf(tree) # {} /\ PendingOf(image) = {}
        /\ runner = "engine" => image["pin"] = Target
    BY <2>2 DEF Points
  <2>4. runner = "engine"
    BY <2>3 DEF PendingOf, ClaimOf, StateOf, Ways
  <2>5. "pin" \in named
    <3>1. "pin" \in Files /\ "pin" \notin Pages /\ Target # None
      BY FilesAre, Plain, UpgradeAssumption
    <3>2. "pin" \in named \/ image["pin"] = None \/ image["pin"] = tree["pin"]
      BY <1>1, <2>2, <3>1 DEF Plotted, PlanIs, Same, Sinces
    <3> QED BY <2>3, <2>4, <3>1, <3>2 DEF ClaimOf
  <2>6. Claimed = Target /\ State' = State
    BY <2>2, <2>3, <2>4, <2>5 DEF Claimed, State
  <2> QED BY <1>1, <2>6, AllRecorded DEF SoundVault
<1>2. CASE RollingBack
  <2>1. Quarantine \/ Restore \/ (\E p \in Pages : Write(p)) \/ UNCHANGED vars
    BY <1>2, RollIn
  <2>2. snaps' = snaps /\ run'.snap = run.snap /\ run'.flags = run.flags
    BY <2>1, SeeQuarantine, SeeRestore, SeeWrite, SeeNothing DEF Stays
  <2>3. /\ State.applied = Migs /\ snaps[run.snap].plan # None
        /\ snaps[run.snap].plan.image["state"] = snaps[run.snap].tree["state"]
    BY <1>2, <2>2 DEF RecordLeft, Returning, SavedBack
  <2>4. run.snap \in Snaps /\ snaps[run.snap] # None
    BY <1>2, UpgradeAssumption DEF Typed, IsRun, HasSnap, Restorable, RollingBack
  <2>5. StateOf(snaps[run.snap].tree).applied = Migs
    BY <2>3, <2>4 DEF FullPlans, StateOf
  <2>6. \/ disk'["state"] = disk["state"]
        \/ Quarantine /\ "state" \in run.added /\ disk'["state"] = None
        \/ Restore /\ disk'["state"] = snaps[run.snap].tree["state"]
    <3>1. "state" \in Files /\ "state" \notin Pages /\ "pin" # "state"
      BY FilesAre, UpgradeAssumption
    <3>2. ~(RecordApplied \/ RecordVersion)
      BY <1>2, SeeRecordApplied, SeeRecordVersion DEF RollingBack
    <3> QED BY <3>1, <3>2, DiskStep
  <2>7. CASE disk'["state"] = disk["state"]
    BY <2>3, <2>7 DEF State
  <2>8. CASE "state" \in run.added /\ disk'["state"] = None
    <3>1. snaps[run.snap].tree["state"] = None
      BY <1>2, <2>8 DEF NewOnly
    <3> QED BY <2>5, <2>8, <3>1 DEF State, StateOf
  <2>9. CASE disk'["state"] = snaps[run.snap].tree["state"]
    BY <2>5, <2>9 DEF State, StateOf
  <2> QED BY <2>6, <2>7, <2>8, <2>9
<1> QED BY <1>1, <1>2

LEMMA TreesOnceStep ==
  ASSUME Typed, Own, Kepts, Tallies, Tallies', TreesOnce, CopyOnce, [Next]_vars
  PROVE  TreesOnce'
<1> SUFFICES ASSUME NEW s \in Snaps, snaps'[s] # None, snaps'[s].whole,
                    NEW x \in Pages \ strays', snaps'[s].tree[x] # None
             PROVE  Bound(snaps'[s].tree[x], StateOf(snaps'[s].tree).applied, cutoff')
  BY DEF TreesOnce, StateOf
<1>0. x \in Pages \ strays /\ cutoff \in Counts /\ cutoff' \in Counts /\ \A m \in Migs : cutoff[m] <= cutoff'[m]
  BY StraysGrow, CutsGrow
<1>1. CASE snaps[s] # None /\ snaps'[s].tree = snaps[s].tree
  <2>1. snaps[s].whole \/ (Manifest /\ s = run.snap)
    BY <1>1, SnapStep, SeeMkdir
  <2> DEFINE tree == snaps[s].tree
  <2>2. tree[x] # None /\ tree[x] \in PageText
    BY <1>0, <1>1, PagesAre
  <2>3. Bound(tree[x], StateOf(tree).applied, cutoff)
    <3>1. CASE snaps[s].whole
      BY <1>0, <1>1, <2>2, <3>1 DEF TreesOnce
    <3>2. CASE Manifest /\ s = run.snap
      <4>1. run.pc = "copy" /\ run.todo = {}
        BY <3>2, SeeManifest
      <4>2. StateOf(tree) = State
        BY <3>2, <4>1 DEF Kepts, StateOf, State
      <4> QED BY <1>0, <2>2, <3>2, <4>1, <4>2 DEF CopyOnce
    <3> QED BY <2>1, <3>1, <3>2
  <2> HIDE DEF tree
  <2>4. Bound(tree[x], StateOf(tree).applied, cutoff')
    BY <1>0, <2>2, <2>3, BoundMore
  <2> QED BY <1>1, <2>4 DEF tree
<1>2. CASE Copy /\ s = run.snap /\ snaps'[s].whole = snaps[s].whole
  BY <1>2, SeeCopy DEF Own
<1> QED BY <1>1, <1>2, NewTree

LEMMA CopyOnceStep ==
  ASSUME Typed, Own, Kepts, Tallies, Tallies', VaultOnce, CopyOnce, [Next]_vars
  PROVE  CopyOnce'
<1> SUFFICES ASSUME run'.pc = "copy", NEW x \in Pages \ (strays' \cup run'.todo), snaps'[run'.snap].tree[x] # None
             PROVE  Bound(snaps'[run'.snap].tree[x], State'.applied, cutoff')
  BY DEF CopyOnce
<1>0. x \in Pages \ strays /\ x \in Files
  BY StraysGrow, FilesAre
<1>1. CASE Mkdir
  <2>1. run'.snap = runs /\ runs \in Snaps
        /\ snaps'[runs] = [tree |-> [f \in Files |-> IF f \in Pages THEN None ELSE disk[f]],
                           whole |-> FALSE, plan |-> None, good |-> FALSE]
    BY <1>1, SeeMkdir
  <2> QED BY <1>0, <2>1
<1>2. CASE Copy
  <2>1. PICK f \in run.todo :
         /\ run'.snap = run.snap /\ run.pc = "copy" /\ UNCHANGED <<disk, cutoff>>
         /\ run'.todo = run.todo \ {f} /\ f \in Pages
         /\ run.snap \in Snaps =>
            \A g \in Files : snaps'[run.snap].tree[g] = IF g = f THEN disk[f] ELSE snaps[run.snap].tree[g]
    BY <1>2, SeeCopy DEF Stays, Vault, Quiet
  <2>2. run.snap \in Snaps /\ State' = State
    BY <2>1 DEF Own, State
  <2>3. CASE x = f
    <3>1. Bound(disk[x], DoneWith(x), cutoff) /\ DoneWith(x) = State.applied
      BY <1>0, <2>1, <2>2, <2>3 DEF VaultOnce, RollingBack, DoneWith
    <3> QED BY <1>0, <2>1, <2>2, <2>3, <3>1
  <2>4. CASE x # f
    BY <1>0, <2>1, <2>2, <2>4 DEF CopyOnce
  <2> QED BY <2>3, <2>4
<1>3. CASE run' = run /\ snaps' = snaps /\ run.pc = "copy"
  <2>1. ~Claiming
    BY <1>3, SeeRecordApplied, SeeWritePin, SeeRecordVersion, SeeQuarantine, SeeRestore DEF Claiming
  <2>2. State' = State /\ cutoff' = cutoff
    BY <1>3, <2>1, ClaimStays, CutsGrow
  <2> QED BY <1>0, <1>3, <2>2 DEF CopyOnce
<1> QED BY <1>1, <1>2, <1>3, CopyOn

\* A page that others wrote was gone over as often as before.
LEMMA WrittenSo ==
  ASSUME Typed, NEW p \in Pages, Write(p), NEW ms, NEW c \in Counts,
         disk[p] # None => Bound(disk[p], ms, c)
  PROVE  Bound(disk'[p], ms, c)
<1>1. disk'[p].did = IF disk[p] = None THEN Untouched.did ELSE disk[p].did
  BY SeeWrite
<1>2. CASE disk[p] = None
  BY <1>1, <1>2, BoundNew
<1>3. CASE disk[p] # None
  BY <1>1, <1>3, BoundAs
<1> QED BY <1>2, <1>3

LEMMA VaultOnceStep ==
  ASSUME Typed, Own, Ways, Sinces, Place, Progress, Points, Returning, Tallies, Tallies', RecordLeft, VaultOnce, BackOnce,
         ~torn', [Next]_vars
  PROVE  VaultOnce'
<1> SUFFICES ASSUME ~RollingBack', NEW x \in Pages \ strays', disk'[x] # None
             PROVE  Bound(disk'[x], DoneWith(x)', cutoff')
  BY DEF VaultOnce
<1>0. /\ x \in Pages \ strays /\ x \in Files /\ x # "state" /\ x # "pin"
      /\ cutoff \in Counts /\ cutoff' \in Counts /\ \A m \in Migs : cutoff[m] <= cutoff'[m]
      /\ disk[x] # None => disk[x] \in PageText
      /\ State'.applied \subseteq DoneWith(x)'
  BY StraysGrow, CutsGrow, PagesAre DEF DoneWith
<1>1. CASE RollingBack
  <2>1. RolledBack
    BY <1>1, RollOn
  <2>2. UNCHANGED disk /\ run.pc = "restore" /\ run.todo = {} /\ run.added = {}
    BY <1>1, <2>1, SeeRolledBack DEF Vault, Returning
  <2>3. Bound(disk[x], StateOf(snaps[run.snap].tree).applied, cutoff)
    BY <1>0, <1>1, <2>2 DEF BackOnce
  <2>4. StateOf(snaps[run.snap].tree).applied \subseteq DoneWith(x)'
    BY <1>0, <2>1, <2>2, RecordedAgain DEF State
  <2> QED BY <1>0, <2>2, <2>3, <2>4, BoundMore
<1> SUFFICES ASSUME ~RollingBack PROVE Bound(disk'[x], DoneWith(x)', cutoff')
  BY <1>1
<1>2. disk[x] # None => Bound(disk[x], DoneWith(x), cutoff)
  BY <1>0 DEF VaultOnce
<1>3. ~Quarantine /\ ~Restore
  BY SeeQuarantine, SeeRestore DEF RollingBack
<1>4. CASE Migrate
  <2>1. PICK p \in run.todo :
          /\ p \in Pages /\ run'.todo = run.todo \ {p} /\ run'.k = run.k /\ run.k \in Migs
          /\ run.pc = "apply" /\ run'.pc = "apply" /\ UNCHANGED cutoff
          /\ \A f \in Files : disk'[f] = IF f = p THEN Output(run.k, p) ELSE disk[f]
    BY <1>4, SeeMigrate DEF Stays, Quiet
  <2>2. State' = State
    BY <1>4, ClaimStays, SeeMigrate, SeeRecordApplied, SeeWritePin, SeeRecordVersion DEF Claiming, Migrate,
       RecordApplied, WritePin, RecordVersion, At, Quarantine, Restore, State
  <2>3. CASE x # p
    <3>1. disk'[x] = disk[x] /\ DoneWith(x)' = DoneWith(x)
      BY <1>0, <2>1, <2>2, <2>3 DEF DoneWith
    <3> QED BY <1>2, <2>1, <3>1
  <2>4. CASE x = p
    <3>1. DoneWith(x) = State.applied /\ DoneWith(x)' = State.applied \cup {run.k}
      BY <2>1, <2>2, <2>4 DEF DoneWith
    <3>2. run.k \notin State.applied
      <4>1. run.k \in Pending
        BY <2>1 DEF Progress
      <4> QED BY <4>1 DEF Pending
    <3>3. disk'[x] = Output(run.k, x)
      BY <1>0, <2>1, <2>4
    <3>4. CASE disk[x] # None
      <4>1. \A n \in Migs : disk'[x].did[n] = disk[x].did[n] + (IF n = run.k THEN 1 ELSE 0)
        BY <2>1, <2>4, <3>3, <3>4, OutputIs
      <4>2. Bound(disk[x], State.applied, cutoff) /\ disk[x] \in PageText
        BY <1>0, <1>2, <3>1, <3>4
      <4>3. ASSUME NEW n \in Migs
            PROVE  disk'[x].did[n] <= cutoff[n] + (IF n \in State.applied \cup {run.k} THEN 1 ELSE 0)
        <5>1. disk[x].did[n] \in Nat /\ cutoff[n] \in Nat
              /\ disk[x].did[n] <= cutoff[n] + (IF n \in State.applied THEN 1 ELSE 0)
          BY <1>0, <4>2 DEF Bound, PageText, Counts
        <5> QED BY <3>2, <4>1, <5>1
      <4> QED BY <2>1, <3>1, <4>3 DEF Bound
    <3>5. CASE disk[x] = None
      <4>1. \A n \in Migs : disk'[x].did[n] = IF n = run.k THEN 1 ELSE 0
        BY <2>1, <2>4, <3>3, <3>5, OutputIs
      <4>2. \A n \in Migs : cutoff[n] \in Nat
        BY <1>0 DEF Counts
      <4> QED BY <2>1, <3>1, <4>1, <4>2 DEF Bound
    <3> QED BY <3>4, <3>5
  <2> QED BY <2>3, <2>4
<1>5. CASE RecordApplied
  <2>1. /\ State'.applied = State.applied \cup {run.k} /\ disk'[x] = disk[x] /\ run.pc = "apply" /\ run.todo = {}
    BY <1>0, <1>5, RecordedIsDone, SeeRecordApplied
  <2>2. DoneWith(x) = State'.applied
    BY <2>1 DEF DoneWith
  <2>3. DoneWith(x) \subseteq DoneWith(x)'
    BY <1>0, <2>2
  <2>4. disk[x] \in PageText /\ Bound(disk[x], DoneWith(x), cutoff)
    BY <1>0, <1>2, <2>1
  <2> QED BY <1>0, <2>1, <2>3, <2>4, BoundMore
<1>6. CASE \E p \in Pages : Write(p)
  <2>1. PICK p \in Pages : Write(p)
    BY <1>6
  <2>2. State' = State /\ cutoff' = cutoff /\ run' = run
    <3>1. disk'["state"] = disk["state"]
      BY <2>1, SeeWrite, FilesAre, UpgradeAssumption
    <3> QED BY <2>1, <3>1, SeeWrite DEF State
  <2>3. DoneWith(x)' = DoneWith(x)
    BY <2>2 DEF DoneWith
  <2>4. CASE x = p
    BY <1>0, <1>2, <2>1, <2>2, <2>3, <2>4, WrittenSo
  <2>5. CASE x # p
    <3>1. disk'[x] = disk[x]
      BY <1>0, <2>1, <2>5, SeeWrite
    <3> QED BY <1>2, <2>2, <2>3, <3>1
  <2> QED BY <2>4, <2>5
<1>7. CASE CutOff /\ run.pc = "apply" /\ (Raise \/ Kill)
  <2>1. UNCHANGED disk /\ cutoff' = [cutoff EXCEPT ![run.k] = @ + 1] /\ run.k \in Migs
    BY <1>7, SeeRaise, SeeKill DEF CutOff, At, Vault, Typed, IsRun
  <2>2. State' = State
    BY <2>1 DEF State
  <2>3. ASSUME NEW m \in Migs PROVE disk[x].did[m] <= cutoff'[m] + (IF m \in State.applied THEN 1 ELSE 0)
    <3>1. /\ disk[x].did[m] \in Nat /\ cutoff[m] \in Nat
          /\ disk[x].did[m] <= cutoff[m] + (IF m \in DoneWith(x) THEN 1 ELSE 0)
      BY <1>0, <1>2, <2>1 DEF Bound, PageText, Counts
    <3>2. cutoff'[m] = cutoff[m] + (IF m = run.k THEN 1 ELSE 0)
      BY <1>0, <2>1, <3>1 DEF Counts
    <3>3. m \in DoneWith(x) => m \in State.applied \/ m = run.k
      BY DEF DoneWith
    <3> QED BY <3>1, <3>2, <3>3
  <2>4. Bound(disk'[x], State.applied, cutoff')
    BY <2>1, <2>3 DEF Bound
  <2>5. disk[x] \in PageText /\ disk'[x] = disk[x]
    BY <1>0, <2>1
  <2> QED BY <1>0, <2>2, <2>4, <2>5, BoundMore, CutsGrow DEF Counts
<1>8. CASE ~Migrate /\ ~RecordApplied /\ ~(\E p \in Pages : Write(p)) /\ cutoff' = cutoff
           /\ ~(CutOff /\ run.pc = "apply" /\ (Raise \/ Kill))
  <2>1. disk'[x] = disk[x]
    BY <1>0, <1>3, <1>8, DiskStep
  <2>2. CASE run.pc = "apply" /\ UNCHANGED vars
    <3>1. DoneWith(x)' = DoneWith(x)
      BY <2>2 DEF vars, DoneWith, State
    <3> QED BY <1>2, <1>8, <2>1, <3>1
  <2>3. CASE run.pc = "apply" /\ Raise
    <3>1. RollingBack' \/ CutOff
      BY <2>3, SeeRaise DEF Captures, Takes, RollingBack
    <3> QED BY <1>8, <2>3, <3>1
  <2>4. CASE run.pc # "apply"
    <3>1. DoneWith(x) = State.applied
      BY <2>4 DEF DoneWith
    <3>2. State.applied \subseteq State'.applied
      <4>1. CASE WritePin
        BY <4>1, SeeWritePin, FilesAre, UpgradeAssumption DEF State
      <4>2. CASE RecordVersion
        BY <4>2, SeeRecordVersion DEF State
      <4> QED BY <1>3, <1>8, <4>1, <4>2, ClaimStays DEF Claiming
    <3>3. DoneWith(x) \subseteq DoneWith(x)'
      BY <1>0, <3>1, <3>2
    <3> QED BY <1>0, <1>2, <2>1, <3>3, BoundMore
  <2> QED BY <1>8, <2>2, <2>3, <2>4, AtApply, SeeKill
<1> QED BY <1>4, <1>5, <1>6, <1>7, <1>8, CutsGrow

\* What is the same as a bounded page but for edits is bounded.
LEMMA SameBound ==
  ASSUME NEW S, NEW f, NEW x, NEW y, Same(S, f, x, y), x # None, NEW ms, NEW c \in Counts,
         y # None => Bound(y, ms, c)
  PROVE  Bound(x, ms, c)
BY BoundNew, BoundAs DEF Same, OnlyEdited

LEMMA BackOnceFrom ==
  ASSUME Typed, Own, Sinces, SavedOnly, Deltas, Plotted, Returning', Tallies, TreesOnce, [Next]_vars,
         ~RollingBack, RollingBack', NEW x \in Pages \ strays', disk'[x] # None, x \notin run'.added,
         ~(x \in run'.modified /\ snaps'[run'.snap].tree[x] # None)
  PROVE  Bound(disk'[x], StateOf(snaps'[run'.snap].tree).applied, cutoff)
<1>0. /\ x \in Pages \ strays /\ x \in Files /\ cutoff \in Counts /\ Typed'
  BY StraysGrow, FilesAre, TypedStep DEF Tallies, Counts
<1>1. UNCHANGED <<disk, snaps>> /\ run'.pc = "quarantine" /\ run'.snap \in Snaps
      /\ snaps[run'.snap] # None /\ snaps[run'.snap].whole
  <2>1. UNCHANGED <<disk, snaps>> /\ run'.pc = "quarantine"
    BY RollIn, SeeRaise, SeeGateFails, SeeRegateFails, SeeRestoreSaved DEF Captures, Takes, Moves, Vault
  <2>2. run'.snap \in Snaps /\ snaps[run'.snap] # None
    <3>1. run'.snap \in Snaps \cup {0} /\ run'.snap # 0 /\ snaps'[run'.snap] # None
      BY <1>0, <2>1, UpgradeAssumption DEF Typed, IsRun, HasSnap, Restorable
    <3> QED BY <2>1, <3>1
  <2>3. snaps[run'.snap].whole
    <3>1. CASE RestoreSaved
      BY <3>1, SeeRestoreSaved
    <3>2. CASE run.pc \in WorkPCs /\ run.snap # 0 /\ run'.snap = run.snap
      BY <3>2 DEF Own
    <3>3. RestoreSaved \/ (run.pc \in WorkPCs /\ run.snap # 0 /\ run'.snap = run.snap)
      BY RollIn, SeeRaise, SeeGateFails, SeeRegateFails DEF Captures, Takes, Moves, Stays, WorkPCs
    <3> QED BY <3>1, <3>2, <3>3
  <2> QED BY <2>1, <2>2, <2>3
<1> DEFINE tree  == snaps[run'.snap].tree
           image == snaps[run'.snap].plan.image
           ms    == StateOf(tree).applied
<1>2. tree[x] # None => Bound(tree[x], ms, cutoff)
  BY <1>0, <1>1 DEF TreesOnce
<1>3. \/ Same(since'[run'.snap], x, disk[x], tree[x])
      \/ x \in run'.added
      \/ tree[x] # None /\ (x \in run'.modified \/ disk[x] = None)
      \/ SavedBack' /\ x \notin snaps[run'.snap].plan.added \cup snaps[run'.snap].plan.modified
         /\ Same(since'[run'.snap], x, image[x], tree[x])
  BY <1>0, <1>1 DEF Returning, Back
<1>4. CASE Same(since'[run'.snap], x, disk[x], tree[x])
  <2> HIDE DEF tree, ms
  <2>1. Bound(disk[x], ms, cutoff)
    BY <1>0, <1>1, <1>2, <1>4, SameBound
  <2> QED BY <1>1, <2>1 DEF ms, tree
<1>5. CASE SavedBack' /\ x \notin snaps[run'.snap].plan.added \cup snaps[run'.snap].plan.modified
           /\ Same(since'[run'.snap], x, image[x], tree[x])
  <2>1. RestoreSaved
    BY <1>5, RollIn, SeeRaise, SeeGateFails, SeeRegateFails DEF Captures, Takes, Moves, Stays, SavedBack, SavedOnly
  <2>2. OnlyEdited(disk[x], image[x])
    BY <1>1, <1>5, <2>1, SeeRestoreSaved
  <2> HIDE DEF tree, image, ms
  <2>3. image[x] # None => Bound(image[x], ms, cutoff)
    BY <1>0, <1>2, <1>5, SameBound
  <2>4. Bound(disk[x], ms, cutoff)
    BY <1>0, <2>2, <2>3, BoundNew, BoundAs DEF OnlyEdited
  <2> QED BY <1>1, <2>4 DEF ms, tree
<1> QED BY <1>1, <1>3, <1>4, <1>5

LEMMA BackOnceStep ==
  ASSUME Typed, Own, Sinces, SavedOnly, Deltas, Plotted, Returning, Returning', Tallies, Tallies', TreesOnce, BackOnce,
         ~torn', [Next]_vars
  PROVE  BackOnce'
<1> SUFFICES ASSUME RollingBack', NEW x \in Pages \ strays', disk'[x] # None, x \notin run'.added,
                    ~(x \in run'.modified /\ snaps'[run'.snap].tree[x] # None /\ (run'.pc = "restore" => x \in run'.todo))
             PROVE  Bound(disk'[x], StateOf(snaps'[run'.snap].tree).applied, cutoff')
  BY DEF BackOnce, StateOf, Bound
<1>0. /\ x \in Pages \ strays /\ x \in Files /\ cutoff \in Counts
  BY StraysGrow, CutsGrow, FilesAre
<1>1. CASE ~RollingBack
  <2>1. cutoff' = cutoff /\ run'.pc = "quarantine"
    <3>1. run'.pc = "quarantine"
      BY <1>1, RollIn, SeeRaise, SeeGateFails, SeeRegateFails, SeeRestoreSaved DEF Captures, Takes, Moves
    <3>2. cutoff' = cutoff
      BY <1>1, RollIn, SeeRaise, SeeGateFails, SeeRegateFails, SeeRestoreSaved DEF Captures, Takes, Rests, Quiet
    <3> QED BY <3>1, <3>2
  <2> QED BY <1>1, <2>1, BackOnceFrom
<1>2. CASE RollingBack
  <2>1. Quarantine \/ Restore \/ (\E p \in Pages : Write(p)) \/ UNCHANGED vars
    BY <1>2, RollIn
  <2>2. snaps' = snaps /\ run'.snap = run.snap /\ run'.modified = run.modified /\ cutoff' = cutoff
    BY <2>1, SeeQuarantine, SeeRestore, SeeWrite, SeeNothing DEF Stays, Quiet
  <2>3. run.snap \in Snaps /\ snaps[run.snap] # None /\ snaps[run.snap].whole
    BY <1>2, UpgradeAssumption DEF Typed, IsRun, HasSnap, Restorable, RollingBack, Own, WorkPCs
  <2> DEFINE tree == snaps[run.snap].tree
             ms   == StateOf(tree).applied
  <2>4. tree[x] # None => Bound(tree[x], ms, cutoff)
    BY <1>0, <2>3 DEF TreesOnce
  <2>5. \/ disk[x] = None \/ x \in run.added
        \/ x \in run.modified /\ tree[x] # None /\ (run.pc = "restore" => x \in run.todo)
        \/ Bound(disk[x], ms, cutoff)
    BY <1>0, <1>2 DEF BackOnce
  <2>6. ~(x \in run'.modified /\ tree[x] # None /\ (run'.pc = "restore" => x \in run'.todo))
    BY <2>2
  <2> SUFFICES Bound(disk'[x], ms, cutoff)
    BY <2>2
  <2> HIDE DEF ms
  <2>7. CASE Quarantine
    <3>1. CASE \E f \in run.added :
                 /\ f \in Files /\ run'.pc = "quarantine" /\ run'.added = run.added \ {f}
                 /\ \A g \in Files : disk'[g] = IF g = f THEN None ELSE disk[g]
      BY <1>0, <2>2, <2>5, <2>6, <3>1
    <3>2. CASE /\ run.added = {} /\ run'.pc = "restore" /\ UNCHANGED disk
               /\ run'.todo = {f \in Files : snaps[run.snap].tree[f] # None}
      BY <1>0, <2>2, <2>5, <2>6, <3>2
    <3> QED BY <2>7, <3>1, <3>2, SeeQuarantine
  <2>8. CASE Restore
    <3>1. run.pc = "restore" /\ run'.pc = "restore" /\ run.added = {}
      BY <1>2, <2>8, SeeRestore DEF Returning
    <3>2. PICK f \in run.todo :
              /\ f \in Files /\ run'.todo = run.todo \ {f}
              /\ tree[f] # None
              /\ \A g \in Files \ {f} : disk'[g] = disk[g]
              /\ \/ disk'[f] = disk[f] /\ disk[f] # None /\ f \notin run.modified
                 \/ disk'[f] = tree[f] /\ (disk[f] = None \/ f \in run.modified)
      BY <2>8, SeeRestore
    <3>3. CASE x = f
      <4>1. CASE disk'[f] = tree[f]
        BY <2>4, <3>2, <3>3, <4>1
      <4>2. CASE disk'[f] = disk[f] /\ f \notin run.modified
        BY <2>5, <3>1, <3>3, <4>2
      <4> QED BY <3>2, <4>1, <4>2
    <3>4. CASE x # f
      BY <1>0, <2>2, <2>5, <2>6, <3>1, <3>2, <3>4
    <3> QED BY <3>3, <3>4
  <2>9. CASE \E p \in Pages : Write(p)
    <3>1. PICK p \in Pages : Write(p)
      BY <2>9
    <3>2. run' = run
      BY <3>1, SeeWrite
    <3>3. CASE x # p
      BY <1>0, <2>2, <2>5, <2>6, <3>1, <3>2, <3>3, SeeWrite
    <3>4. CASE x = p
      BY <1>0, <2>2, <2>5, <2>6, <3>1, <3>2, <3>4, WrittenSo
    <3> QED BY <3>3, <3>4
  <2>10. CASE UNCHANGED vars
    BY <2>5, <2>6, <2>10 DEF vars
  <2> QED BY <2>1, <2>7, <2>8, <2>9, <2>10
<1> QED BY <1>1, <1>2

LEMMA ReplayStep ==
  ASSUME Typed, Own, Tallies, Tallies', TreesOnce, VaultOnce', OneReplayPerCut, ~torn, ~torn', [Next]_vars
  PROVE  OneReplayPerCut'
<1> SUFFICES ASSUME NEW x \in Pages \ strays', NEW m \in Migs, disk'[x] # None
             PROVE  disk'[x].did[m] <= 1 + cutoff'[m]
  BY DEF OneReplayPerCut
<1>0. /\ x \in Pages \ strays /\ x \in Files /\ cutoff \in Counts /\ cutoff' \in Counts /\ cutoff[m] <= cutoff'[m]
      /\ Typed'
  BY StraysGrow, CutsGrow, FilesAre, TypedStep
<1>1. cutoff[m] \in Nat /\ cutoff'[m] \in Nat
  BY <1>0 DEF Counts
<1>2. disk'[x] \in PageText
  BY <1>0, FilesAre DEF Typed, IsVault
<1>3. disk'[x].did[m] \in Nat
  BY <1>2 DEF PageText
<1>4. CASE ~RollingBack'
  <2>1. Bound(disk'[x], DoneWith(x)', cutoff')
    BY <1>4 DEF VaultOnce
  <2>2. disk'[x].did[m] <= cutoff'[m] + (IF m \in DoneWith(x)' THEN 1 ELSE 0)
    BY <2>1 DEF Bound
  <2> QED BY <1>1, <1>3, <2>2
<1>5. CASE RollingBack'
  <2>1. disk[x] # None => disk[x].did[m] <= 1 + cutoff[m]
    BY <1>0 DEF OneReplayPerCut
  <2>2. CASE disk'[x] = disk[x]
    BY <1>0, <1>1, <1>3, <2>1, <2>2
  <2>3. CASE Restore /\ disk'[x] = snaps[run.snap].tree[x]
    <3>1. run.snap \in Snaps /\ snaps[run.snap] # None /\ snaps[run.snap].whole
      BY <2>3, SeeRestore, UpgradeAssumption DEF Typed, IsRun, HasSnap, Restorable, Own, WorkPCs
    <3>2. Bound(disk'[x], StateOf(snaps[run.snap].tree).applied, cutoff)
      BY <1>0, <2>3, <3>1 DEF TreesOnce
    <3>3. disk'[x].did[m] <= cutoff[m] + (IF m \in StateOf(snaps[run.snap].tree).applied THEN 1 ELSE 0)
      BY <3>2 DEF Bound
    <3> QED BY <1>0, <1>1, <1>3, <3>3
  <2>4. CASE Write(x)
    <3>1. disk'[x].did = IF disk[x] = None THEN Untouched.did ELSE disk[x].did
      BY <1>0, <2>4, SeeWrite
    <3> QED BY <1>0, <1>1, <1>3, <2>1, <3>1 DEF Untouched
  <2>5. ~Migrate
    BY <1>5, SeeMigrate DEF RollingBack
  <2>6. x # "state" /\ x # "pin"
    BY <1>0, UpgradeAssumption
  <2> QED BY <1>0, <2>2, <2>3, <2>4, <2>5, <2>6, DiskStep
<1> QED BY <1>4, <1>5

Once == torn \/ (VaultOnce /\ TreesOnce /\ CopyOnce /\ BackOnce /\ RecordLeft /\ OneReplayPerCut)

LEMMA OnceInit == Init => Once
<1> SUFFICES ASSUME Init PROVE Once
  OBVIOUS
<1>1. /\ run.pc = "idle" /\ run.flags = {} /\ (\A s \in Snaps : snaps[s] = None)
      /\ cutoff = [m \in Migs |-> 0]
  BY DEF Init, Idle
<1>2. cutoff \in Counts
  BY <1>1 DEF Counts
<1>3. \A x \in Pages : disk[x] # None => disk[x].did = Untouched.did
  BY InitDisk
<1>4. VaultOnce
  BY <1>2, <1>3, BoundNew DEF VaultOnce
<1>5. OneReplayPerCut
  BY <1>1, <1>3 DEF OneReplayPerCut, Untouched
<1> QED BY <1>1, <1>4, <1>5 DEF Once, TreesOnce, CopyOnce, BackOnce, RecordLeft, RollingBack

LEMMA OnceStep == Steered /\ Steered' /\ Covered /\ Covered' /\ Posted /\ Backed /\ Once /\ [Next]_vars => Once'
<1> SUFFICES ASSUME Steered, Steered', Covered, Covered', Posted, Backed, Once, [Next]_vars, ~torn' PROVE Once'
  BY DEF Once
<1>1. /\ Typed /\ Own /\ Ways /\ Place /\ Progress /\ Points /\ Sinces /\ Tallies /\ Tallies' /\ SavedOnly
      /\ Deltas /\ NewOnly /\ Pins /\ Kepts /\ Plotted /\ Returning /\ Returning' /\ SoundVault /\ FullPlans
      /\ VaultOnce /\ TreesOnce /\ CopyOnce /\ BackOnce /\ RecordLeft /\ OneReplayPerCut /\ ~torn
  BY TornStays DEF Steered, Shaped, Tallies, Sinces, Covered, Posted, Backed, Once
<1>2. VaultOnce' /\ TreesOnce' /\ CopyOnce'
  BY <1>1, VaultOnceStep, TreesOnceStep, CopyOnceStep
<1>3. BackOnce' /\ RecordLeft'
  BY <1>1, BackOnceStep, RecordLeftStep
<1>4. OneReplayPerCut'
  BY <1>1, <1>2, ReplayStep
<1> QED BY <1>2, <1>3, <1>4 DEF Once

\* A migration goes over a page once, and once more for each time it was cut
\* off itself: no matter which others were killed, rolled back or tried
\* again before and after it.  Not so after a rollback that was torn, and of
\* pages an operator's restore left ahead of the records it took back.
THEOREM ReplaysAreCuts == Spec => []OneReplayPerCut
<1>1. Once => OneReplayPerCut
  BY DEF Once, OneReplayPerCut
<1> QED BY SteeredInit, SteeredStep, CoveredInit, CoveredStep, PostedInit, PostedStep, BackedInit, BackedStep,
    OnceInit, OnceStep, <1>1, PTL DEF Spec

-----------------------------------------------------------------------------
(* Types                                                                   *)

\* An invocation is counted, and applies what it planned.
Begun == /\ run.pc \in PC
         /\ run.pc # "idle" => runs >= 1
         /\ run.pc = "apply" => run.k \in run.plan

LEMMA RunsStep == ASSUME Typed, [Next]_vars PROVE runs' = runs \/ runs' = runs + 1
BY DEF Next, vars, Start, Mkdir, Copy, Manifest, SnapshotFails, Load, Migrate,
     RecordApplied, WritePin, Recompose, Freeze, RecordPlan, Raise, GatePasses, GateFails,
     RecordVersion, Confirm, Prune, Accepted, Recover, RegatePasses, RegateFails, RestoreSaved,
     Quarantine, Restore, RolledBack, RestoreFails, Write, Kill

LEMMA BegunStep == ASSUME Typed, Begun, [Next]_vars PROVE Begun'
<1>1. run'.pc \in PC
  <2>1. CASE \E flags \in Flags : Start(flags)
    BY <2>1, SeeStart DEF PC
  <2>2. CASE Mkdir \/ Copy \/ Manifest \/ SnapshotFails \/ Load \/ Migrate \/ RecordApplied
    BY <2>2, SeeMkdir, SeeCopy, SeeManifest, SeeSnapshotFails, SeeLoad, SeeMigrate, SeeRecordApplied
       DEF Moves, Rests, PC
  <2>3. CASE WritePin \/ Recompose \/ Freeze \/ RecordPlan \/ Raise \/ GatePasses \/ GateFails
    BY <2>3, SeeWritePin, SeeRecompose, SeeFreeze, SeeRecordPlan, SeeRaise, SeeGatePasses, SeeGateFails
       DEF Moves, Rests, Captures, Takes, PC
  <2>4. CASE RecordVersion \/ Confirm \/ Prune \/ Accepted \/ Recover \/ RegatePasses \/ RegateFails
    BY <2>4, SeeRecordVersion, SeeConfirm, SeePrune, SeeAccepted, SeeRecover, SeeRegatePasses, SeeRegateFails
       DEF Moves, Rests, Takes, PC
  <2>5. CASE RestoreSaved \/ Quarantine \/ Restore \/ RolledBack \/ RestoreFails \/ Kill
    BY <2>5, SeeRestoreSaved, SeeQuarantine, SeeRestore, SeeRolledBack, SeeRestoreFails, SeeKill DEF Rests, PC
  <2>6. CASE (\E p \in Pages : Write(p)) \/ UNCHANGED vars
    BY <2>6, SeeWrite, SeeNothing DEF Begun
  <2> QED BY <2>1, <2>2, <2>3, <2>4, <2>5, <2>6 DEF Next
<1>2. ASSUME run'.pc # "idle" PROVE runs' >= 1
  <2>0. runs \in Nat
    BY UpgradeAssumption DEF Typed
  <2>1. CASE runs' = runs + 1
    BY <2>0, <2>1
  <2>2. CASE runs' = runs /\ run.pc # "idle"
    BY <2>2 DEF Begun
  <2>3. CASE run.pc = "idle" /\ runs' # runs + 1
    <3>1. (\E p \in Pages : Write(p)) \/ UNCHANGED vars
      BY <2>3 DEF Next, At, Start, Mkdir, Copy, Manifest, SnapshotFails, Load, Migrate, RecordApplied, WritePin,
         Recompose, Freeze, RecordPlan, Raise, GatePasses, GateFails, RecordVersion, Confirm, Prune, Accepted,
         Recover, RegatePasses, RegateFails, RestoreSaved, Quarantine, Restore, RolledBack, RestoreFails, Kill
    <3> QED BY <1>2, <2>3, <3>1, SeeWrite, SeeNothing
  <2>4. runs' = runs \/ runs' = runs + 1
    BY RunsStep
  <2> QED BY <2>1, <2>2, <2>3, <2>4
<1>3. ASSUME run'.pc = "apply" PROVE run'.k \in run'.plan
  <2>1. CASE Load
    BY <1>3, <2>1, SeeLoad DEF Moves, Left
  <2>2. CASE Migrate
    BY <2>2, SeeMigrate DEF Stays, Begun
  <2> QED BY <1>3, <2>1, <2>2, ApplyOn DEF Begun
<1> QED BY <1>1, <1>2, <1>3 DEF Begun

\* A migration the invocation has still to take to page x.
Ahead(m, x) == m \in run.plan /\ \/ run.pc \in {"mkdir", "copy", "load", "apply"} /\ m > run.k
                                 \/ run.pc = "apply" /\ m = run.k /\ x \in run.todo

\* Each invocation goes over a page once.
Times(t, n) == \A x \in Pages : t[x] # None => \A m \in Migs : t[x].did[m] <= n
Counted ==
  /\ \A x \in Pages : disk[x] # None => \A m \in Migs : disk[x].did[m] + (IF Ahead(m, x) THEN 1 ELSE 0) <= runs
  /\ \A s \in Snaps : snaps[s] # None =>
       /\ Times(snaps[s].tree, runs)
       /\ snaps[s].plan # None => Times(snaps[s].plan.image, runs)

LEMMA AheadBefore ==
  ASSUME Typed, Place, [Next]_vars, NEW m \in Migs, NEW x \in Pages, Ahead(m, x)'
  PROVE  Ahead(m, x) \/ (runs' = runs + 1 /\ UNCHANGED disk)
<1>1. CASE \E flags \in Flags : Start(flags)
  BY <1>1, SeeStart DEF Vault
<1>2. CASE Mkdir \/ Copy \/ Manifest \/ SnapshotFails \/ Migrate \/ RecordApplied \/ WritePin
  BY <1>2, SeeMkdir, SeeCopy, SeeManifest, SeeSnapshotFails, SeeMigrate, SeeRecordApplied, SeeWritePin
     DEF Ahead, Moves, Stays, Rests
<1>3. CASE Load
  <2>1. CASE Moves(IF runner = "engine" THEN "pin" ELSE "freeze")
    BY <2>1 DEF Ahead, Moves
  <2>2. CASE \E n \in Left : run'.pc = "apply" /\ run'.k = n /\ run'.plan = run.plan
    <3>1. PICK n \in Left : run'.pc = "apply" /\ run'.k = n /\ run'.plan = run.plan
      BY <2>2
    <3>2. m \in run.plan /\ (m > n \/ m = n) /\ n > run.k
      BY <3>1 DEF Ahead, Left
    <3>3. m \in Int /\ n \in Int /\ run.k \in Int
      BY <3>1, UpgradeAssumption DEF Left, Typed, IsRun, Place, Migs
    <3>4. m > run.k /\ run.pc = "load"
      BY <1>3, <3>2, <3>3, SeeLoad
    <3> QED BY <3>2, <3>4 DEF Ahead
  <2> QED BY <1>3, <2>1, <2>2, SeeLoad
<1>4. CASE Recompose \/ Freeze \/ RecordPlan \/ Raise \/ GatePasses \/ GateFails
  BY <1>4, SeeRecompose, SeeFreeze, SeeRecordPlan, SeeRaise, SeeGatePasses, SeeGateFails
     DEF Ahead, Moves, Rests, Captures, Takes
<1>5. CASE RecordVersion \/ Confirm \/ Prune \/ Accepted \/ Recover \/ RegatePasses \/ RegateFails
  BY <1>5, SeeRecordVersion, SeeConfirm, SeePrune, SeeAccepted, SeeRecover, SeeRegatePasses, SeeRegateFails
     DEF Ahead, Moves, Rests, Takes
<1>6. CASE RestoreSaved \/ Quarantine \/ Restore \/ RolledBack \/ RestoreFails \/ Kill
  BY <1>6, SeeRestoreSaved, SeeQuarantine, SeeRestore, SeeRolledBack, SeeRestoreFails, SeeKill DEF Ahead, Rests
<1>7. CASE (\E p \in Pages : Write(p)) \/ UNCHANGED vars
  BY <1>7, SeeWrite, SeeNothing DEF Ahead
<1> QED BY <1>1, <1>2, <1>3, <1>4, <1>5, <1>6, <1>7 DEF Next

LEMMA CountedStep ==
  ASSUME Typed, Images, Place, Begun, Counted, [Next]_vars
  PROVE  Counted'
<1>0. runs \in Nat /\ runs' \in Nat /\ runs <= runs' /\ Typed'
  BY RunsStep, TypedStep, UpgradeAssumption DEF Typed
<1>1. Times(disk, runs)
  <2> SUFFICES ASSUME NEW x \in Pages, disk[x] # None, NEW m \in Migs PROVE disk[x].did[m] <= runs
    BY DEF Times
  <2>1. disk[x].did[m] \in Nat
    BY PagesAre DEF PageText
  <2> QED BY <1>0, <2>1 DEF Counted
<1>2. ASSUME NEW t, IsVault(t), Times(t, runs) PROVE Times(t, runs')
  <2> SUFFICES ASSUME NEW x \in Pages, t[x] # None, NEW m \in Migs PROVE t[x].did[m] <= runs'
    BY DEF Times
  <2>1. t[x] \in PageText
    BY <1>2, FilesAre DEF IsVault
  <2> QED BY <1>0, <1>2, <2>1 DEF Times, PageText
<1>3. ASSUME NEW s \in Snaps, snaps'[s] # None
      PROVE  Times(snaps'[s].tree, runs')
  <2>1. CASE snaps[s] # None /\ snaps'[s].tree = snaps[s].tree
    <3>1. IsVault(snaps[s].tree) /\ Times(snaps[s].tree, runs)
      BY <2>1 DEF Typed, Saved, IsSnap, Counted
    <3> QED BY <1>2, <2>1, <3>1
  <2>2. CASE \A f \in Files : snaps'[s].tree[f] = IF f \in Pages THEN None ELSE disk[f]
    BY <2>2, FilesAre DEF Times
  <2>3. CASE snaps[s] # None /\ \E f \in Pages : \A g \in Files :
                 snaps'[s].tree[g] = IF g = f THEN disk[f] ELSE snaps[s].tree[g]
    <3>1. IsVault(snaps[s].tree) /\ Times(snaps[s].tree, runs) /\ IsVault(disk)
      BY <2>3 DEF Typed, Saved, IsSnap, Counted
    <3>2. Times(snaps[s].tree, runs') /\ Times(disk, runs')
      BY <1>1, <1>2, <3>1
    <3>3. PICK f \in Pages : \A g \in Pages : snaps'[s].tree[g] = IF g = f THEN disk[f] ELSE snaps[s].tree[g]
      BY <2>3, FilesAre
    <3> QED BY <3>2, <3>3 DEF Times
  <2> QED BY <1>3, <2>1, <2>2, <2>3, NewTree
<1>4. ASSUME NEW s \in Snaps, snaps'[s] # None, snaps'[s].plan # None
      PROVE  Times(snaps'[s].plan.image, runs')
  <2>1. CASE snaps[s] # None /\ snaps'[s].plan = snaps[s].plan
    <3>1. IsVault(snaps[s].plan.image) /\ Times(snaps[s].plan.image, runs)
      BY <1>4, <2>1 DEF Images, Counted
    <3> QED BY <1>2, <2>1, <3>1
  <2>2. CASE snaps'[s].plan.image = disk
    BY <1>1, <1>2, <2>2 DEF Typed
  <2> QED BY <1>4, <2>1, <2>2, NewPlan
<1>5. ASSUME NEW x \in Pages, disk'[x] # None, NEW m \in Migs
      PROVE  disk'[x].did[m] + (IF Ahead(m, x)' THEN 1 ELSE 0) <= runs'
  <2>0. x \in Files /\ x # "state" /\ x # "pin" /\ (disk[x] # None => disk[x] \in PageText)
        /\ disk'[x] \in PageText /\ disk'[x].did[m] \in Nat
    <3>1. x \in Files /\ x # "state" /\ x # "pin" /\ (disk[x] # None => disk[x] \in PageText)
      BY PagesAre
    <3>2. disk'[x] \in PageText
      BY <1>0, <1>5, <3>1, FilesAre DEF Typed, IsVault
    <3> QED BY <3>1, <3>2 DEF PageText
  <2>1. disk[x] # None => disk[x].did[m] \in Nat /\ disk[x].did[m] + (IF Ahead(m, x) THEN 1 ELSE 0) <= runs
    BY <2>0 DEF Counted, PageText
  <2>2. CASE disk'[x] = disk[x]
    <3>1. CASE runs' = runs + 1
      BY <1>0, <1>5, <2>1, <2>2, <3>1
    <3>2. CASE ~Ahead(m, x)'
      BY <1>0, <1>5, <2>1, <2>2, <3>2
    <3>3. CASE Ahead(m, x)
      BY <1>0, <1>5, <2>1, <2>2, <3>3
    <3> QED BY <3>1, <3>2, <3>3, AheadBefore
  <2>3. CASE Migrate /\ x \in run.todo /\ disk'[x] = Output(run.k, x)
    <3>1. /\ run.pc = "apply" /\ run.k \in Migs /\ run.k \in run.plan /\ runs >= 1 /\ runs' = runs
          /\ run'.pc = "apply" /\ run'.k = run.k /\ run'.plan = run.plan
      BY <2>3, SeeMigrate DEF Begun, Stays
    <3>2. Ahead(run.k, x)
      BY <2>3, <3>1 DEF Ahead
    <3>3. x \notin run'.todo
      <4>1. PICK p \in run.todo : /\ run'.todo = run.todo \ {p}
                                  /\ \A f \in Files : disk'[f] = IF f = p THEN Output(run.k, p) ELSE disk[f]
        BY <2>3, SeeMigrate
      <4>2. CASE x = p
        BY <4>1, <4>2
      <4>3. CASE x # p
        <5>1. Output(run.k, x) = disk[x] /\ disk[x] # None
          BY <1>5, <2>0, <2>3, <4>1, <4>3
        <5>2. disk[x].did[run.k] = disk[x].did[run.k] + 1 /\ disk[x].did[run.k] \in Nat
          BY <2>0, <3>1, <5>1, OutputIs DEF PageText
        <5> QED BY <5>2
      <4> QED BY <4>2, <4>3
    <3>4. CASE m = run.k
      <4>1. ~Ahead(m, x)'
        <5>1. run.k \in Int
          BY <3>1 DEF Migs
        <5> QED BY <3>1, <3>3, <3>4, <5>1 DEF Ahead
      <4>2. disk'[x].did[m] = IF disk[x] = None THEN 1 ELSE disk[x].did[m] + 1
        BY <1>5, <2>3, <3>1, <3>4, OutputIs
      <4> QED BY <1>0, <2>1, <3>1, <3>2, <3>4, <4>1, <4>2
    <3>5. CASE m # run.k
      <4>1. disk'[x].did[m] = IF disk[x] = None THEN 0 ELSE disk[x].did[m]
        BY <1>5, <2>0, <2>1, <2>3, <3>1, <3>5, OutputIs
      <4>2. Ahead(m, x)' => Ahead(m, x)
        BY <3>1, <3>5 DEF Ahead
      <4> QED BY <1>0, <2>1, <3>1, <4>1, <4>2
    <3> QED BY <3>4, <3>5
  <2>4. CASE Restore /\ disk'[x] = snaps[run.snap].tree[x]
    <3>1. run.pc = "restore" /\ run'.pc = "restore" /\ UNCHANGED runs
      BY <2>4, SeeRestore
    <3>2. run.snap \in Snaps /\ snaps[run.snap] # None
      BY <3>1, UpgradeAssumption DEF Typed, IsRun, HasSnap, Restorable
    <3>3. disk'[x].did[m] <= runs /\ ~Ahead(m, x)'
      BY <1>5, <2>4, <3>1, <3>2 DEF Counted, Times, Ahead
    <3> QED BY <1>0, <2>0, <3>1, <3>3
  <2>5. CASE Write(x)
    <3>1. /\ disk'[x].did = IF disk[x] = None THEN Untouched.did ELSE disk[x].did
          /\ UNCHANGED <<run, runs>>
      BY <2>5, SeeWrite
    <3>2. Ahead(m, x)' <=> Ahead(m, x)
      BY <3>1 DEF Ahead
    <3>3. Ahead(m, x) => runs >= 1
      BY DEF Ahead, Begun
    <3> QED BY <1>0, <2>1, <3>1, <3>2, <3>3 DEF Untouched
  <2> QED BY <1>5, <2>0, <2>2, <2>3, <2>4, <2>5, DiskStep
<1> QED BY <1>3, <1>4, <1>5 DEF Counted

\* No record is ahead of the target.
Within(t) == t["state"] = None \/ t["state"].version <= Target
Versions ==
  /\ Within(disk)
  /\ \A s \in Snaps : snaps[s] # None =>
       /\ Within(snaps[s].tree)
       /\ snaps[s].plan # None => Within(snaps[s].plan.image)

LEMMA VersionsStep ==
  ASSUME Typed, Versions, [Next]_vars
  PROVE  Versions'
<1>0. "state" \in Files /\ "state" \notin Pages /\ "pin" # "state" /\ Target \in Nat
  BY FilesAre, UpgradeAssumption
<1>1. Within(disk')
  <2>1. CASE disk'["state"] = disk["state"]
    BY <2>1 DEF Versions, Within
  <2>2. CASE RecordApplied
    <3>1. /\ disk'["state"].version = IF runner = "pack" THEN Checkpoint ELSE State.version
          /\ run.k \in Migs /\ To[run.k] \in Nat
      <4>1. /\ disk'["state"] = [applied |-> State.applied \cup {run.k},
                                 version |-> IF runner = "pack" THEN Checkpoint ELSE State.version]
            /\ run.k \in Migs
        BY <2>2, SeeRecordApplied
      <4> QED BY <4>1, UpgradeAssumption
    <3>2. State.version <= Target
      BY <1>0 DEF Versions, Within, State, NoState
    <3>3. Checkpoint = State.version \/ (Checkpoint = To[run.k] /\ To[run.k] < Target)
      BY DEF Checkpoint
    <3> QED BY <1>0, <3>1, <3>2, <3>3 DEF Within
  <2>3. CASE RecordVersion
    BY <1>0, <2>3, SeeRecordVersion DEF Within
  <2>4. CASE disk'["state"] = None
    BY <2>4 DEF Within
  <2>5. CASE Restore /\ disk'["state"] = snaps[run.snap].tree["state"]
    <3>1. run.snap \in Snaps /\ snaps[run.snap] # None
      BY <2>5, SeeRestore, UpgradeAssumption DEF Typed, IsRun, HasSnap, Restorable
    <3> QED BY <2>5, <3>1 DEF Versions, Within
  <2> QED BY <1>0, <2>1, <2>2, <2>3, <2>4, <2>5, DiskStep
<1>2. ASSUME NEW s \in Snaps, snaps'[s] # None PROVE Within(snaps'[s].tree)
  BY <1>0, <1>2, NewTree DEF Versions, Within
<1>3. ASSUME NEW s \in Snaps, snaps'[s] # None, snaps'[s].plan # None
      PROVE  Within(snaps'[s].plan.image)
  BY <1>3, NewPlan DEF Versions
<1> QED BY <1>1, <1>2, <1>3 DEF Versions, Within

LEMMA TreeIs ==
  ASSUME NEW t, IsVault(t), Within(t), t["pin"] \in {0, Target}, runs \in 0..MaxRuns, edits \in 0..MaxEdits,
         Times(t, runs), Dated(t, edits)
  PROVE  IsTree(t)
<1>1. DOMAIN t = Files
  BY DEF IsVault, Trees
<1>2. ASSUME NEW f \in Files, f = "pin" PROVE t[f] \in Content(f)
  BY <1>2 DEF Content
<1>3. ASSUME NEW f \in Files, f = "state", t[f] # None PROVE t[f] \in Content(f)
  <2>1. t[f] \in StateRec
    BY <1>3 DEF IsVault, Holdable
  <2>2. t[f].applied \in SUBSET Migs /\ t[f].version \in 0..Target
    BY <1>3, <2>1, UpgradeAssumption DEF StateRec, Within
  <2>3. t[f] \in [applied : SUBSET Migs, version : 0..Target]
    BY <2>1, <2>2 DEF StateRec
  <2> QED BY <1>3, <2>3 DEF Content
<1>4. ASSUME NEW f \in Files, f # "pin", f # "state", t[f] # None PROVE t[f] \in Content(f)
  <2>1. f \in Pages
    BY <1>4 DEF Files
  <2>2. t[f] \in PageText
    BY <1>4, <2>1, FilesAre DEF IsVault
  <2>3. ASSUME NEW m \in Migs PROVE t[f].did[m] \in 0..MaxRuns
    <3>1. t[f].did[m] \in Nat /\ t[f].did[m] <= runs
      BY <1>4, <2>1, <2>2 DEF PageText, Times
    <3> QED BY <3>1, UpgradeAssumption
  <2>4. t[f].did \in [Migs -> 0..MaxRuns]
    BY <2>2, <2>3 DEF PageText
  <2>5. t[f].edit \in 0..MaxEdits
    <3>1. t[f].edit \in Nat /\ t[f].edit <= edits
      BY <1>4, <2>1, <2>2 DEF PageText, Dated
    <3> QED BY <3>1, UpgradeAssumption
  <2>6. t[f] \in Page
    BY <2>2, <2>4, <2>5 DEF PageText, Page
  <2> QED BY <1>4, <2>6 DEF Content
<1> QED BY <1>1, <1>2, <1>3, <1>4 DEF IsTree

Sized == Begun /\ Counted /\ Versions

LEMMA SizedInit == Init => Sized
<1> SUFFICES ASSUME Init PROVE Sized
  OBVIOUS
<1>1. run.pc = "idle" /\ run.plan = {} /\ runs = 0 /\ \A s \in Snaps : snaps[s] = None
  BY DEF Init, Idle
<1>2. \A x \in Pages : disk[x] # None => \A m \in Migs : disk[x].did[m] = 0
  BY InitDisk DEF Untouched
<1>3. Within(disk)
  <2>1. disk["state"] \in {NoState, None} /\ Target \in Nat
    BY InitDisk, UpgradeAssumption
  <2> QED BY <2>1 DEF Within, NoState
<1> QED BY <1>1, <1>2, <1>3 DEF Sized, Begun, PC, Counted, Versions, Ahead

LEMMA SizedStep == Steered /\ Sized /\ [Next]_vars => Sized'
<1> SUFFICES ASSUME Steered, Sized, [Next]_vars PROVE Sized'
  OBVIOUS
<1>1. Typed /\ Images /\ Place /\ Begun /\ Counted /\ Versions
  BY DEF Steered, Shaped, Sized
<1> QED BY <1>1, BegunStep, CountedStep, VersionsStep DEF Sized

\* Files, snapshots and the invocation keep their shape: no page is gone
\* over more often than there are invocations, no record and no pin is ahead
\* of the target.
THEOREM TypeCorrect == Spec => []TypeOK
<1>1. Steered /\ Posted /\ Sized => TypeOK
  <2> SUFFICES ASSUME Steered, Posted, Sized PROVE TypeOK
    OBVIOUS
  <2>0. /\ Typed /\ Images /\ Dates /\ Tallies /\ Place /\ Pins /\ Begun /\ Counted /\ Versions
    BY DEF Steered, Shaped, Posted, Sized
  <2>1. runs \in 0..MaxRuns /\ edits \in 0..MaxEdits /\ runs \in Nat
    BY <2>0, UpgradeAssumption DEF Typed, Tallies
  <2>2. IsTree(disk) /\ disk["pin"] # None
    <3>1. Times(disk, runs)
      <4> SUFFICES ASSUME NEW x \in Pages, disk[x] # None, NEW m \in Migs PROVE disk[x].did[m] <= runs
        BY DEF Times
      <4>1. disk[x].did[m] \in Nat
        BY <2>0, PagesAre DEF PageText
      <4> QED BY <2>0, <2>1, <4>1 DEF Counted
    <3>2. IsVault(disk) /\ Within(disk) /\ disk["pin"] \in {0, Target} /\ Dated(disk, edits)
      BY <2>0 DEF Typed, Versions, Pins, Dates
    <3> QED BY <2>1, <3>1, <3>2, TreeIs, Plain, UpgradeAssumption
  <2>3. ASSUME NEW s \in Snaps, snaps[s] # None
        PROVE  /\ IsTree(snaps[s].tree) /\ snaps[s].whole \in BOOLEAN /\ snaps[s].good \in BOOLEAN
               /\ snaps[s].plan = None \/
                    /\ snaps[s].plan.added \subseteq Files /\ snaps[s].plan.modified \subseteq Files
                    /\ IsTree(snaps[s].plan.image)
    <3>1. snaps[s] \in Snapshot /\ IsVault(snaps[s].tree)
      BY <2>0, <2>3 DEF Typed, Saved, IsSnap
    <3>2. IsTree(snaps[s].tree)
      BY <2>0, <2>1, <2>3, <3>1, TreeIs DEF Versions, Pins, Dates, Counted
    <3>3. snaps[s].plan # None => IsTree(snaps[s].plan.image)
      BY <2>0, <2>1, <2>3, TreeIs DEF Images, Versions, Pins, Dates, Counted
    <3>4. snaps[s].plan # None =>
            snaps[s].plan.added \subseteq Files /\ snaps[s].plan.modified \subseteq Files
      BY <3>1 DEF Snapshot, Plans
    <3> QED BY <3>1, <3>2, <3>3, <3>4 DEF Snapshot
  <2>4. /\ run.pc \in PC /\ run.plan \subseteq Migs /\ run.k \in 0..NumMigs /\ run.snap \in 0..MaxRuns
        /\ run.todo \subseteq Files /\ run.added \subseteq Files /\ run.modified \subseteq Files
    BY <2>0, UpgradeAssumption DEF Typed, IsRun, Begun, Place, Migs, Snaps
  <2>5. cutoff \in [Migs -> 0..MaxCuts]
    <3>1. cutoff \in [Migs -> Nat] /\ cuts \in 0..MaxCuts /\ \A m \in Migs : cutoff[m] <= cuts
      BY <2>0 DEF Tallies
    <3>2. \A m \in Migs : cutoff[m] \in 0..MaxCuts
      BY <3>1, UpgradeAssumption
    <3> QED BY <3>1, <3>2
  <2>6. /\ runner \in Runners /\ bad \subseteq BadMigs /\ aside \subseteq Pages /\ cuts \in 0..MaxCuts
        /\ torn \in BOOLEAN /\ since \in [Snaps -> SUBSET Pages] /\ fresh \in [Pages -> 0..MaxEdits]
        /\ strays \subseteq Pages /\ born \subseteq Pages
    BY <2>0 DEF Tallies, Typed
  <2> QED BY <2>1, <2>2, <2>3, <2>4, <2>5, <2>6 DEF TypeOK
<1> QED BY SteeredInit, SteeredStep, PostedInit, PostedStep, SizedInit, SizedStep, <1>1, PTL DEF Spec
=============================================================================
