-------------------------- MODULE ProjectionProofs --------------------------
(* Machine-checked theorems about Projection.                              *)
EXTENDS Projection, TLAPS

-----------------------------------------------------------------------------
(* Types                                                                   *)

\* An epoch is spent by a transaction that has begun.
Budget == epoch <= InitialEpoch + tx /\ (wpc = "body" => epoch < InitialEpoch + tx)

\* Who is not idle has the lock; a run without the lock has no locals.
OneRun == \A j \in Projectors : pc[j] # "idle" => advisory = j

Typed ==
  /\ TypeOK /\ OneRun /\ Budget /\ tx \in 0..MaxTx /\ faults \in Nat
  /\ attempt < MaxAttempts
  /\ active = (wpc # "idle")

\* One file of the constants' arithmetic, for the leaves.
LEMMA Numbers ==
  /\ InitialEpoch \in Nat /\ MaxTx \in Nat /\ MaxAttempts \in Nat /\ MaxAttempts > 0
  /\ MaxFaults \in Nat /\ Nil \notin Nat /\ Nil \notin Projectors
  /\ Epochs \subseteq Nat /\ Nil \notin Epochs /\ 0 \in Epochs /\ InitialEpoch \in Epochs
BY ProjectionAssumption DEF Epochs

LEMMA Sums == \A a, b, c, d \in Nat : a <= b + c /\ c <= d => a <= b + d
OBVIOUS

LEMMA TypedInit == Init => Typed
<1> SUFFICES ASSUME Init PROVE Typed
  OBVIOUS
<1>1. Empty \in [Pages -> Text] /\ wiki \in [Pages -> Text]
  BY ProjectionAssumption DEF Init, Empty, Text
<1>2. /\ epoch = InitialEpoch /\ tx = 0 /\ wpc = "idle" /\ active = FALSE /\ attempt = 0
      /\ faults = 0 /\ checkpoint = Nil /\ source = 0 /\ advisory = Nil /\ health = Nil
  BY DEF Init
<1>3. Budget /\ OneRun /\ tx \in 0..MaxTx /\ faults \in Nat /\ attempt < MaxAttempts
      /\ attempt \in 0..MaxAttempts
  BY <1>2, Numbers DEF Init, Budget, OneRun
<1>4. /\ epoch \in Epochs /\ source \in Epochs /\ checkpoint \in Epochs \cup {Nil}
      /\ health \in Epochs \cup {Nil} /\ advisory \in Projectors \cup {Nil}
  BY <1>2, Numbers
<1>5. /\ snap \in [Pages -> Text] /\ rows \in [Pages -> Text] /\ scan \in [Pages -> Text]
      /\ touched \subseteq Pages /\ journal \subseteq [epoch : Epochs, paths : SUBSET Pages]
      /\ todo \subseteq Pages /\ unreadable \in BOOLEAN /\ rpc = "idle" /\ back \in BOOLEAN
      /\ pc \in [Projectors -> PC] /\ \A j \in Projectors : pc[j] = "idle"
  BY <1>1 DEF Init, PC
<1> QED BY <1>1, <1>2, <1>3, <1>4, <1>5 DEF Typed, TypeOK

\* The writer's steps and the restore.
LEMMA TypedCorpus ==
  ASSUME Typed, UNCHANGED <<tables, advisory, run, query>>,
         Begin \/ Ends \/ Restore \/ \E p \in Pages, c \in Text : Write(p, c)
  PROVE  Typed'
<1>0. /\ epoch \in Nat /\ tx \in Nat /\ tx <= MaxTx /\ Changed \subseteq Pages
      /\ \A e \in Nat : e <= InitialEpoch + MaxTx => e \in Epochs
  BY Numbers DEF Typed, TypeOK, Epochs, Changed
<1>1. Empty \in [Pages -> Text] /\ InitialWiki \in [Pages -> Text]
  BY ProjectionAssumption DEF Empty, Text
<1>2. /\ wiki' \in [Pages -> Text] /\ snap' \in [Pages -> Text]
      /\ active' = (wpc' # "idle") /\ active' \in BOOLEAN
      /\ wpc' \in {"idle", "body", "append", "drop"} /\ touched' \subseteq Pages
  <2>1. /\ wiki \in [Pages -> Text] /\ snap \in [Pages -> Text] /\ active = (wpc # "idle")
        /\ wpc \in {"idle", "body", "append", "drop"} /\ touched \subseteq Pages
    BY DEF Typed, TypeOK
  <2>2. wiki' \in [Pages -> Text] /\ snap' \in [Pages -> Text] /\ touched' \subseteq Pages
    BY <1>1, <2>1 DEF Begin, Ends, Finish, Append, Drop, Restore, Write
  <2>3. /\ active' = (wpc' # "idle") /\ wpc' \in {"idle", "body", "append", "drop"}
    BY <2>1 DEF Begin, Ends, Finish, Append, Drop, Restore, Write
  <2> QED BY <2>2, <2>3
<1>3. /\ epoch' \in Nat /\ tx' \in Nat /\ tx' <= MaxTx
      /\ epoch' <= InitialEpoch + tx' /\ (wpc' = "body" => epoch' < InitialEpoch + tx')
      /\ faults' \in Nat
  BY <1>0, Numbers DEF Typed, Budget, Begin, Ends, Finish, Append, Drop, Restore, Write
<1>4. journal' \subseteq [epoch : Epochs, paths : SUBSET Pages]
  BY <1>0 DEF Typed, TypeOK, Begin, Ends, Finish, Append, Drop, Restore, Write
<1>5. epoch' \in Epochs
  <2>0. InitialEpoch \in Nat /\ MaxTx \in Nat
    BY Numbers
  <2>1. epoch' <= InitialEpoch + MaxTx
    <3>1. epoch' \in Nat /\ tx' \in Nat /\ tx' <= MaxTx /\ epoch' <= InitialEpoch + tx'
      BY <1>3
    <3> QED BY <3>1, <2>0, Sums
  <2>2. epoch' \in Nat
    BY <1>3
  <2> QED BY <2>1, <2>2, <1>0
<1> QED BY <1>2, <1>3, <1>4, <1>5 DEF Typed, TypeOK, OneRun, Budget, tables, run, query

\* A run moves on, its attempts below the bound; the corpus is not its own.
LEMMA TypedOf ==
  ASSUME Typed, NEW j \in Projectors, UNCHANGED <<corpus, rpc, health>>, back' \in BOOLEAN,
         faults' \in Nat, NEW l \in PC, pc' = [pc EXCEPT ![j] = l],
         advisory = j \/ advisory = Nil,
         l # "idle" => advisory' = j,
         advisory' \in Projectors \cup {Nil},
         rows' \in [Pages -> Text], checkpoint' \in Epochs \cup {Nil},
         source' \in Epochs, todo' \subseteq Pages, scan' \in [Pages -> Text],
         unreadable' \in BOOLEAN, attempt' \in 0..MaxAttempts, attempt' < MaxAttempts
  PROVE  Typed'
<1>1. OneRun'
  BY Numbers DEF Typed, TypeOK, OneRun
<1>2. pc' \in [Projectors -> PC]
  BY DEF Typed, TypeOK
<1> QED BY <1>1, <1>2 DEF Typed, TypeOK, OneRun, Budget, corpus

\* A run that is over, or in its next attempt, has no locals.
LEMMA Forgotten ==
  ASSUME Forget
  PROVE  source' \in Epochs /\ todo' \subseteq Pages /\ scan' \in [Pages -> Text]
         /\ unreadable' \in BOOLEAN
BY Numbers DEF Forget, Empty, Text

LEMMA TypedLeave ==
  ASSUME Typed, NEW j \in Projectors, Leave(j), UNCHANGED <<corpus, rpc, health>>,
         back' \in BOOLEAN, pc[j] # "idle",
         faults' \in Nat, rows' \in [Pages -> Text], checkpoint' \in Epochs \cup {Nil}
  PROVE  Typed'
<1>1. "idle" \in PC
  BY DEF PC
<1>2. advisory = j /\ advisory' = Nil /\ attempt' = 0 /\ pc' = [pc EXCEPT ![j] = "idle"]
  BY DEF Leave, Goto, Typed, OneRun
<1>3. attempt' \in 0..MaxAttempts /\ attempt' < MaxAttempts
  BY <1>2, Numbers
<1>4. Forget
  BY DEF Leave
<1> QED BY <1>1, <1>2, <1>3, <1>4, Forgotten, TypedOf

LEMMA TypedAgain ==
  ASSUME Typed, NEW j \in Projectors, Again(j), UNCHANGED <<corpus, tables, faults, query>>,
         pc[j] # "idle"
  PROVE  Typed'
<1>0. /\ rows' \in [Pages -> Text] /\ checkpoint' \in Epochs \cup {Nil} /\ faults' \in Nat
      /\ back' \in BOOLEAN /\ UNCHANGED <<rpc, health>>
  BY DEF Typed, TypeOK, tables, query
<1>1. CASE attempt + 1 = MaxAttempts
  BY <1>0, <1>1, TypedLeave DEF Again
<1>2. CASE attempt + 1 # MaxAttempts
  <2>1. attempt' \in 0..MaxAttempts /\ attempt' < MaxAttempts
    BY <1>2, Numbers DEF Again, Typed, TypeOK
  <2>2. "before" \in PC
    BY DEF PC
  <2>3. advisory = j /\ advisory' = j
    BY <1>2 DEF Again, Typed, OneRun
  <2> QED BY <1>0, <1>2, <2>1, <2>2, <2>3, Forgotten, TypedOf DEF Again, Goto
<1> QED BY <1>1, <1>2

LEMMA TypedRun ==
  ASSUME Typed, NEW j \in Projectors, RunStep(j) \/ RunDies(j)
  PROVE  Typed'
<1>0. /\ rows \in [Pages -> Text] /\ checkpoint \in Epochs \cup {Nil} /\ faults \in Nat
      /\ source \in Epochs /\ epoch \in Epochs /\ todo \subseteq Pages /\ scan \in [Pages -> Text]
      /\ unreadable \in BOOLEAN /\ attempt \in 0..MaxAttempts /\ attempt < MaxAttempts
      /\ wiki \in [Pages -> Text] /\ advisory \in Projectors \cup {Nil}
      /\ (pc[j] # "idle" => advisory = j) /\ Empty \in [Pages -> Text]
      /\ UNCHANGED <<corpus, rpc, health>> /\ back' \in BOOLEAN
  BY DEF Typed, TypeOK, OneRun, Empty, query, Text, RunStep, RunDies, Lock, Choose, DeltaEpoch,
         DeltaJournal, Before, NotActive, Walk, After, NotActiveAgain, Publish, ReadChanged, ScanPage
<1>1. CASE Lock(j)
  <2>1. "start" \in PC
    BY DEF PC
  <2> QED BY <1>0, <1>1, <2>1, TypedOf DEF Lock, Goto, tables
<1>2. CASE Choose(j)
  <2>1. PICK l \in {"before", "deltaEpoch"} : Goto(j, l)
    BY <1>2 DEF Choose
  <2>2. l \in PC
    BY DEF PC
  <2> QED BY <1>0, <1>2, <2>1, <2>2, TypedOf DEF Choose, Goto, tables
<1>3. CASE DeltaEpoch(j)
  <2>1. PICK l \in {"before", "deltaJournal"} : Goto(j, l)
    BY <1>3 DEF DeltaEpoch
  <2>2. l \in PC
    BY DEF PC
  <2> QED BY <1>0, <1>3, <2>1, <2>2, TypedOf DEF DeltaEpoch, Goto, tables
<1>4. CASE DeltaJournal(j)
  <2>1. PICK l \in {"before", "changed"} : Goto(j, l)
    BY <1>4 DEF DeltaJournal
  <2>2. l \in PC
    BY DEF PC
  <2>3. UNION {r.paths : r \in Relevant} \subseteq Pages
    BY DEF Relevant, Typed, TypeOK
  <2>4. todo' \subseteq Pages /\ scan' \in [Pages -> Text] /\ unreadable' \in BOOLEAN
    BY <1>0, <1>4, <2>3 DEF DeltaJournal
  <2> QED BY <1>0, <1>4, <2>1, <2>2, <2>4, TypedOf DEF DeltaJournal, Goto, tables
<1>5. CASE Before(j) \/ Walk(j)
  <2>1. PICK l \in {"active", "scan"} : Goto(j, l)
    BY <1>5 DEF Before, Walk
  <2>2. l \in PC
    BY DEF PC
  <2>3. todo' \subseteq Pages /\ scan' \in [Pages -> Text] /\ unreadable' \in BOOLEAN
        /\ source' \in Epochs /\ UNCHANGED <<attempt, advisory, rows, checkpoint, faults>>
        /\ pc[j] # "idle"
    BY <1>0, <1>5 DEF Before, Walk, Present, tables
  <2> QED BY <1>0, <2>1, <2>2, <2>3, TypedOf DEF Goto
<1>6. CASE NotActive(j) \/ After(j) \/ NotActiveAgain(j)
  <2>1. UNCHANGED <<corpus, tables, faults, query>> /\ pc[j] # "idle"
    BY <1>6 DEF NotActive, After, NotActiveAgain
  <2>2. CASE Again(j)
    BY <2>1, <2>2, TypedAgain
  <2>3. CASE ~Again(j)
    <3>1. PICK l \in {"walk", "activeAgain", "publish"} :
            Goto(j, l) /\ UNCHANGED <<advisory, source, todo, scan, unreadable, attempt>>
      BY <1>6, <2>3 DEF NotActive, After, NotActiveAgain
    <3>2. l \in PC
      BY DEF PC
    <3> QED BY <1>0, <2>1, <3>1, <3>2, TypedOf DEF Goto, tables
  <2> QED BY <2>2, <2>3
<1>7. CASE Publish(j)
  <2>1. rows' \in [Pages -> Text] /\ checkpoint' \in Epochs \cup {Nil}
    BY <1>0, <1>7 DEF Publish, tables
  <2> QED BY <1>0, <1>7, <2>1, TypedLeave DEF Publish
<1>8. CASE RunDies(j)
  BY <1>0, <1>8, TypedLeave DEF RunDies, tables
<1>9. CASE \E p \in Pages : ReadChanged(j, p) \/ ScanPage(j, p)
  <2>1. PICK p \in Pages : ReadChanged(j, p) \/ ScanPage(j, p)
    BY <1>9
  <2>2. /\ todo' \subseteq Pages /\ scan' \in [Pages -> Text] /\ unreadable' \in BOOLEAN
        /\ UNCHANGED <<tables, advisory, pc, source, attempt, faults>>
    BY <1>0, <2>1 DEF ReadChanged, ScanPage
  <2> QED BY <1>0, <2>2 DEF Typed, TypeOK, OneRun, Budget, corpus, tables
<1> QED BY <1>1, <1>2, <1>3, <1>4, <1>5, <1>6, <1>7, <1>8, <1>9 DEF RunStep, RunDies

LEMMA TypedQuery ==
  ASSUME Typed, ReadHealth \/ CheckActive \/ Withhold \/ Serve \/ Fetch
  PROVE  Typed'
<1>1. /\ UNCHANGED <<corpus, tables, advisory, run, faults>>
      /\ rpc' \in {"idle", "active", "epoch", "fetch"} /\ health' \in Epochs \cup {Nil}
      /\ back' \in BOOLEAN
  BY DEF Typed, TypeOK, ReadHealth, CheckActive, Withhold, Serve, Fetch, Close
<1> QED BY <1>1 DEF Typed, TypeOK, OneRun, Budget, corpus, tables, run

LEMMA TypedStep == Typed /\ [Next]_vars => Typed'
<1> SUFFICES ASSUME Typed, [Next]_vars PROVE Typed'
  OBVIOUS
<1>1. CASE Begin \/ Ends \/ Restore \/ \E p \in Pages, c \in Text : Write(p, c)
  <2>1. UNCHANGED <<tables, advisory, run, query>>
    BY <1>1 DEF Begin, Ends, Finish, Append, Drop, Restore, Write
  <2> QED BY <1>1, <2>1, TypedCorpus
<1>2. CASE \E j \in Projectors : RunStep(j) \/ RunDies(j)
  BY <1>2, TypedRun
<1>3. CASE ReadHealth \/ CheckActive \/ Withhold \/ Serve \/ Fetch
  BY <1>3, TypedQuery
<1>4. CASE UNCHANGED vars
  BY <1>4 DEF vars, Typed, TypeOK, OneRun, Budget
<1> QED BY <1>1, <1>2, <1>3, <1>4 DEF Next

\* Corpus, tables, runs and queries keep their types for any pages, numbers of
\* projectors, transactions and faults, and one run at most is under way.
THEOREM TypeCorrect == Spec => []TypeOK
<1>1. Typed => TypeOK
  BY DEF Typed
<1> QED BY TypedInit, TypedStep, <1>1, PTL DEF Spec

-----------------------------------------------------------------------------
(* Checkpoints                                                             *)

\* A delta starts from a checkpoint and does not end before it: nobody else
\* moves the checkpoint meanwhile.
Deltas ==
  \A j \in Projectors :
    /\ pc[j] \in {"deltaEpoch", "deltaJournal", "changed"} => checkpoint # Nil
    /\ pc[j] \in {"deltaJournal", "changed"} => checkpoint <= source

LEMMA DeltasStep == Typed /\ Typed' /\ Deltas /\ [Next]_vars => Deltas'
<1> SUFFICES ASSUME Typed, Typed', Deltas, [Next]_vars, NEW j \in Projectors
             PROVE  /\ pc'[j] \in {"deltaEpoch", "deltaJournal", "changed"} => checkpoint' # Nil
                    /\ pc'[j] \in {"deltaJournal", "changed"} => checkpoint' <= source'
  BY DEF Deltas
<1>0. DOMAIN pc = Projectors /\ epoch \in Nat /\ checkpoint \in Nat \cup {Nil} /\ source \in Nat
  BY Numbers DEF Typed, TypeOK
<1>1. CASE UNCHANGED <<pc, source, checkpoint>>
  BY <1>1 DEF Deltas
<1>2. ASSUME NEW i \in Projectors, RunStep(i) \/ RunDies(i), i # j, pc'[j] # "idle" PROVE FALSE
  <2>1. pc[j] = pc'[j]
    BY <1>0, <1>2 DEF RunStep, RunDies, Lock, Choose, DeltaEpoch, DeltaJournal, Before,
       NotActive, Walk, After, NotActiveAgain, Publish, ReadChanged, ScanPage, Leave, Again, Goto
  <2>2. advisory = j
    BY <2>1, <1>2 DEF Typed, OneRun
  <2>3. pc[i] = "idle"
    BY <2>2, <1>2 DEF Typed, OneRun
  <2>4. Lock(i)
    BY <1>2, <2>3 DEF RunStep, RunDies, Choose, DeltaEpoch, DeltaJournal, Before,
       NotActive, Walk, After, NotActiveAgain, Publish, ReadChanged, ScanPage
  <2> QED BY <2>2, <2>4, Numbers DEF Lock
<1>3. CASE RunStep(j) \/ RunDies(j)
  <2>1. CASE Lock(j)
    BY <1>0, <2>1 DEF Lock, Goto
  <2>2. CASE Choose(j)
    BY <1>0, <2>2 DEF Choose, Goto, tables
  <2>3. CASE DeltaEpoch(j)
    BY <1>0, <2>3 DEF DeltaEpoch, Goto, tables, Deltas
  <2>4. CASE DeltaJournal(j)
    BY <1>0, <2>4 DEF DeltaJournal, Goto, tables, Deltas
  <2>5. CASE Before(j) \/ Walk(j) \/ NotActive(j) \/ After(j) \/ NotActiveAgain(j) \/ Publish(j)
             \/ RunDies(j)
    <3>1. pc'[j] \in {"idle", "before", "active", "walk", "scan", "activeAgain", "publish"}
      BY <1>0, <2>5 DEF Before, Walk, NotActive, After, NotActiveAgain, Publish, RunDies, Again, Leave, Goto
    <3> QED BY <3>1
  <2>6. CASE \E p \in Pages : ReadChanged(j, p) \/ ScanPage(j, p)
    BY <1>1, <2>6 DEF ReadChanged, ScanPage, tables
  <2> QED BY <1>3, <2>1, <2>2, <2>3, <2>4, <2>5, <2>6 DEF RunStep
<1>4. CASE ~\E i \in Projectors : RunStep(i) \/ RunDies(i)
  <2>1. UNCHANGED <<pc, source, checkpoint>>
    BY <1>4 DEF Next, vars, Begin, Ends, Finish, Append, Drop, Restore, Write, ReadHealth,
       CheckActive, Withhold, Serve, Fetch, run, tables
  <2> QED BY <2>1, <1>1
<1> QED BY <1>2, <1>3, <1>4

\* However often the vault goes back to a backup, and whatever runs were under
\* way: the checkpoint goes back only with the rows of a full scan.
THEOREM RewindsAreScans == Spec => RewindsReconcile
<1>1. Init => Deltas
  BY DEF Init, Deltas
<1>2. Typed /\ Deltas /\ [Next]_vars =>
        [checkpoint # Nil /\ checkpoint' < checkpoint => \E j \in Projectors : pc[j] = "publish"]_vars
  <2> SUFFICES ASSUME Typed, Deltas, Next, checkpoint # Nil, checkpoint' < checkpoint
               PROVE  \E j \in Projectors : pc[j] = "publish"
    OBVIOUS
  <2>0. checkpoint \in Nat /\ source \in Nat
    BY Numbers DEF Typed, TypeOK
  <2>1. PICK j \in Projectors : Publish(j) /\ checkpoint' = source
    BY <2>0 DEF Next, Begin, Ends, Finish, Append, Drop, Restore, Write, ReadHealth, CheckActive,
       Withhold, Serve, Fetch, RunStep, RunDies, Lock, Choose, DeltaEpoch, DeltaJournal, Before,
       NotActive, Walk, After, NotActiveAgain, Publish, ReadChanged, ScanPage, tables
  <2> QED BY <2>0, <2>1 DEF Publish, Deltas
<1> QED BY TypedInit, TypedStep, DeltasStep, <1>1, <1>2, PTL DEF Spec, RewindsReconcile

-----------------------------------------------------------------------------
(* Rows                                                                    *)

\* The pages that S says changed without a record.
Lost(S) == {u[1] : u \in S}

\* Changes without a record bear the transaction and the fault they are of;
\* what a scan will cover is among them.
Tags ==
  /\ unjournalled \subseteq Pages \X (Nat \X Nat) /\ covered \subseteq unjournalled
  /\ \A u \in unjournalled : u[2][1] <= tx /\ u[2][2] <= faults /\ (wpc = "body" => u[2][1] < tx)

\* Records are of epochs that were reached, and while the record of the last
\* one is owed, of earlier ones.  Only touched pages differ from the marker's.
Recorded ==
  /\ \A r \in journal : r.epoch <= epoch /\ (wpc = "append" => r.epoch < epoch)
  /\ wpc = "body" => \A p \in Pages : p \in touched \/ wiki[p] = snap[p]

\* A content read at or after the epoch `since' is still that of the committed
\* corpus, or somebody tells: a later record, the one that is owed, or the
\* transaction at work.
Good(c, since, p) ==
  /\ since <= epoch
  /\ \/ c = Committed[p]
     \/ \E r \in journal : r.epoch > since /\ p \in r.paths
     \/ wpc = "append" /\ p \in Changed /\ since < epoch
     \/ wpc = "body" /\ p \in touched

Rows == checkpoint # Nil => \A p \in Pages \ Lost(unjournalled) : Good(rows[p], checkpoint, p)

Delta == {"deltaJournal", "changed"}
Full  == {"active", "walk", "scan", "activeAgain", "publish"}

\* The same of what a run has read, counted from its source epoch and without
\* the changes that it will have covered.
Scanned ==
  \A j \in Projectors : \A p \in Pages \ Lost(unjournalled \ covered) :
    /\ pc[j] \in Delta \cup Full => source <= epoch
    /\ pc[j] \in {"changed", "scan", "activeAgain", "publish"} =>
         p \in todo \/ Good(scan[p], source, p)

\* Only a full scan covers changes; when it is through, it has read everything.
Covers ==
  /\ advisory = Nil => covered = {}
  /\ \A j \in Projectors :
       /\ pc[j] \in {"start", "deltaEpoch"} \cup Delta => covered = {}
       /\ pc[j] \in {"activeAgain", "publish"} => todo = {}

Sound == Tags /\ Recorded /\ Rows /\ Scanned /\ Covers

LEMMA SoundInit == Init => Sound
BY DEF Init, Sound, Tags, Recorded, Rows, Scanned, Covers, Delta, Full

\* What the writer does leaves a good content good, unless it put the page back.
LEMMA GoodKept ==
  ASSUME Typed, Recorded, NEW p \in Pages, NEW c, NEW since \in Nat, Good(c, since, p),
         Begin \/ Ends \/ \E q \in Pages, d \in Text : Write(q, d),
         Finish => p \notin touched \ Changed
  PROVE  Good(c, since, p)'
<1>0. epoch \in Nat /\ wiki \in [Pages -> Text] /\ snap \in [Pages -> Text]
  BY Numbers DEF Typed, TypeOK
<1>1. CASE Begin
  BY <1>0, <1>1 DEF Begin, Good, Committed
<1>2. CASE \E q \in Pages, d \in Text : Write(q, d)
  BY <1>0, <1>2 DEF Write, Good, Committed
<1>3. CASE Finish /\ Changed = {}
  <2>1. Committed' = wiki /\ Committed = snap /\ wiki[p] = snap[p]
    BY <1>0, <1>3 DEF Finish, Committed, Changed
  <2> QED BY <1>0, <1>3, <2>1 DEF Finish, Good
<1>4. CASE Finish /\ Changed # {}
  <2>1. Committed' = wiki /\ Committed = snap /\ epoch' = epoch + 1 /\ wpc' = "append"
        /\ Changed' = Changed /\ wpc = "body" /\ UNCHANGED journal
    BY <1>0, <1>4 DEF Finish, Committed, Changed
  <2>2. p \notin Changed => wiki[p] = snap[p]
    BY DEF Changed
  <2> QED BY <1>0, <1>4, <2>1, <2>2 DEF Good
<1>5. CASE Append
  <2> DEFINE new == [epoch |-> epoch, paths |-> Changed]
  <2>1. Committed' = Committed /\ wpc = "append" /\ UNCHANGED epoch
        /\ journal' = journal \cup {new}
    BY <1>5 DEF Append, Committed
  <2>2. new.epoch = epoch /\ new.paths = Changed /\ new \in journal' /\ journal \subseteq journal'
    BY <2>1
  <2>3. CASE p \in Changed /\ since < epoch
    <3>1. \E r \in journal' : r.epoch > since /\ p \in r.paths
      BY <2>2, <2>3, <1>0
    <3> HIDE DEF new
    <3> QED BY <3>1, <2>1, <2>3, <1>0 DEF Good
  <2>4. CASE ~(p \in Changed /\ since < epoch)
    <3> HIDE DEF new
    <3> QED BY <2>1, <2>2, <2>4 DEF Good
  <2> QED BY <2>3, <2>4
<1>6. CASE Drop
  BY <1>0, <1>6 DEF Drop, Good, Committed
<1> QED BY <1>1, <1>2, <1>3, <1>4, <1>5, <1>6 DEF Ends

\* What is read now is good from any epoch that was reached.
LEMMA ReadIsGood ==
  ASSUME Recorded, NEW p \in Pages, NEW since, since <= epoch
  PROVE  Good(wiki[p], since, p)
BY DEF Recorded, Good, Committed

\* The corpus moves: what was read stays good, or is lost to the journal.
LEMMA SoundCorpus ==
  ASSUME Typed, Typed', Sound, UNCHANGED <<tables, advisory, run, query, covered>>,
         Begin \/ Ends \/ \E q \in Pages, d \in Text : Write(q, d)
  PROVE  Sound'
<1>0. /\ unjournalled \subseteq unjournalled'
      /\ Finish => unjournalled' = unjournalled \cup ((touched \ Changed) \X {<<tx, faults>>})
      /\ ~Finish => unjournalled' = unjournalled
      /\ UNCHANGED <<faults, rows, checkpoint, advisory, pc, source, todo, scan, covered>>
  BY DEF Begin, Ends, Finish, Append, Drop, Write, tables, run
<1>1. tx \in Nat /\ faults \in Nat /\ touched \subseteq Pages /\ epoch \in Nat /\ source \in Nat
      /\ checkpoint \in Nat \cup {Nil}
  BY Numbers DEF Typed, TypeOK
<1>2. Tags'
  <2>1. Finish => wpc = "body" /\ wpc' # "body" /\ UNCHANGED tx
    BY DEF Finish
  <2>2. tx' = tx \/ (tx' = tx + 1 /\ wpc' = "body")
    BY DEF Begin, Ends, Finish, Append, Drop, Write
  <2>3. tx' = tx /\ wpc' = "body" => wpc = "body"
    BY <1>1 DEF Begin, Ends, Finish, Append, Drop, Write
  <2>4. ASSUME NEW u \in unjournalled'
        PROVE  /\ u \in Pages \X (Nat \X Nat) /\ u[2][2] <= faults
               /\ u[2][1] <= tx' /\ (wpc' = "body" => u[2][1] < tx')
    <3>1. CASE u \in unjournalled
      BY <3>1, <2>2, <2>3, <1>1 DEF Sound, Tags
    <3>2. CASE u \notin unjournalled
      <4>1. Finish /\ u \in (touched \ Changed) \X {<<tx, faults>>}
        BY <3>2, <1>0
      <4>2. PICK q \in touched : u = <<q, <<tx, faults>>>>
        BY <4>1
      <4> QED BY <4>1, <4>2, <2>1, <1>1
    <3> QED BY <3>1, <3>2
  <2> QED BY <2>4, <1>0 DEF Sound, Tags
<1>3. Recorded'
  <2>1. wpc' = "body" => \A p \in Pages : p \in touched' \/ wiki'[p] = snap'[p]
    BY DEF Sound, Recorded, Typed, TypeOK, Begin, Ends, Finish, Append, Drop, Write
  <2>2. ASSUME NEW r \in journal'
        PROVE  r.epoch <= epoch' /\ (wpc' = "append" => r.epoch < epoch')
    <3>1. CASE Finish
      <4>1. r \in journal /\ epoch' \in Nat /\ r.epoch \in Nat
        BY <2>2, <3>1, <1>1, Numbers DEF Finish, Typed, TypeOK
      <4>2. r.epoch <= epoch /\ (epoch' = epoch + 1 \/ (epoch' = epoch /\ wpc' = "drop"))
        BY <4>1, <3>1 DEF Finish, Sound, Recorded
      <4> QED BY <4>1, <4>2, <1>1
    <3>2. CASE Append
      <4>1. epoch' = epoch /\ wpc' = "drop"
        BY <3>2 DEF Append
      <4>2. r \in journal \/ r = [epoch |-> epoch, paths |-> Changed]
        BY <2>2, <3>2 DEF Append
      <4> QED BY <4>1, <4>2, <1>1 DEF Sound, Recorded
    <3>3. CASE Begin \/ Drop \/ \E q \in Pages, d \in Text : Write(q, d)
      BY <2>2, <3>3 DEF Begin, Drop, Write, Sound, Recorded
    <3> QED BY <3>1, <3>2, <3>3 DEF Ends
  <2> QED BY <2>1, <2>2 DEF Recorded
\* Pages put back are lost, from every scan's point of view.
<1>4. ASSUME NEW p \in Pages, Finish, p \in touched \ Changed
      PROVE  p \in Lost(unjournalled') /\ p \in Lost(unjournalled' \ covered)
  <2>1. <<p, <<tx, faults>>>> \in unjournalled' /\ wpc = "body"
    BY <1>4, <1>0 DEF Finish
  <2>2. <<p, <<tx, faults>>>> \notin covered
    BY <2>1, <1>1 DEF Sound, Tags
  <2> QED BY <2>1, <2>2 DEF Lost
<1>5. Lost(unjournalled) \subseteq Lost(unjournalled')
      /\ Lost(unjournalled \ covered) \subseteq Lost(unjournalled' \ covered)
  BY <1>0 DEF Lost
<1>6. ASSUME checkpoint # Nil, NEW p \in Pages \ Lost(unjournalled') PROVE Good(rows[p], checkpoint, p)'
  <2>1. Good(rows[p], checkpoint, p)
    BY <1>5, <1>6 DEF Sound, Rows
  <2>2. Finish => p \notin touched \ Changed
    BY <1>4, <1>6
  <2> DEFINE c == rows[p]
  <2> QED BY <1>0, <1>1, <1>6, <2>1, <2>2, GoodKept DEF Sound, Good
<1>7. Rows'
  BY <1>0, <1>6 DEF Rows
<1>8. epoch' >= epoch
  BY <1>1 DEF Begin, Ends, Finish, Append, Drop, Write
<1>9. ASSUME NEW j \in Projectors, NEW p \in Pages \ Lost(unjournalled' \ covered)
      PROVE  /\ pc'[j] \in Delta \cup Full => source' <= epoch'
             /\ pc'[j] \in {"changed", "scan", "activeAgain", "publish"} =>
                  p \in todo' \/ Good(scan[p], source, p)'
  <2>1. p \in Pages \ Lost(unjournalled \ covered)
    BY <1>5, <1>9
  <2>2. pc[j] \in Delta \cup Full => source <= epoch
    BY <2>1, <1>9 DEF Sound, Scanned
  <2>3. Finish => p \notin touched \ Changed
    BY <1>4, <1>9
  <2>4. CASE Good(scan[p], source, p)
    <3>1. Good(scan[p], source, p)'
      BY <1>0, <1>1, <1>9, <2>4, <2>3, GoodKept DEF Sound, Good
    <3>2. epoch' \in Nat
      BY Numbers DEF Typed, TypeOK
    <3> QED BY <1>0, <1>1, <1>8, <2>2, <3>1, <3>2
  <2>5. CASE ~Good(scan[p], source, p)
    <3>1. pc[j] \in {"changed", "scan", "activeAgain", "publish"} => p \in todo
      BY <2>1, <2>5, <1>9 DEF Sound, Scanned
    <3>2. epoch' \in Nat
      BY Numbers DEF Typed, TypeOK
    <3> QED BY <1>0, <1>1, <1>8, <2>2, <3>1, <3>2
  <2> QED BY <2>4, <2>5
<1>10. Scanned'
  BY <1>0, <1>9 DEF Scanned
<1>11. Covers'
  BY <1>0 DEF Sound, Covers
<1> QED BY <1>2, <1>3, <1>7, <1>10, <1>11 DEF Sound

\* A restore changes every page, and no scan under way will have seen it.
LEMMA SoundRestore ==
  ASSUME Typed, Sound, Restore
  PROVE  Sound'
<1>0. /\ faults' = faults + 1 /\ journal' = {} /\ wpc = "idle" /\ wpc' = "idle"
      /\ unjournalled' = unjournalled \cup (Pages \X {<<tx, faults + 1>>})
      /\ UNCHANGED <<tx, rows, checkpoint, advisory, pc, source, todo, scan, covered>>
  BY DEF Restore, tables, run
<1>1. tx \in Nat /\ faults \in Nat
  BY DEF Typed
<1>2. Tags'
  <2>1. ASSUME NEW u \in unjournalled'
        PROVE  u \in Pages \X (Nat \X Nat) /\ u[2][2] <= faults' /\ u[2][1] <= tx'
    <3>1. CASE u \in unjournalled
      BY <3>1, <1>0, <1>1 DEF Sound, Tags
    <3>2. CASE u \notin unjournalled
      <4>1. PICK q \in Pages : u = <<q, <<tx, faults + 1>>>>
        BY <3>2, <1>0
      <4> QED BY <4>1, <1>0, <1>1
    <3> QED BY <3>1, <3>2
  <2> QED BY <2>1, <1>0 DEF Sound, Tags
<1>3. ASSUME NEW p \in Pages
      PROVE  p \in Lost(unjournalled') /\ p \in Lost(unjournalled' \ covered')
  <2>1. <<p, <<tx, faults + 1>>>> \in unjournalled'
    BY <1>0
  <2>2. <<p, <<tx, faults + 1>>>> \notin covered'
    BY <1>0, <1>1 DEF Sound, Tags
  <2> QED BY <2>1, <2>2 DEF Lost
<1>4. Recorded'
  BY <1>0 DEF Recorded
<1>5. Rows' /\ Scanned'
  BY <1>3 DEF Rows, Scanned
<1>6. Covers'
  BY <1>0 DEF Sound, Covers
<1> QED BY <1>2, <1>4, <1>5, <1>6 DEF Sound

\* While the corpus stays as it is, good contents do.
LEMMA GoodStays ==
  ASSUME UNCHANGED corpus, NEW c, NEW since, NEW p, Good(c, since, p)
  PROVE  Good(c, since, p)'
BY DEF Good, Committed, Changed, corpus

\* Nobody but the holder of the lock is in a run, or starts one.
LEMMA Alone ==
  ASSUME Typed, Typed', NEW j \in Projectors, RunStep(j) \/ RunDies(j), NEW i \in Projectors, i # j
  PROVE  pc'[i] = "idle"
<1>1. pc'[i] = pc[i] /\ advisory' \in {j, Nil} \cup {advisory}
  BY DEF Typed, TypeOK, RunStep, RunDies, Lock, Choose, DeltaEpoch, DeltaJournal, Before,
     NotActive, Walk, After, NotActiveAgain, Publish, ReadChanged, ScanPage, Leave, Again, Goto
<1>2. CASE pc[j] = "idle"
  <2>1. Lock(j)
    BY <1>2 DEF RunStep, RunDies, Choose, DeltaEpoch, DeltaJournal, Before,
       NotActive, Walk, After, NotActiveAgain, Publish, ReadChanged, ScanPage
  <2> QED BY <2>1, Numbers DEF Lock, Typed, OneRun
<1>3. CASE pc[j] # "idle"
  BY <1>1, <1>3, Numbers DEF Typed, OneRun
<1> QED BY <1>2, <1>3

\* The same for the whole invariant, step by step: what the run itself has
\* to show is about its own state.
LEMMA SoundOf ==
  ASSUME Typed, Typed', Sound, NEW j \in Projectors, RunStep(j) \/ RunDies(j),
         UNCHANGED corpus, faults' \in Nat, faults' >= faults,
         unjournalled' \subseteq unjournalled, covered' \subseteq unjournalled',
         Rows', advisory' = Nil => covered' = {},
         pc'[j] \in {"start", "deltaEpoch"} \cup Delta => covered' = {},
         pc'[j] \in {"activeAgain", "publish"} => todo' = {},
         \A p \in Pages \ Lost(unjournalled' \ covered') :
           /\ pc'[j] \in Delta \cup Full => source' <= epoch
           /\ pc'[j] \in {"changed", "scan", "activeAgain", "publish"} =>
                p \in todo' \/ Good(scan[p], source, p)'
  PROVE  Sound'
<1>1. Tags'
  <2>1. ASSUME NEW u \in unjournalled'
        PROVE  /\ u \in Pages \X (Nat \X Nat) /\ u[2][1] <= tx' /\ u[2][2] <= faults'
               /\ (wpc' = "body" => u[2][1] < tx')
    <3>1. u \in Pages \X (Nat \X Nat) /\ u[2][1] <= tx /\ u[2][2] <= faults
          /\ (wpc = "body" => u[2][1] < tx)
      BY DEF Sound, Tags
    <3>2. u[2][2] \in Nat /\ faults \in Nat
      BY <3>1 DEF Typed
    <3> QED BY <3>1, <3>2 DEF corpus
  <2> QED BY <2>1 DEF Tags
<1>2. Recorded'
  BY DEF Sound, Recorded, corpus
<1>3. \A i \in Projectors : i # j => pc'[i] = "idle"
  BY Alone
<1>4. Scanned'
  BY <1>3 DEF Scanned, Delta, Full, corpus
<1>5. Covers'
  BY <1>3 DEF Covers, Delta
<1> QED BY <1>1, <1>2, <1>4, <1>5 DEF Sound

\* A run that is over has no scan left to answer for.
LEMMA SoundLeave ==
  ASSUME Typed, Typed', Sound, NEW j \in Projectors, RunStep(j) \/ RunDies(j),
         UNCHANGED corpus, faults' \in Nat, faults' >= faults, Rows',
         unjournalled' \subseteq unjournalled, Forget,
         pc' = [pc EXCEPT ![j] = "idle"] \/ pc' = [pc EXCEPT ![j] = "before"]
  PROVE  Sound'
<1>1. covered' = {} /\ pc'[j] \in {"idle", "before"}
  BY DEF Forget, Typed, TypeOK
<1> QED BY <1>1, SoundOf DEF Delta, Full

LEMMA SoundAgain ==
  ASSUME Typed, Typed', Sound, NEW j \in Projectors, RunStep(j), Again(j),
         UNCHANGED <<corpus, tables, faults, query, unjournalled>>
  PROVE  Sound'
<1>1. Rows'
  BY GoodStays DEF Sound, Rows, Good, Committed, Changed, tables, corpus
<1>2. Forget /\ faults \in Nat
      /\ (pc' = [pc EXCEPT ![j] = "idle"] \/ pc' = [pc EXCEPT ![j] = "before"])
  BY DEF Again, Leave, Goto, Typed
<1> QED BY <1>1, <1>2, SoundLeave

\* The delta: the journal names every page that is not what its row says.
LEMMA DeltaIsComplete ==
  ASSUME Typed, Sound, Deltas, NEW j \in Projectors, DeltaJournal(j), pc'[j] = "changed",
         NEW p \in Pages \ Lost(unjournalled), p \notin todo', source <= epoch
  PROVE  Good(rows[p], source, p)
<1>0. /\ pc[j] = "deltaJournal" /\ source \in Nat /\ epoch \in Nat /\ checkpoint \in Nat
      /\ checkpoint <= source /\ DOMAIN pc = Projectors
  BY Numbers DEF DeltaJournal, Typed, TypeOK, Deltas
<1>1. Good(rows[p], checkpoint, p)
  BY <1>0, Numbers DEF Sound, Rows
<1>2. CASE source = checkpoint
  BY <1>1, <1>2
<1>3. CASE source # checkpoint
  <2>1. {r.epoch : r \in Relevant} = (checkpoint + 1)..source
        /\ todo' = UNION {r.paths : r \in Relevant}
    BY <1>0, <1>3 DEF DeltaJournal, Goto
  <2>2. source \in (checkpoint + 1)..source
    BY <1>0, <1>3
  <2>3. PICK last \in Relevant : last.epoch = source
    BY <2>1, <2>2
  <2>4. wpc = "append" => source < epoch
    BY <2>3 DEF Relevant, Sound, Recorded
  <2>5. ~\E r \in journal : r.epoch > checkpoint /\ p \in r.paths
    BY <2>1 DEF Relevant
  <2> QED BY <1>0, <1>1, <2>4, <2>5 DEF Good
<1> QED BY <1>2, <1>3

LEMMA SoundRun ==
  ASSUME Typed, Typed', Sound, Deltas, NEW j \in Projectors, RunStep(j) \/ RunDies(j)
  PROVE  Sound'
<1>0. /\ UNCHANGED corpus /\ faults \in Nat /\ pc \in [Projectors -> PC] /\ epoch \in Nat
      /\ covered \subseteq unjournalled /\ scan \in [Pages -> Text]
  BY Numbers DEF Typed, TypeOK, Sound, Tags, RunStep, RunDies, Lock, Choose, DeltaEpoch,
     DeltaJournal, Before, NotActive, Walk, After, NotActiveAgain, Publish, ReadChanged, ScanPage
<1>1. UNCHANGED <<tables, unjournalled>> => Rows'
  BY <1>0 DEF Sound, Rows, Good, Committed, Changed, tables, corpus
<1>2. CASE Lock(j)
  <2>1. /\ covered' = {} /\ pc'[j] = "start" /\ unjournalled' = unjournalled /\ Rows'
        /\ advisory' # Nil /\ faults' = faults
    BY <1>0, <1>1, <1>2, Numbers DEF Lock, Goto, Sound, Covers
  <2> QED BY <1>0, <2>1, SoundOf DEF Delta, Full
<1>3. CASE Choose(j)
  <2>1. /\ covered' = {} /\ pc'[j] \in {"before", "deltaEpoch"} /\ unjournalled' = unjournalled
        /\ Rows' /\ faults' = faults
    BY <1>0, <1>1, <1>3 DEF Choose, Goto, Sound, Covers
  <2> QED BY <1>0, <2>1, SoundOf DEF Delta, Full
<1>4. CASE DeltaEpoch(j)
  <2>1. /\ covered' = {} /\ pc'[j] \in {"before", "deltaJournal"} /\ unjournalled' = unjournalled
        /\ Rows' /\ faults' = faults /\ source' = epoch
    BY <1>0, <1>1, <1>4 DEF DeltaEpoch, Goto, Sound, Covers
  <2> QED BY <1>0, <2>1, SoundOf DEF Delta, Full
<1>5. CASE DeltaJournal(j)
  <2>1. /\ covered' = {} /\ covered = {} /\ pc'[j] \in {"before", "changed"} /\ unjournalled' = unjournalled
        /\ Rows' /\ faults' = faults /\ source' = source /\ (pc'[j] = "changed" => scan' = rows)
        /\ pc[j] = "deltaJournal"
    BY <1>0, <1>1, <1>5 DEF DeltaJournal, Goto, Sound, Covers, Delta
  <2>2. ASSUME NEW p \in Pages \ Lost(unjournalled)
        PROVE  /\ source <= epoch
               /\ pc'[j] = "changed" => p \in todo' \/ Good(scan[p], source, p)'
    <3>1. source <= epoch
      BY <2>1, <2>2 DEF Sound, Scanned, Delta
    <3>2. ASSUME pc'[j] = "changed", p \notin todo' PROVE Good(scan[p], source, p)'
      <4>1. Good(rows[p], source, p)
        BY <1>5, <2>2, <3>1, <3>2, DeltaIsComplete
      <4> QED BY <1>0, <2>1, <3>2, <4>1 DEF Good, Committed, Changed, corpus
    <3> QED BY <3>1, <3>2
  <2> QED BY <1>0, <2>1, <2>2, SoundOf DEF Delta, Full
<1>6. CASE \E q \in Pages : ReadChanged(j, q) \/ ScanPage(j, q)
  <2>1. PICK q \in Pages : ReadChanged(j, q) \/ ScanPage(j, q)
    BY <1>6
  <2>2. /\ scan' = [scan EXCEPT ![q] = wiki[q]] /\ todo' = todo \ {q}
        /\ UNCHANGED <<tables, advisory, pc, source, faults, unjournalled, covered>>
        /\ pc[j] \in {"changed", "scan"}
    BY <2>1 DEF ReadChanged, ScanPage
  <2>3. /\ Rows' /\ faults' = faults /\ (advisory' = Nil => covered' = {})
        /\ (pc'[j] \in {"start", "deltaEpoch"} \cup Delta => covered' = {})
    BY <1>1, <2>2 DEF Sound, Covers
  <2>4. ASSUME NEW p \in Pages \ Lost(unjournalled \ covered)
        PROVE  source <= epoch /\ (p \in todo' \/ Good(scan[p], source, p)')
    <3>1. source <= epoch /\ (p \in todo \/ Good(scan[p], source, p))
      BY <2>2, <2>4 DEF Sound, Scanned, Delta, Full
    <3>2. CASE p = q
      <4>1. Good(wiki[p], source, p)
        BY <3>1, ReadIsGood DEF Sound
      <4>2. scan'[p] = wiki[p] /\ source' = source
        BY <1>0, <2>2, <3>2
      <4>3. Good(scan[p], source, p)'
        BY <1>0, <4>1, <4>2 DEF Good, Committed, Changed, corpus
      <4> QED BY <3>1, <4>3
    <3>3. CASE p # q /\ p \notin todo
      <4>1. scan'[p] = scan[p] /\ source' = source
        BY <1>0, <2>2, <3>3
      <4>2. Good(scan[p], source, p)'
        BY <1>0, <3>1, <3>3, <4>1 DEF Good, Committed, Changed, corpus
      <4> QED BY <3>1, <4>2
    <3>4. CASE p # q /\ p \in todo
      BY <2>2, <3>1, <3>4
    <3> QED BY <3>2, <3>3, <3>4
  <2> QED BY <1>0, <2>2, <2>3, <2>4, SoundOf DEF Delta, Full
<1>7. CASE Before(j)
  <2>1. /\ covered' = unjournalled /\ unjournalled' = unjournalled /\ pc'[j] = "active"
        /\ Rows' /\ faults' = faults /\ source' = epoch /\ advisory' = advisory /\ advisory # Nil
    BY <1>0, <1>1, <1>7, Numbers DEF Before, Goto, Typed, OneRun
  <2> QED BY <1>0, <2>1, SoundOf DEF Delta, Full
<1>8. CASE Walk(j)
  <2>1. /\ covered' = covered /\ unjournalled' = unjournalled /\ pc'[j] = "scan" /\ pc[j] = "walk"
        /\ Rows' /\ faults' = faults /\ source' = source /\ advisory' = advisory /\ advisory # Nil
        /\ todo' = Present(wiki) /\ scan' = Empty
    BY <1>0, <1>1, <1>8, Numbers DEF Walk, Goto, Typed, OneRun
  <2>2. ASSUME NEW p \in Pages \ Lost(unjournalled \ covered)
        PROVE  source <= epoch /\ (p \in todo' \/ Good(scan[p], source, p)')
    <3>1. source <= epoch
      BY <2>1, <2>2 DEF Sound, Scanned, Full
    <3>2. CASE p \notin todo'
      <4>1. Good(wiki[p], source, p)
        BY <3>1, ReadIsGood DEF Sound
      <4>2. scan'[p] = wiki[p]
        BY <2>1, <3>2 DEF Present, Empty
      <4>3. Good(scan[p], source, p)'
        BY <1>0, <2>1, <4>1, <4>2 DEF Good, Committed, Changed, corpus
      <4> QED BY <3>1, <4>3
    <3> QED BY <3>1, <3>2
  <2> QED BY <1>0, <2>1, <2>2, SoundOf DEF Delta, Full
<1>9. CASE NotActive(j) \/ After(j) \/ NotActiveAgain(j)
  <2>1. /\ UNCHANGED <<corpus, tables, faults, query, unjournalled>>
        /\ pc[j] \in {"active", "scan", "activeAgain"} /\ RunStep(j)
        /\ (pc[j] = "scan" => todo = {})
    BY <1>9 DEF NotActive, After, NotActiveAgain, RunStep
  <2>2. CASE Again(j)
    BY <2>1, <2>2, SoundAgain
  <2>3. CASE ~Again(j)
    <3>1. /\ UNCHANGED <<advisory, source, todo, scan, covered>>
          /\ \/ pc[j] = "active" /\ pc'[j] = "walk"
             \/ pc[j] = "scan" /\ pc'[j] = "activeAgain"
             \/ pc[j] = "activeAgain" /\ pc'[j] = "publish"
      BY <1>0, <1>9, <2>3 DEF NotActive, After, NotActiveAgain, Goto
    <3>2. Rows' /\ advisory # Nil
      BY <1>1, <2>1, <3>1, Numbers DEF Typed, OneRun
    <3>3. pc'[j] \in {"activeAgain", "publish"} => todo' = {}
      BY <2>1, <3>1 DEF Sound, Covers
    <3>4. ASSUME NEW p \in Pages \ Lost(unjournalled \ covered)
          PROVE  /\ source <= epoch
                 /\ pc'[j] \in {"activeAgain", "publish"} => Good(scan[p], source, p)'
      <4>1. /\ source <= epoch
            /\ pc[j] \in {"scan", "activeAgain"} => p \in todo \/ Good(scan[p], source, p)
        BY <2>1, <3>4 DEF Sound, Scanned, Full
      <4>2. pc'[j] \in {"activeAgain", "publish"} => Good(scan[p], source, p)
        BY <2>1, <3>1, <3>3, <4>1
      <4> QED BY <2>1, <3>1, <4>1, <4>2 DEF Good, Committed, Changed, corpus
    <3> QED BY <1>0, <2>1, <3>1, <3>2, <3>3, <3>4, SoundOf DEF Delta, Full
  <2> QED BY <2>2, <2>3
<1>10. CASE Publish(j)
  <2>1. /\ Leave(j) /\ UNCHANGED <<corpus, faults>>
        /\ pc[j] = "publish" \/ (pc[j] = "changed" /\ todo = {})
    BY <1>10 DEF Publish
  <2>2. Forget /\ pc' = [pc EXCEPT ![j] = "idle"] /\ unjournalled' \subseteq unjournalled
    BY <1>10 DEF Publish, Leave, Goto
  <2>0. RunStep(j) /\ faults' \in Nat /\ faults' >= faults
    BY <1>0, <1>10, <2>1 DEF RunStep
  <2>3. CASE UNCHANGED <<tables, unjournalled>>
    <3>1. Rows'
      BY <1>1, <2>3
    <3> QED BY <1>0, <2>0, <2>2, <3>1, SoundLeave
  <2>4. CASE ~UNCHANGED <<tables, unjournalled>>
    <3>1. /\ rows' = scan /\ checkpoint' = source
          /\ unjournalled' = IF pc[j] = "publish" THEN unjournalled \ covered ELSE unjournalled
      BY <1>10, <2>4 DEF Publish
    <3>2. unjournalled' = unjournalled \ covered /\ todo = {}
      BY <2>1, <3>1 DEF Sound, Covers, Delta
    <3>3. ASSUME NEW p \in Pages \ Lost(unjournalled') PROVE Good(rows[p], checkpoint, p)'
      <4>1. Good(scan[p], source, p)
        BY <2>1, <3>2, <3>3 DEF Sound, Scanned
      <4> QED BY <2>1, <3>1, <4>1 DEF Good, Committed, Changed, corpus
    <3>4. Rows'
      BY <3>3 DEF Rows
    <3> QED BY <1>0, <2>0, <2>2, <3>4, SoundLeave
  <2> QED BY <2>3, <2>4
<1>11. CASE RunDies(j)
  <2>1. Forget /\ pc' = [pc EXCEPT ![j] = "idle"] /\ UNCHANGED <<tables, unjournalled>>
        /\ faults' = faults + 1
    BY <1>11 DEF RunDies, Leave, Goto
  <2>2. Rows' /\ faults' \in Nat /\ faults' >= faults /\ unjournalled' \subseteq unjournalled
    BY <1>0, <1>1, <2>1
  <2> QED BY <1>0, <1>11, <2>1, <2>2, SoundLeave
<1> QED BY <1>2, <1>3, <1>4, <1>5, <1>6, <1>7, <1>8, <1>9, <1>10, <1>11 DEF RunStep

LEMMA SoundStep == Typed /\ Typed' /\ Deltas /\ Sound /\ [Next]_vars => Sound'
<1> SUFFICES ASSUME Typed, Typed', Deltas, Sound, [Next]_vars PROVE Sound'
  OBVIOUS
<1>1. CASE Begin \/ Ends \/ \E p \in Pages, c \in Text : Write(p, c)
  <2>1. UNCHANGED <<tables, advisory, run, query, covered>>
    BY <1>1 DEF Begin, Ends, Finish, Append, Drop, Write
  <2> QED BY <1>1, <2>1, SoundCorpus
<1>2. CASE Restore
  BY <1>2, SoundRestore
<1>3. CASE \E j \in Projectors : RunStep(j) \/ RunDies(j)
  BY <1>3, SoundRun
<1>4. CASE ReadHealth \/ CheckActive \/ Withhold \/ Serve \/ Fetch \/ UNCHANGED vars
  <2>1. UNCHANGED <<corpus, tables, advisory, run, faults, unjournalled, covered>>
    BY <1>4 DEF vars, ReadHealth, CheckActive, Withhold, Serve, Fetch, corpus, tables, run
  <2> QED BY <2>1 DEF Sound, Tags, Recorded, Rows, Scanned, Covers, Good, Committed, Changed,
                      Lost, corpus, tables, run
<1> QED BY <1>1, <1>2, <1>3, <1>4 DEF Next

\* The projection takes no lock of the corpus, reads page after page and
\* carries most rows over: when it has caught up with a corpus at rest, every
\* row is the page, apart from changes that never reached the journal.  For
\* any number of pages, projectors, transactions, kills and restores.
THEOREM FollowsCorpus == Spec => []ProjectionFollowsCorpus
<1>1. Init => Deltas
  BY DEF Init, Deltas
<1>2. Typed /\ Sound => ProjectionFollowsCorpus
  <2> SUFFICES ASSUME Typed, Sound, ~active, checkpoint = epoch, NEW p \in Pages \ Unjournalled
               PROVE  rows[p] = wiki[p]
    BY DEF ProjectionFollowsCorpus
  <2>1. epoch \in Nat /\ checkpoint # Nil /\ wpc = "idle"
    BY Numbers DEF Typed, TypeOK
  <2>2. Good(rows[p], checkpoint, p)
    BY <2>1 DEF Sound, Rows, Lost, Unjournalled
  <2>3. ASSUME NEW r \in journal PROVE ~(r.epoch > epoch)
    <3>1. r.epoch \in Nat /\ r.epoch <= epoch
      BY Numbers DEF Typed, TypeOK, Sound, Recorded
    <3> QED BY <2>1, <3>1
  <2> QED BY <2>1, <2>2, <2>3 DEF Good, Committed
<1> QED BY TypedInit, TypedStep, DeltasStep, SoundInit, SoundStep, <1>1, <1>2, PTL DEF Spec

-----------------------------------------------------------------------------
(* Queries                                                                 *)

\* A delta from the epoch it goes to has nothing to read.
Carried == \A j \in Projectors : pc[j] = "changed" /\ source = checkpoint => todo = {} /\ scan = rows

\* What a full scan is about to publish, when it looked no transaction was at
\* work: one that is, has begun since.
Settled ==
  \A j \in Projectors : \A p \in Pages \ Lost(unjournalled \ covered) :
    pc[j] = "publish" /\ source = epoch /\ wpc = "body" => scan[p] = snap[p]

\* The same of a query that is about to serve rows.
Asked ==
  /\ rpc # "idle" => health \in Nat /\ checkpoint # Nil /\ (~back => health <= checkpoint)
  /\ rpc = "epoch" /\ ~back /\ wpc = "body" /\ epoch <= health =>
       \A p \in Pages \ Lost(unjournalled) : rows[p] = snap[p]

Queried == Carried /\ Settled /\ Asked

LEMMA QueriedInit == Init => Queried
BY DEF Init, Queried, Carried, Settled, Asked

\* At rest, what is good as of the current epoch is the page.
LEMMA GoodAtRest ==
  ASSUME Typed, Recorded, NEW p \in Pages, NEW c, NEW since, Good(c, since, p),
         wpc # "body", since = epoch
  PROVE  c = Committed[p]
<1>1. epoch \in Nat
  BY Numbers DEF Typed, TypeOK
<1>2. ASSUME NEW r \in journal PROVE ~(r.epoch > epoch)
  <2>1. r.epoch \in Nat /\ r.epoch <= epoch
    BY Numbers DEF Typed, TypeOK, Recorded
  <2> QED BY <1>1, <2>1
<1> QED BY <1>1, <1>2 DEF Good

LEMMA QueriedCorpus ==
  ASSUME Typed, Sound, Queried, UNCHANGED <<tables, advisory, run, query, covered>>,
         Begin \/ Ends \/ Restore \/ \E q \in Pages, d \in Text : Write(q, d)
  PROVE  Queried'
<1>0. /\ UNCHANGED <<rows, checkpoint, pc, source, todo, scan, rpc, health, back, covered>>
      /\ epoch \in Nat /\ checkpoint \in Nat \cup {Nil}
  BY Numbers DEF tables, run, query, Typed, TypeOK
<1>1. CASE wpc' # "body"
  BY <1>0, <1>1 DEF Queried, Carried, Settled, Asked
<1>2. CASE Begin
  <2>1. /\ wpc = "idle" /\ wpc' = "body" /\ snap' = wiki
        /\ UNCHANGED <<epoch, unjournalled>> /\ Committed = wiki
    BY <1>2 DEF Begin, Committed
  <2>2. ASSUME NEW j \in Projectors, NEW p \in Pages \ Lost(unjournalled \ covered),
               pc[j] = "publish", source = epoch
        PROVE  scan[p] = wiki[p]
    <3>1. Good(scan[p], source, p)
      BY <2>2 DEF Sound, Scanned, Covers
    <3> QED BY <2>1, <2>2, <3>1, GoodAtRest DEF Sound
  <2>3. ASSUME NEW p \in Pages \ Lost(unjournalled), rpc = "epoch", ~back, epoch <= health
        PROVE  rows[p] = wiki[p]
    <3>1. health \in Nat /\ checkpoint \in Nat /\ checkpoint # Nil /\ health <= checkpoint
      BY <1>0, <2>3 DEF Queried, Asked
    <3>2. Good(rows[p], checkpoint, p)
      BY <2>3, <3>1 DEF Sound, Rows
    <3>3. checkpoint = epoch
      BY <1>0, <2>3, <3>1, <3>2 DEF Good
    <3> QED BY <2>1, <3>2, <3>3, GoodAtRest DEF Sound
  <2> QED BY <1>0, <2>1, <2>2, <2>3 DEF Queried, Carried, Settled, Asked
<1>3. CASE \E q \in Pages, d \in Text : Write(q, d)
  <2>1. UNCHANGED <<epoch, wpc, snap, unjournalled>>
    BY <1>3 DEF Write
  <2> QED BY <1>0, <2>1 DEF Queried, Carried, Settled, Asked
<1>4. Ends \/ Restore => wpc' # "body"
  BY DEF Ends, Finish, Append, Drop, Restore
<1> QED BY <1>1, <1>2, <1>3, <1>4

LEMMA QueriedRun ==
  ASSUME Typed, Typed', Sound, Deltas, Queried, NEW j \in Projectors, RunStep(j) \/ RunDies(j)
  PROVE  Queried'
<1>0. /\ UNCHANGED <<corpus, rpc, health>> /\ pc \in [Projectors -> PC] /\ epoch \in Nat
      /\ source \in Nat /\ checkpoint \in Nat \cup {Nil}
  BY Numbers DEF Typed, TypeOK, query, RunStep, RunDies, Lock, Choose, DeltaEpoch,
     DeltaJournal, Before, NotActive, Walk, After, NotActiveAgain, Publish, ReadChanged, ScanPage
<1>1. \A i \in Projectors : i # j => pc'[i] = "idle"
  BY Alone
<1>2. Carried'
  <2>1. ASSUME pc'[j] = "changed", source' = checkpoint' PROVE todo' = {} /\ scan' = rows'
    <3>1. CASE DeltaJournal(j)
      BY <1>0, <2>1, <3>1 DEF DeltaJournal, Goto, tables
    <3>2. CASE \E p \in Pages : ReadChanged(j, p) \/ ScanPage(j, p)
      BY <2>1, <3>2 DEF ReadChanged, ScanPage, tables, Queried, Carried
    <3>3. CASE ~(DeltaJournal(j) \/ \E p \in Pages : ReadChanged(j, p) \/ ScanPage(j, p))
      <4>1. pc'[j] # "changed"
        BY <1>0, <3>3 DEF RunStep, RunDies, Lock, Choose, DeltaEpoch, Before, NotActive, Walk,
           After, NotActiveAgain, Publish, Leave, Again, Goto
      <4> QED BY <2>1, <4>1
    <3> QED BY <3>1, <3>2, <3>3
  <2> QED BY <1>1, <2>1 DEF Carried
<1>3. Settled'
  <2>1. pc'[j] = "publish" => ~active
    BY <1>0 DEF RunStep, RunDies, Lock, Choose, DeltaEpoch, DeltaJournal, Before, NotActive, Walk,
       After, NotActiveAgain, Publish, ReadChanged, ScanPage, Leave, Again, Goto
  <2>2. wpc' = wpc /\ (wpc = "body" => active)
    BY <1>0 DEF corpus, Typed
  <2> QED BY <1>1, <2>1, <2>2 DEF Settled
<1>4. CASE UNCHANGED <<tables, back, unjournalled>>
  <2>1. Asked'
    BY <1>0, <1>4 DEF Queried, Asked, corpus, tables
  <2> QED BY <1>2, <1>3, <2>1 DEF Queried
<1>5. CASE ~UNCHANGED <<tables, back, unjournalled>>
  <2>1. Publish(j)
    BY <1>5 DEF RunStep, RunDies, Lock, Choose, DeltaEpoch, DeltaJournal, Before, NotActive, Walk,
       After, NotActiveAgain, ReadChanged, ScanPage, query
  <2>2. /\ pc[j] = "publish" \/ (pc[j] = "changed" /\ todo = {})
        /\ rows' = scan /\ checkpoint' = source
        /\ back' = (rpc # "idle" /\ (back \/ source < health))
        /\ unjournalled' = IF pc[j] = "publish" THEN unjournalled \ covered ELSE unjournalled
    BY <1>5, <2>1 DEF Publish
  <2>3. unjournalled' = unjournalled \ covered /\ todo = {}
    BY <2>2 DEF Sound, Covers, Delta
  <2>0. rpc # "idle" /\ ~back' => ~back /\ ~(source < health)
    BY <2>2, Zenon
  <2>4. rpc' # "idle" => health' \in Nat /\ checkpoint' # Nil /\ (~back' => health' <= checkpoint')
    <3>1. rpc # "idle" => health \in Nat
      BY DEF Queried, Asked
    <3> QED BY <1>0, <2>0, <2>2, <3>1, Numbers
  <2>5. ASSUME rpc = "epoch", ~back', wpc = "body", epoch <= health,
               NEW p \in Pages \ Lost(unjournalled')
        PROVE  scan[p] = snap[p]
    <3>0. ~back /\ ~(source < health)
      BY <2>0, <2>5
    <3>1. health \in Nat /\ ~back /\ checkpoint \in Nat /\ health <= checkpoint /\ health <= source
      BY <1>0, <2>5, <3>0 DEF Queried, Asked
    <3>2. source <= epoch
      BY <2>2, <2>3, <2>5 DEF Sound, Scanned, Delta, Full
    <3>3. source = epoch /\ health = epoch
      BY <1>0, <2>5, <3>1, <3>2
    <3>4. CASE pc[j] = "publish"
      BY <2>3, <2>5, <3>3, <3>4 DEF Queried, Settled
    <3>5. CASE pc[j] = "changed"
      <4>1. checkpoint = source
        BY <1>0, <3>1, <3>3, <3>5 DEF Deltas
      <4>2. scan = rows
        BY <3>5, <4>1 DEF Queried, Carried
      <4>3. unjournalled' = unjournalled
        BY <2>2, <3>5
      <4> QED BY <2>5, <3>1, <4>2, <4>3 DEF Queried, Asked
    <3> QED BY <2>2, <3>4, <3>5
  <2>6. Asked'
    BY <1>0, <2>2, <2>4, <2>5 DEF Asked, corpus
  <2> QED BY <1>2, <1>3, <2>6 DEF Queried
<1> QED BY <1>4, <1>5

LEMMA QueriedStep == Typed /\ Typed' /\ Deltas /\ Sound /\ Queried /\ [Next]_vars => Queried'
<1> SUFFICES ASSUME Typed, Typed', Deltas, Sound, Queried, [Next]_vars PROVE Queried'
  OBVIOUS
<1>1. CASE Begin \/ Ends \/ Restore \/ \E p \in Pages, c \in Text : Write(p, c)
  <2>1. UNCHANGED <<tables, advisory, run, query, covered>>
    BY <1>1 DEF Begin, Ends, Finish, Append, Drop, Restore, Write
  <2> QED BY <1>1, <2>1, QueriedCorpus
<1>2. CASE \E j \in Projectors : RunStep(j) \/ RunDies(j)
  BY <1>2, QueriedRun
<1>3. CASE ReadHealth \/ CheckActive \/ Withhold \/ Serve \/ Fetch
  <2>1. UNCHANGED <<corpus, tables, run, unjournalled, covered>>
    BY <1>3 DEF ReadHealth, CheckActive, Withhold, Serve, Fetch
  <2>2. Carried' /\ Settled'
    BY <2>1 DEF Queried, Carried, Settled, corpus, tables, run
  <2>3. (rpc' = "epoch" => ~active) /\ (wpc' = "body" => active)
    BY <1>3, <2>1 DEF ReadHealth, CheckActive, Withhold, Serve, Fetch, Close, corpus, Typed
  <2>4. checkpoint \in Nat \cup {Nil} /\ checkpoint' = checkpoint
    BY <2>1, Numbers DEF Typed, TypeOK, tables
  <2>5. rpc' # "idle" => health' \in Nat /\ checkpoint' # Nil /\ (~back' => health' <= checkpoint')
    BY <1>3, <2>4 DEF ReadHealth, CheckActive, Withhold, Serve, Fetch, Close, Queried, Asked
  <2> QED BY <2>2, <2>3, <2>5 DEF Queried, Asked
<1>4. CASE UNCHANGED vars
  BY <1>4 DEF vars, Queried, Carried, Settled, Asked
<1> QED BY <1>1, <1>2, <1>3, <1>4 DEF Next

\* A query that reads checkpoint, marker and epoch without any lock, while
\* transactions and projection runs come and go, serves committed rows only,
\* unless the checkpoint went back under it.
THEOREM ServesCommitted == Spec => ServedRowsAreCommitted
<1>1. Init => Deltas
  BY DEF Init, Deltas
<1>2. Typed /\ Sound /\ Queried /\ [Next]_vars =>
        [Serve /\ ~back => \A p \in Pages \ Unjournalled : rows[p] = Committed[p]]_vars
  <2> SUFFICES ASSUME Typed, Sound, Queried, Serve, ~back, NEW p \in Pages \ Unjournalled
               PROVE  rows[p] = Committed[p]
    OBVIOUS
  <2>1. /\ epoch \in Nat /\ health \in Nat /\ checkpoint \in Nat /\ checkpoint # Nil
        /\ health <= checkpoint /\ epoch <= health /\ rpc = "epoch" /\ p \notin Lost(unjournalled)
    BY Numbers DEF Typed, TypeOK, Serve, Queried, Asked, Lost, Unjournalled
  <2>2. CASE wpc = "body"
    BY <2>1, <2>2 DEF Queried, Asked, Committed
  <2>3. CASE wpc # "body"
    <3>1. Good(rows[p], checkpoint, p)
      BY <2>1 DEF Sound, Rows
    <3>2. checkpoint = epoch
      BY <2>1, <3>1 DEF Good
    <3> QED BY <2>3, <3>1, <3>2, GoodAtRest DEF Sound
  <2> QED BY <2>2, <2>3
<1> QED BY TypedInit, TypedStep, DeltasStep, SoundInit, SoundStep, QueriedInit, QueriedStep,
           <1>1, <1>2, PTL DEF Spec, ServedRowsAreCommitted
=============================================================================
