------------------------- MODULE CorpusBackupProofs -------------------------
(* Machine-checked theorems about CorpusBackup.                            *)
EXTENDS CorpusBackup, FiniteSetTheorems, TLAPS

-----------------------------------------------------------------------------
(* Types                                                                   *)

Fields == {"pc", "attempt", "copy", "dir", "forced", "over", "refs", "sees", "data", "todo",
           "unchecked", "rewritten"}

\* The locals of a call.
IsLocal(c) ==
  /\ DOMAIN c = Fields
  /\ c.pc \in PC /\ c.attempt \in 1..Attempts /\ c.dir \in 0..MaxDirs
  /\ c.copy \subseteq Files /\ c.todo \subseteq Files
  /\ c.rewritten \subseteq Files /\ c.forced \subseteq Files
  /\ c.pc = "retry" => c.attempt < Attempts

Locals == DOMAIN loc = Procs /\ \A p \in Procs : IsLocal(loc[p])

\* A name refers to an inode that is there.
Vault ==
  /\ path \in [Files -> 0..MaxInode] /\ DOMAIN ino = Inodes
  /\ \A i \in Inodes : ino[i] = None \/ (ino[i] \in Inode /\ ino[i].ctime <= now)
  /\ \A f \in Files : path[f] # 0 => ino[path[f]] \in Inode
  /\ now \in 0..MaxTime /\ ops \in 0..MaxOps

Folders == DOMAIN dirs = Dirs /\ \A d \in Dirs : dirs[d] = None \/ dirs[d] \in Staging

\* Files that are copied under the fence stay there: who would delete them
\* waits for it.
Fenced ==
  \A p \in Procs : loc[p].pc = "copy" => p \in fence /\ \A f \in loc[p].forced : path[f] # 0

\* What is noted of the past, for the properties only.
Past == put \in [Procs -> SUBSET Files] /\ meddled \in [Procs -> SUBSET Files]

Typed ==
  /\ Locals /\ Vault /\ Folders /\ Fenced
  /\ fence \subseteq Procs /\ parent \in Procs \cup {None} /\ kills \in 0..MaxKills
  /\ Past

LEMMA NoLocalsIs ==
  /\ IsLocal(NoLocals) /\ NoLocals.pc = "new" /\ NoLocals.attempt = 1
  /\ IsLocal([NoLocals EXCEPT !.pc = "done"]) /\ [NoLocals EXCEPT !.pc = "done"].pc = "done"
BY BackupAssumption DEF NoLocals, IsLocal, Fields, PC

\* Moving ctimes moves nothing else.
Eased ==
  \A i \in Inodes :
    /\ ino'[i] = None <=> ino[i] = None
    /\ ino[i] # None => /\ ino'[i] \in Inode /\ ino'[i].bytes = ino[i].bytes
                        /\ ino'[i].mtime = ino[i].mtime /\ ino'[i].mode = ino[i].mode
                        /\ ino'[i].ctime \in {ino[i].ctime, now}

LEMMA TouchIs ==
  ASSUME Vault, NEW i \in Inodes, NEW I
  PROVE  LET t == Touch(I) IN
         /\ DOMAIN t = Inodes /\ t[i] = None <=> ino[i] = None
         /\ ino[i] # None => /\ t[i] \in Inode /\ t[i].bytes = ino[i].bytes
                             /\ t[i].mtime = ino[i].mtime /\ t[i].mode = ino[i].mode
                             /\ t[i].ctime \in {ino[i].ctime, now}
                             /\ i \in I => t[i].ctime = now
<1>1. now \in 0..MaxTime /\ (ino[i] = None \/ ino[i] \in Inode)
  BY DEF Vault
<1>2. DOMAIN Touch(I) = Inodes
      /\ Touch(I)[i] = IF i \in I /\ ino[i] # None THEN [ino[i] EXCEPT !.ctime = now] ELSE ino[i]
  BY DEF Touch
<1>3. CASE i \in I /\ ino[i] # None
  <2>1. [ino[i] EXCEPT !.ctime = now] \in Inode
    BY <1>1, <1>3 DEF Inode
  <2>2. /\ [ino[i] EXCEPT !.ctime = now].bytes = ino[i].bytes
        /\ [ino[i] EXCEPT !.ctime = now].mtime = ino[i].mtime
        /\ [ino[i] EXCEPT !.ctime = now].mode = ino[i].mode
        /\ [ino[i] EXCEPT !.ctime = now].ctime = now
    BY <1>1, <1>3 DEF Inode
  <2> QED BY <1>2, <1>3, <2>1, <2>2, BackupAssumption
<1>4. CASE ~(i \in I /\ ino[i] # None)
  BY <1>1, <1>2, <1>4
<1> QED BY <1>3, <1>4

LEMMA TouchEased ==
  ASSUME Vault, ino' = ino \/ \E I : ino' = Touch(I)
  PROVE  Eased /\ DOMAIN ino' = Inodes
<1>1. CASE ino' = ino
  BY <1>1 DEF Eased, Vault
<1>2. CASE \E I : ino' = Touch(I)
  <2>1. PICK I : ino' = Touch(I)
    BY <1>2
  <2>2. DOMAIN Touch(I) = Inodes
    BY DEF Touch
  <2> QED BY <2>1, <2>2, TouchIs DEF Eased
<1> QED BY <1>1, <1>2

LEMMA VaultEased ==
  ASSUME Vault, Eased, DOMAIN ino' = Inodes, UNCHANGED <<path, now, ops>>
  PROVE  Vault'
<1>1. now \in Int /\ \A i \in Inodes : ino[i] # None => ino[i].ctime <= now
  BY BackupAssumption DEF Vault
<1>2. \A i \in Inodes : ino'[i] = None \/ (ino'[i] \in Inode /\ ino'[i].ctime <= now)
  BY <1>1 DEF Eased
<1>3. \A f \in Files : path[f] # 0 => path[f] \in Inodes /\ ino[path[f]] # None
  BY BackupAssumption DEF Vault, Inodes
<1>4. \A f \in Files : path[f] # 0 => ino'[path[f]] \in Inode
  BY <1>3 DEF Eased
<1> QED BY <1>2, <1>4 DEF Vault

\* What is noted are files of the corpus.
LEMMA RelinkedType ==
  ASSUME Past, NEW I
  PROVE  Relinked(I) \in [Procs -> SUBSET Files]
         /\ \A p \in Procs : [Relinked(I) EXCEPT ![p] = {}] \in [Procs -> SUBSET Files]
BY DEF Past, Relinked, Stats

\* A step of one call.
LEMMA LocalsStep ==
  ASSUME Locals, NEW p \in Procs, NEW c, loc' = [loc EXCEPT ![p] = c], IsLocal(c)
  PROVE  Locals'
BY DEF Locals

LEMMA TypedInit == Init => Typed
<1> SUFFICES ASSUME Init PROVE Typed
  OBVIOUS
<1>1. Vault
  <2>1. path \in [Files -> 0..MaxInode] /\ \A f \in Files : path[f] \in Inodes /\ path[f] <= NumFiles
    BY BackupAssumption DEF Init, Files, Inodes
  <2>2. \A i \in Inodes : ino[i] = None \/ (ino[i] \in Inode /\ ino[i].ctime <= now)
    <3>1. \A t \in {0, 1} : LET x == [bytes |-> 0, mtime |-> t, ctime |-> t, mode |-> 0]
                            IN  x \in Inode /\ x.ctime <= 1
      BY BackupAssumption DEF Inode
    <3>2. \A i \in Inodes : ino[i] = None \/ \E t \in {0, 1} :
                              ino[i] = [bytes |-> 0, mtime |-> t, ctime |-> t, mode |-> 0]
      BY DEF Init
    <3>3. now = 1
      BY DEF Init
    <3> QED BY <3>1, <3>2, <3>3
  <2>3. \A i \in Inodes : i <= NumFiles => ino[i] # None
    <3>1. \A i \in Inodes : i <= NumFiles => \E t \in {0, 1} :
            ino[i] = [bytes |-> 0, mtime |-> t, ctime |-> t, mode |-> 0]
      BY BackupAssumption DEF Init, Inodes
    <3>2. \A t \in {0, 1} : [bytes |-> 0, mtime |-> t, ctime |-> t, mode |-> 0] \in Inode
      BY BackupAssumption DEF Inode
    <3> QED BY <3>1, <3>2, BackupAssumption
  <2> QED BY <2>1, <2>2, <2>3, BackupAssumption DEF Init, Vault
<1>2. Locals /\ Fenced
  BY NoLocalsIs DEF Init, Locals, Fenced
<1> QED BY <1>1, <1>2, BackupAssumption DEF Init, Typed, Folders, Past

\* Noting what was written leaves the rest of the locals alone.
LEMMA SeenKeeps ==
  ASSUME Typed, NEW f \in Files, NEW b, Seen(f, b), UNCHANGED <<path, fence>>
  PROVE  Locals' /\ Fenced'
         /\ \A p \in Procs : loc'[p].pc = loc[p].pc /\ loc'[p].dir = loc[p].dir
<1>1. DOMAIN loc' = Procs
  BY DEF Seen
<1>2. ASSUME NEW p \in Procs
      PROVE  /\ IsLocal(loc'[p]) /\ loc'[p].pc = loc[p].pc /\ loc'[p].forced = loc[p].forced
             /\ loc'[p].dir = loc[p].dir
  <2>1. IsLocal(loc[p])
    BY DEF Typed, Locals
  <2>2. loc'[p] = IF p \in fence THEN [loc[p] EXCEPT !.sees[f] = @ \cup {b}] ELSE loc[p]
    BY DEF Seen
  <2> QED BY <2>1, <2>2 DEF IsLocal, Fields
<1> QED BY <1>1, <1>2 DEF Typed, Locals, Fenced

LEMMA TypedWriters ==
  ASSUME Typed, NEW f \in Files,
         Publish(f) \/ Delete(f) \/ WriteInPlace(f) \/ Pin(f) \/ Chmod(f)
  PROVE  Typed'
<1>0. ops \in Nat /\ ops + 1 <= MaxOps /\ ops' = ops + 1 /\ ops' \in 0..MaxOps /\ now \in 0..MaxTime
      /\ now <= now /\ Vault
  BY BackupAssumption DEF Typed, Vault, Publish, Delete, WriteInPlace, Pin, Chmod, Writes
<1>1. CASE Publish(f)
  <2> DEFINE t == Touch({path[f]})
             n == [bytes |-> ops', mtime |-> now, ctime |-> now, mode |-> 0]
  <2>1. PICK i \in Inodes :
          ino[i] = None /\ path' = [path EXCEPT ![f] = i] /\ ino' = [t EXCEPT ![i] = n]
    BY <1>1 DEF Publish
  <2>2. n \in Inode /\ n.ctime <= now
    BY <1>0 DEF Inode
  <2>3. UNCHANGED <<now, put, fence, parent, dirs, loc, kills>> /\ meddled' = Relinked({path[f]})
        /\ fence = {}
    BY <1>1 DEF Publish
  <2>a. DOMAIN t = Inodes /\ \A j \in Inodes :
          /\ t[j] = None <=> ino[j] = None
          /\ t[j] # None => t[j] \in Inode /\ t[j].ctime <= now
    <3>1. DOMAIN t = Inodes
      BY DEF Touch
    <3>2. \A j \in Inodes : ino[j] # None => ino[j].ctime <= now
      BY <1>0 DEF Vault
    <3> QED BY <3>1, <3>2, <1>0, TouchIs
  <2> HIDE DEF t, n
  <2>4. Vault'
    <3>1. path' \in [Files -> 0..MaxInode] /\ i \in 0..MaxInode
      BY <2>1, BackupAssumption DEF Typed, Vault, Inodes
    <3>2. \A j \in Inodes : ino'[j] = None \/ (ino'[j] \in Inode /\ ino'[j].ctime <= now)
      BY <2>1, <2>2, <2>a
    <3>3. ASSUME NEW g \in Files, path'[g] # 0 PROVE ino'[path'[g]] \in Inode
      <4>1. CASE path'[g] = i
        BY <4>1, <2>1, <2>2, <2>a
      <4>2. CASE path'[g] # i
        <5>1. path'[g] = path[g] /\ path[g] # i /\ path[g] \in Inodes
          BY <4>2, <3>3, <2>1, BackupAssumption DEF Typed, Vault, Inodes
        <5>2. ino[path[g]] # None
          BY <5>1, <3>3, BackupAssumption DEF Typed, Vault
        <5> QED BY <5>1, <5>2, <2>1, <2>a
      <4> QED BY <4>1, <4>2
    <3> QED BY <3>1, <3>2, <3>3, <2>1, <2>3, <2>a, <1>0 DEF Vault
  <2>5. Fenced' /\ Locals'
    BY <2>3 DEF Typed, Fenced, Locals
  <2>6. Past'
    BY <2>3, RelinkedType DEF Typed, Past
  <2> QED BY <2>3, <2>4, <2>5, <2>6 DEF Typed, Folders
<1>2. CASE Delete(f)
  <2>1. UNCHANGED <<now, put, fence, parent, dirs, loc, kills>> /\ meddled' = Relinked({path[f]})
        /\ fence = {} /\ path' = [path EXCEPT ![f] = 0] /\ ino' = Touch({path[f]})
    BY <1>2 DEF Delete
  <2>2. Vault'
    <3>1. path' \in [Files -> 0..MaxInode]
      BY <2>1, BackupAssumption DEF Typed, Vault
    <3>2. \A g \in Files : path'[g] # 0 => path'[g] = path[g] /\ path[g] \in Inodes /\ ino[path[g]] # None
      BY <2>1, BackupAssumption DEF Typed, Vault, Inodes
    <3>3. Eased /\ DOMAIN ino' = Inodes /\ now \in Int
      BY <2>1, <1>0, TouchEased
    <3>4. \A j \in Inodes : ino'[j] = None \/ (ino'[j] \in Inode /\ ino'[j].ctime <= now)
      BY <3>3, <1>0 DEF Eased, Vault
    <3> QED BY <2>1, <3>1, <3>2, <3>3, <3>4, <1>0 DEF Vault, Eased
  <2>3. Fenced' /\ Locals'
    BY <2>1 DEF Typed, Fenced, Locals
  <2>4. Past'
    BY <2>1, RelinkedType DEF Typed, Past
  <2> QED BY <2>1, <2>2, <2>3, <2>4 DEF Typed, Folders
<1>3. CASE WriteInPlace(f) \/ Pin(f) \/ Chmod(f)
  <2>1. path[f] \in Inodes /\ ino[path[f]] \in Inode
    BY <1>3, BackupAssumption DEF WriteInPlace, Pin, Chmod, Typed, Vault, Inodes
  <2>2. UNCHANGED <<path, now, fence, parent, dirs, kills>>
    BY <1>3 DEF WriteInPlace, Pin, Chmod
  <2>3. Locals' /\ Fenced'
    BY <1>3, <2>2, SeenKeeps DEF WriteInPlace, Pin, Chmod, Typed, Locals, Fenced
  <2>4. PICK x \in Inode : ino' = [ino EXCEPT ![path[f]] = x] /\ x.ctime <= now
    <3>1. CASE WriteInPlace(f)
      <4>1. [ino[path[f]] EXCEPT !.bytes = ops', !.mtime = now, !.ctime = now] \in Inode
            /\ [ino[path[f]] EXCEPT !.bytes = ops', !.mtime = now, !.ctime = now].ctime = now
        BY <2>1, <1>0 DEF Inode
      <4> QED BY <4>1, <3>1, <1>0 DEF WriteInPlace
    <3>2. CASE Pin(f)
      <4>1. [ino[path[f]] EXCEPT !.bytes = ops', !.ctime = now] \in Inode
            /\ [ino[path[f]] EXCEPT !.bytes = ops', !.ctime = now].ctime = now
        BY <2>1, <1>0 DEF Inode
      <4> QED BY <4>1, <3>2, <1>0 DEF Pin
    <3>3. CASE Chmod(f)
      <4> DEFINE m == 1 - ino[path[f]].mode
                 x == [ino[path[f]] EXCEPT !.mode = m, !.ctime = now]
      <4>1. m \in {0, 1}
        BY <2>1 DEF Inode
      <4>2. ino' = [ino EXCEPT ![path[f]] = x]
        BY <3>3 DEF Chmod
      <4> HIDE DEF m
      <4>3. x \in Inode /\ x.ctime = now
        BY <2>1, <4>1, <1>0 DEF Inode
      <4> HIDE DEF x
      <4> QED BY <4>2, <4>3, <1>0
    <3> QED BY <3>1, <3>2, <3>3, <1>3
  <2>5. Vault'
    BY <2>1, <2>2, <2>4, <1>0 DEF Typed, Vault
  <2>6. Past'
    <3>1. CASE WriteInPlace(f)
      BY <3>1 DEF WriteInPlace, Typed, Past, Stats
    <3>2. CASE Pin(f)
      BY <3>2 DEF Pin, Typed, Past, Stats
    <3>3. CASE Chmod(f)
      BY <3>3 DEF Chmod, Typed, Past, Stats
    <3> QED BY <3>1, <3>2, <3>3, <1>3
  <2> QED BY <2>2, <2>3, <2>5, <2>6 DEF Typed, Folders
<1> QED BY <1>1, <1>2, <1>3

\* What a call does to its locals, with its place.
LEMMA LocalAt ==
  ASSUME Typed, NEW p \in Procs
  PROVE  /\ IsLocal(loc[p]) /\ DOMAIN loc = Procs
         /\ \A to \in PC \ {"retry"} :
              /\ IsLocal([loc[p] EXCEPT !.pc = to]) /\ [loc[p] EXCEPT !.pc = to].pc = to
              /\ [loc[p] EXCEPT !.pc = to].dir = loc[p].dir
              /\ [loc[p] EXCEPT !.pc = to].forced = loc[p].forced
BY DEF Typed, Locals, IsLocal, Fields, PC

\* A step of a call that is not to copying leaves the fenced files alone.
LEMMA TypedCall ==
  ASSUME Typed, NEW p \in Procs, NEW c, loc' = [loc EXCEPT ![p] = c], IsLocal(c), c.pc # "copy",
         UNCHANGED path, Vault', fence' = fence \/ fence' = fence \cup {p} \/ fence' = fence \ {p},
         parent' \in Procs \cup {None}, kills' \in 0..MaxKills, Folders', Past'
  PROVE  Typed'
<1>1. Locals'
  BY LocalsStep DEF Typed
<1>2. Fenced'
  BY DEF Typed, Locals, Fenced
<1> QED BY <1>1, <1>2 DEF Typed

LEMMA TypedStaging ==
  ASSUME Typed, NEW p \in Procs, SweepBegin(p) \/ Sweep(p) \/ ParentLock(p) \/ Mkdtemp(p) \/ Own(p)
  PROVE  Typed'
<1>0. /\ parent \in Procs \cup {None} /\ kills \in 0..MaxKills /\ Folders /\ Vault'
      /\ UNCHANGED <<path, fence, kills>> /\ Past'
  <2>0. Vault /\ Past /\ parent \in Procs \cup {None} /\ kills \in 0..MaxKills /\ Folders
    BY DEF Typed
  <2>1. CASE Sweep(p)
    <3>1. PICK E : ino' = Touch(Inside(E)) /\ meddled' = Relinked(Inside(E))
      BY <2>1 DEF Sweep, Remove, Unlinks
    <3>2. UNCHANGED <<path, now, ops, put, fence, kills>>
      BY <2>1 DEF Sweep
    <3>3. Eased /\ DOMAIN ino' = Inodes
      BY <3>1, <2>0, TouchEased
    <3> QED BY <3>1, <3>2, <3>3, <2>0, VaultEased, RelinkedType DEF Past
  <2>2. CASE SweepBegin(p) \/ ParentLock(p) \/ Mkdtemp(p) \/ Own(p)
    <3>1. UNCHANGED <<vault, past, fence, kills>>
      BY <2>2 DEF SweepBegin, ParentLock, Mkdtemp, Own
    <3> QED BY <3>1, <2>0 DEF vault, past, Vault, Past
  <2> QED BY <2>0, <2>1, <2>2
<1>1. CASE SweepBegin(p)
  <2>1. PICK to \in {"sweep", "parent"} : loc' = [loc EXCEPT ![p] = [loc[p] EXCEPT !.pc = to]]
    BY <1>1 DEF SweepBegin, Go
  <2>2. UNCHANGED dirs /\ parent' \in Procs \cup {None}
    BY <1>0, <1>1 DEF SweepBegin
  <2>3. to \in PC \ {"retry"} /\ to # "copy"
    BY DEF PC
  <2>4. Folders'
    BY <2>2, <1>0 DEF Folders
  <2>5. IsLocal([loc[p] EXCEPT !.pc = to]) /\ [loc[p] EXCEPT !.pc = to].pc # "copy"
    BY <2>3, LocalAt
  <2> QED BY <2>1, <2>2, <2>4, <2>5, <1>0, TypedCall
<1>2. CASE Sweep(p)
  <2>1. loc' = [loc EXCEPT ![p] = [loc[p] EXCEPT !.pc = "parent"]]
    BY <1>2 DEF Sweep, Go
  <2>2. parent' \in Procs \cup {None}
    BY <1>0, <1>2 DEF Sweep
  <2>3. Folders'
    BY <1>0, <1>2 DEF Sweep, Remove, Folders
  <2>4. "parent" \in PC \ {"retry"}
    BY DEF PC
  <2> QED BY <2>1, <2>2, <2>3, <2>4, <1>0, LocalAt, TypedCall
<1>3. CASE ParentLock(p)
  <2>1. loc' = [loc EXCEPT ![p] = [loc[p] EXCEPT !.pc = "mkdtemp"]] /\ UNCHANGED dirs
        /\ parent' = p
    BY <1>3 DEF ParentLock, Go
  <2>2. "mkdtemp" \in PC \ {"retry"}
    BY DEF PC
  <2> QED BY <2>1, <2>2, <1>0, LocalAt, TypedCall DEF Folders
<1>4. CASE Mkdtemp(p)
  <2>1. PICK d \in Dirs :
          /\ dirs' = [dirs EXCEPT ![d] = [owner |-> None, holds |-> Nothing]]
          /\ loc' = [loc EXCEPT ![p].pc = "own", ![p].dir = d]
    BY <1>4 DEF Mkdtemp
  <2> DEFINE c == [loc[p] EXCEPT !.pc = "own", !.dir = d]
  <2>2. loc' = [loc EXCEPT ![p] = c]
    BY <2>1, LocalAt
  <2>3. IsLocal(c) /\ c.pc = "own"
    BY LocalAt, BackupAssumption DEF IsLocal, Fields, PC, Dirs
  <2>4. Folders'
    <3>1. [owner |-> None, holds |-> Nothing] \in Staging
      BY DEF Staging, Nothing
    <3> QED BY <2>1, <3>1, <1>0 DEF Folders
  <2>5. UNCHANGED parent
    BY <1>4 DEF Mkdtemp
  <2> HIDE DEF c
  <2> QED BY <2>2, <2>3, <2>4, <2>5, <1>0, TypedCall
<1>5. CASE Own(p)
  <2>1. loc' = [loc EXCEPT ![p] = [loc[p] EXCEPT !.pc = "fence"]] /\ parent' = None
    BY <1>5 DEF Own, Go
  <2>2. "fence" \in PC \ {"retry"}
    BY DEF PC
  <2>3. Folders'
    <3>1. CASE loc[p].dir \in Made
      <4>1. dirs[loc[p].dir] \in Staging /\ loc[p].dir \in Dirs
        BY <3>1, <1>0 DEF Made, Folders
      <4>2. [dirs[loc[p].dir] EXCEPT !.owner = p] \in Staging
        BY <4>1 DEF Staging
      <4>3. dirs' = [dirs EXCEPT ![loc[p].dir] = [dirs[loc[p].dir] EXCEPT !.owner = p]]
        BY <3>1, <1>5 DEF Own
      <4> QED BY <4>1, <4>2, <4>3, <1>0 DEF Folders
    <3>2. CASE loc[p].dir \notin Made
      BY <3>2, <1>0, <1>5 DEF Own, Folders
    <3> QED BY <3>1, <3>2
  <2> QED BY <2>1, <2>2, <2>3, <1>0, LocalAt, TypedCall
<1> QED BY <1>1, <1>2, <1>3, <1>4, <1>5

\* The five fields that Link sets.
LEMMA LinkLocals ==
  ASSUME Typed, NEW p \in Procs, NEW forced \in SUBSET Files, NEW over, NEW sees, NEW refs,
         loc' = [loc EXCEPT ![p].pc = "copy", ![p].forced = forced, ![p].over = over,
                            ![p].sees = sees, ![p].refs = refs]
  PROVE  /\ loc' = [loc EXCEPT ![p] = loc'[p]] /\ IsLocal(loc'[p])
         /\ loc'[p].pc = "copy" /\ loc'[p].forced = forced /\ loc'[p].dir = loc[p].dir
<1>1. IsLocal(loc[p]) /\ DOMAIN loc = Procs
  BY LocalAt
<1>2. loc'[p] = [loc[p] EXCEPT !.pc = "copy", !.forced = forced, !.over = over,
                               !.sees = sees, !.refs = refs]
  BY <1>1
<1>3. loc' = [loc EXCEPT ![p] = loc'[p]]
  BY <1>1
<1>4. DOMAIN loc'[p] = Fields /\ loc'[p].pc = "copy" /\ loc'[p].forced = forced
      /\ loc'[p].dir = loc[p].dir /\ loc'[p].attempt = loc[p].attempt /\ loc'[p].copy = loc[p].copy
      /\ loc'[p].todo = loc[p].todo /\ loc'[p].rewritten = loc[p].rewritten
  BY <1>1, <1>2 DEF IsLocal, Fields
<1> QED BY <1>1, <1>3, <1>4 DEF IsLocal, PC

\* Links, and then copies, of files that are there.
LEMMA TypedLink ==
  ASSUME Typed, NEW p \in Procs, Link(p), loc[p].dir \in Made
  PROVE  Typed' /\ loc'[p].pc = "copy" /\ loc'[p].dir = loc[p].dir
         /\ loc' = [loc EXCEPT ![p] = loc'[p]] /\ dirs'[loc[p].dir] \in Staging
<1> DEFINE sees == [f \in Files |-> {IF path[f] = 0 THEN None ELSE ino[path[f]].bytes}]
           refs(linked, forced) ==
             [f \in Files |->
               IF f \notin Present \ forced THEN None
               ELSE [kind  |-> IF f \in linked THEN "link" ELSE "live", inode |-> path[f],
                     nlink |-> Nlink(path[f])', mtime |-> ino[path[f]].mtime,
                     ctime |-> ino'[path[f]].ctime, mode |-> ino[path[f]].mode]]
<1>0. PICK linked \in SUBSET Present, must \in SUBSET Present, forced \in SUBSET Present :
        /\ dirs' = [dirs EXCEPT ![loc[p].dir].holds =
             [f \in Files |-> IF f \in linked THEN LinkTo(path[f]) ELSE None]]
        /\ ino' = Touch({path[f] : f \in linked})
        /\ put' = [put EXCEPT ![p] = {}]
        /\ meddled' = [Relinked({path[f] : f \in linked}) EXCEPT ![p] = {}]
        /\ loc' = [loc EXCEPT ![p].pc = "copy", ![p].forced = forced, ![p].over = TooMany,
                              ![p].sees = sees, ![p].refs = refs(linked, forced)]
  BY DEF Link
<1> HIDE DEF sees, refs
<1>1. /\ forced \subseteq Present /\ forced \in SUBSET Files
      /\ loc' = [loc EXCEPT ![p] = loc'[p]] /\ IsLocal(loc'[p])
      /\ loc'[p].forced = forced /\ loc'[p].pc = "copy" /\ loc'[p].dir = loc[p].dir
  <2>1. forced \in SUBSET Files
    BY DEF Present
  <2> QED BY <1>0, <2>1, LinkLocals
<1>2. UNCHANGED <<path, now, ops, parent, kills>> /\ fence' = fence \cup {p} /\ Vault /\ Past
  BY DEF Link, Typed
<1>3. Folders' /\ dirs'[loc[p].dir] \in Staging
  <2>1. \A f \in Files : f \in linked => path[f] \in Nat
    BY BackupAssumption DEF Typed, Vault
  <2>2. [f \in Files |-> IF f \in linked THEN LinkTo(path[f]) ELSE None]
          \in [Files -> {None} \cup Held]
    BY <2>1 DEF LinkTo, Held
  <2>3. dirs[loc[p].dir] \in Staging
    BY DEF Made, Typed, Folders
  <2>4. [dirs[loc[p].dir] EXCEPT !.holds =
           [f \in Files |-> IF f \in linked THEN LinkTo(path[f]) ELSE None]] \in Staging
    BY <2>2, <2>3 DEF Staging
  <2> QED BY <2>4, <1>0 DEF Made, Typed, Folders
<1>4. Locals' /\ Vault'
  <2>1. Eased /\ DOMAIN ino' = Inodes
    BY <1>0, <1>2, TouchEased
  <2> QED BY <2>1, <1>1, <1>2, LocalsStep, VaultEased DEF Typed
<1>5. Fenced'
  BY <1>1, <1>2, LocalAt DEF Typed, Fenced, Present
<1>6. Past'
  BY <1>0, <1>2, RelinkedType DEF Past
<1> QED BY <1>1, <1>2, <1>3, <1>4, <1>5, <1>6 DEF Typed

LEMMA TypedCopy ==
  ASSUME Typed, NEW p \in Procs, Copy(p), loc[p].dir \in Made
  PROVE  Typed' /\ dirs'[loc[p].dir] \in Staging
<1> DEFINE todo == {f \in Files : loc[p].sees[f] # {None}}
           c    == [loc[p] EXCEPT !.pc = "read", !.todo = todo]
<1>1. loc' = [loc EXCEPT ![p] = c]
  BY LocalAt DEF Copy
<1>2. IsLocal(c) /\ c.pc = "read"
  <2> HIDE DEF todo
  <2>1. todo \subseteq Files
    BY DEF todo
  <2> QED BY <2>1, LocalAt DEF IsLocal, Fields, PC
<1> HIDE DEF c
<1>3. UNCHANGED <<path, parent, kills>> /\ fence' = fence \ {p} /\ Vault' /\ Past'
  <2>1. PICK E : ino' = Touch(Inside(E)) /\ meddled' = Relinked(Inside(E))
    BY DEF Copy, Unlinks
  <2>2. UNCHANGED <<path, now, ops, put, parent, kills>> /\ fence' = fence \ {p} /\ Vault /\ Past
    BY DEF Copy, Typed
  <2>3. Eased /\ DOMAIN ino' = Inodes
    BY <2>1, <2>2, TouchEased
  <2> QED BY <2>1, <2>2, <2>3, VaultEased, RelinkedType DEF Past
<1>4. Folders' /\ dirs'[loc[p].dir] \in Staging
  <2> DEFINE holds == [f \in Files |->
               IF f \in loc[p].forced THEN [kind |-> "copy", of |-> ino[path[f]].bytes]
               ELSE dirs[loc[p].dir].holds[f]]
  <2>1. dirs[loc[p].dir] \in Staging
    BY DEF Made, Typed, Folders
  <2>2. ASSUME NEW f \in Files
        PROVE  holds[f] \in {None} \cup Held
    <3>1. CASE f \in loc[p].forced
      <4>1. ino[path[f]] \in Inode
        BY <3>1 DEF Copy, At, Typed, Fenced, Vault
      <4>2. ino[path[f]].bytes \in Nat
        BY <4>1, BackupAssumption DEF Inode
      <4> QED BY <3>1, <4>2 DEF Held
    <3>2. CASE f \notin loc[p].forced
      BY <3>2, <2>1 DEF Staging
    <3> QED BY <3>1, <3>2
  <2>3. holds \in [Files -> {None} \cup Held]
    BY <2>2
  <2>4. dirs' = [dirs EXCEPT ![loc[p].dir] = [dirs[loc[p].dir] EXCEPT !.holds = holds]]
    BY DEF Copy
  <2> HIDE DEF holds
  <2>5. [dirs[loc[p].dir] EXCEPT !.holds = holds] \in Staging
    BY <2>1, <2>3 DEF Staging
  <2> QED BY <2>4, <2>5 DEF Made, Typed, Folders
<1> QED BY <1>1, <1>2, <1>3, <1>4, TypedCall DEF Typed

\* Working through the archive moves the rest of the locals only.
LEMMA ArchiveLocals ==
  ASSUME Typed, NEW p \in Procs, Read(p) \/ Check(p)
  PROVE  /\ loc' = [loc EXCEPT ![p] = loc'[p]] /\ IsLocal(loc'[p])
         /\ loc'[p].pc = "read" /\ loc'[p].dir = loc[p].dir
<1>0. IsLocal(loc[p]) /\ DOMAIN loc = Procs /\ loc[p].pc = "read"
  BY LocalAt DEF Read, Check, At
\* Either of the two forms the step takes.
<1>a. ASSUME NEW f \in Files, NEW todo, NEW rewritten, NEW unchecked, NEW data,
             todo \subseteq Files, rewritten \subseteq Files,
             loc' = [loc EXCEPT ![p] = [loc[p] EXCEPT !.todo = todo, !.unchecked = unchecked,
                                                      !.data = data, !.rewritten = rewritten]]
      PROVE  /\ loc' = [loc EXCEPT ![p] = loc'[p]] /\ IsLocal(loc'[p])
             /\ loc'[p].pc = "read" /\ loc'[p].dir = loc[p].dir
  <2>1. loc'[p] = [loc[p] EXCEPT !.todo = todo, !.unchecked = unchecked,
                                 !.data = data, !.rewritten = rewritten]
    BY <1>a, <1>0
  <2>2. DOMAIN loc'[p] = Fields /\ loc'[p].todo = todo /\ loc'[p].rewritten = rewritten
        /\ loc'[p].pc = "read" /\ loc'[p].dir = loc[p].dir /\ loc'[p].attempt = loc[p].attempt
        /\ loc'[p].copy = loc[p].copy /\ loc'[p].forced = loc[p].forced
    BY <2>1, <1>0 DEF IsLocal, Fields
  <2> QED BY <2>1, <2>2, <1>a, <1>0 DEF IsLocal
<1>1. CASE Read(p)
  <2>1. PICK f \in loc[p].todo :
          LET e == Entry(p, f) IN
          loc' = IF e = None
            THEN [loc EXCEPT ![p].todo = @ \ {f},
                    ![p].rewritten = IF loc[p].refs[f] # None THEN @ \cup {f} ELSE @]
            ELSE [loc EXCEPT ![p].unchecked = TRUE,
                    ![p].data[f] = IF e.kind = "copy" THEN e.of ELSE ino[e.of].bytes]
    BY <1>1 DEF Read
  <2>2. f \in Files /\ loc[p].todo \subseteq Files /\ loc[p].rewritten \subseteq Files
    BY <1>0 DEF IsLocal
  <2>3. CASE Entry(p, f) = None
    <3> DEFINE r == IF loc[p].refs[f] # None THEN loc[p].rewritten \cup {f} ELSE loc[p].rewritten
    <3>1. loc' = [loc EXCEPT ![p].todo = @ \ {f}, ![p].rewritten = r]
      BY <2>1, <2>3
    <3>2. r \subseteq Files
      BY <2>2
    <3> HIDE DEF r
    <3>3. loc' = [loc EXCEPT ![p] = [loc[p] EXCEPT !.todo = loc[p].todo \ {f},
                     !.unchecked = loc[p].unchecked, !.data = loc[p].data, !.rewritten = r]]
      BY <3>1, <1>0 DEF IsLocal, Fields
    <3>4. loc[p].todo \ {f} \subseteq Files
      BY <2>2
    <3> QED BY <2>2, <3>2, <3>3, <3>4, <1>a
  <2>4. CASE Entry(p, f) # None
    <3>1. PICK b : loc' = [loc EXCEPT ![p].unchecked = TRUE, ![p].data[f] = b]
      BY <2>1, <2>4
    <3>2. loc' = [loc EXCEPT ![p] = [loc[p] EXCEPT !.todo = loc[p].todo, !.unchecked = TRUE,
                     !.data = [loc[p].data EXCEPT ![f] = b], !.rewritten = loc[p].rewritten]]
      BY <3>1, <1>0 DEF IsLocal, Fields
    <3> QED BY <2>2, <3>2, <1>a
  <2> QED BY <2>3, <2>4
<1>2. CASE Check(p)
  <2>1. PICK f \in loc[p].todo :
          LET ref == loc[p].refs[f]
              e   == Entry(p, f)
              bad == ref # None /\ (e = None \/ Changed(ref, e.of))
          IN  loc' = [loc EXCEPT ![p].todo = @ \ {f}, ![p].unchecked = FALSE,
                        ![p].data[f] = IF e = None THEN None ELSE @,
                        ![p].rewritten = IF bad THEN @ \cup {f} ELSE @]
    BY <1>2 DEF Check
  <2>2. f \in Files /\ loc[p].todo \subseteq Files /\ loc[p].rewritten \subseteq Files
    BY <1>0 DEF IsLocal
  <2>3. PICK b, r :
          /\ loc' = [loc EXCEPT ![p].todo = @ \ {f}, ![p].unchecked = FALSE,
                                ![p].data[f] = b, ![p].rewritten = r]
          /\ r = loc[p].rewritten \/ r = loc[p].rewritten \cup {f}
    BY <2>1, <1>0
  <2>4. loc' = [loc EXCEPT ![p] = [loc[p] EXCEPT !.todo = loc[p].todo \ {f}, !.unchecked = FALSE,
                   !.data = [loc[p].data EXCEPT ![f] = b], !.rewritten = r]]
    BY <2>3, <1>0 DEF IsLocal, Fields
  <2>5. r \subseteq Files
    BY <2>2, <2>3
  <2>6. loc[p].todo \ {f} \subseteq Files
    BY <2>2
  <2> QED BY <2>2, <2>4, <2>5, <2>6, <1>a
<1> QED BY <1>1, <1>2

LEMMA TypedArchive ==
  ASSUME Typed, NEW p \in Procs, Read(p) \/ Check(p) \/ Finish(p) \/ Fail(p)
  PROVE  Typed'
<1>0. /\ parent \in Procs \cup {None} /\ kills \in 0..MaxKills
      /\ Folders /\ Vault /\ Past /\ UNCHANGED <<vault, parent, dirs, past, kills>>
      /\ (fence' = fence \/ fence' = fence \ {p})
  BY DEF Typed, Read, Check, Finish, Fail
<1>1. Folders' /\ Vault' /\ Past' /\ UNCHANGED path
  BY <1>0 DEF Folders, Vault, Past, vault, past
<1>2. ASSUME NEW c, loc' = [loc EXCEPT ![p] = c], IsLocal(c), c.pc # "copy" PROVE Typed'
  BY <1>0, <1>1, <1>2, TypedCall
<1>3. CASE Read(p) \/ Check(p)
  <2>1. loc' = [loc EXCEPT ![p] = loc'[p]] /\ IsLocal(loc'[p]) /\ loc'[p].pc = "read"
    BY <1>3, ArchiveLocals
  <2> DEFINE c == loc'[p]
  <2>2. loc' = [loc EXCEPT ![p] = c] /\ IsLocal(c) /\ c.pc # "copy"
    BY <2>1
  <2> HIDE DEF c
  <2> QED BY <2>2, <1>2
<1>4. CASE Finish(p)
  <2>1. PICK to \in {"cleanup", "retry"} :
          /\ loc' = [loc EXCEPT ![p] = [loc[p] EXCEPT !.pc = to]]
          /\ to = "retry" => loc[p].attempt # Attempts
    BY <1>4 DEF Finish, Go
  <2>2. IsLocal([loc[p] EXCEPT !.pc = to]) /\ [loc[p] EXCEPT !.pc = to].pc = to
    <3>1. IsLocal(loc[p])
      BY LocalAt
    <3>2. to = "retry" => loc[p].attempt < Attempts
      BY <2>1, <3>1, BackupAssumption DEF IsLocal
    <3> QED BY <3>1, <3>2 DEF IsLocal, Fields, PC
  <2> QED BY <2>1, <2>2, <1>2
<1>5. CASE Fail(p)
  <2>1. loc' = [loc EXCEPT ![p] = [loc[p] EXCEPT !.pc = "fail"]]
    BY <1>5 DEF Fail, Go
  <2>2. "fail" \in PC \ {"retry"}
    BY DEF PC
  <2> QED BY <2>1, <2>2, LocalAt, <1>2
<1> QED BY <1>3, <1>4, <1>5

LEMMA TypedEnd ==
  ASSUME Typed, NEW p \in Procs, Cleanup(p) \/ Kill(p)
  PROVE  Typed'
<1>1. IsLocal(loc[p])
  BY LocalAt
<1>2. PICK c : loc' = [loc EXCEPT ![p] = c] /\ IsLocal(c) /\ c.pc # "copy"
  <2>1. CASE Kill(p)
    BY <2>1, NoLocalsIs DEF Kill
  <2>2. CASE Cleanup(p) /\ ~At(p, "retry")
    BY <2>2, NoLocalsIs DEF Cleanup
  <2>3. CASE Cleanup(p) /\ At(p, "retry")
    <3> DEFINE c == [NoLocals EXCEPT !.pc = "parent", !.attempt = loc[p].attempt + 1,
                                     !.copy = loc[p].copy \cup loc[p].rewritten]
    <3>1. loc[p].attempt + 1 \in 1..Attempts /\ loc[p].copy \cup loc[p].rewritten \subseteq Files
      BY <2>3, <1>1, BackupAssumption DEF IsLocal, At
    <3>2. IsLocal(c) /\ c.pc = "parent"
      BY <3>1, NoLocalsIs DEF IsLocal, Fields, PC
    <3> QED BY <2>3, <3>2 DEF Cleanup
  <2> QED BY <2>1, <2>2, <2>3
<1>3. Folders'
  <2>1. CASE Cleanup(p)
    BY <2>1 DEF Cleanup, Remove, Typed, Folders
  <2>2. CASE Kill(p)
    <3>1. dirs' = [d \in Dirs |-> IF d \in Made /\ dirs[d].owner = p
                                    THEN [dirs[d] EXCEPT !.owner = None] ELSE dirs[d]]
      BY <2>2 DEF Kill
    <3>2. \A d \in Dirs : dirs[d] \in Staging => [dirs[d] EXCEPT !.owner = None] \in Staging
      BY DEF Staging
    <3> QED BY <3>1, <3>2 DEF Made, Typed, Folders
  <2> QED BY <2>1, <2>2
<1>4. Vault' /\ Past' /\ UNCHANGED path
  <2>0. Vault /\ Past
    BY DEF Typed
  <2>1. CASE Cleanup(p)
    <3>1. PICK E : ino' = Touch(Inside(E)) /\ meddled' = Relinked(Inside(E))
      BY <2>1 DEF Cleanup, Remove, Unlinks
    <3>2. UNCHANGED <<path, now, ops, put>>
      BY <2>1 DEF Cleanup
    <3>3. Eased /\ DOMAIN ino' = Inodes
      BY <3>1, <2>0, TouchEased
    <3> QED BY <3>1, <3>2, <3>3, <2>0, VaultEased, RelinkedType DEF Past
  <2>2. CASE Kill(p)
    BY <2>0, <2>2 DEF Kill, vault, past, Vault, Past
  <2> QED BY <2>1, <2>2
<1>5. (fence' = fence \/ fence' = fence \ {p})
      /\ parent' \in Procs \cup {None} /\ kills' \in 0..MaxKills
  <2>1. kills \in 0..MaxKills /\ parent \in Procs \cup {None} /\ MaxKills \in Nat
    BY BackupAssumption DEF Typed
  <2> QED BY <2>1 DEF Cleanup, Kill
<1> QED BY <1>2, <1>3, <1>4, <1>5, TypedCall

-----------------------------------------------------------------------------
(* Who owns a staging directory                                            *)

Working == {"fence", "copy", "read", "retry", "fail", "cleanup"}

\* Sweeping, making and locking a directory is done by the holder of the
\* parent lock.  A directory made and not locked yet is nobody's, the one a
\* call works in is its own.
Claim(q) ==
  /\ loc[q].pc \in {"sweep", "mkdtemp", "own"} => parent = q
  /\ loc[q].pc = "own" => loc[q].dir \in Made /\ dirs[loc[q].dir].owner = None
  /\ loc[q].pc \in Working => loc[q].dir \in Made /\ dirs[loc[q].dir].owner = q

Owned == \A q \in Procs : Claim(q)

\* A step of p leaves the claim of another call alone that keeps the parent
\* lock and the directories of that call.
LEMMA OthersKeep ==
  ASSUME Typed, Owned, NEW p \in Procs, NEW q \in Procs, q # p,
         NEW c, loc' = [loc EXCEPT ![p] = c],
         parent = q => parent' = q,
         \A d \in Made : dirs[d].owner = q \/ (dirs[d].owner = None /\ parent = q)
            => dirs'[d] # None /\ dirs'[d].owner = dirs[d].owner
  PROVE  Claim(q)'
<1>1. loc'[q] = loc[q] /\ Claim(q)
  BY LocalAt DEF Owned
<1> QED BY <1>1 DEF Claim, Made, Working

\* Where a step leaves the call that takes it.
LEMMA GoesTo ==
  ASSUME Typed, NEW p \in Procs, NEW to \in PC \ {"retry"}, Go(p, to)
  PROVE  /\ loc' = [loc EXCEPT ![p] = [loc[p] EXCEPT !.pc = to]]
         /\ loc'[p].pc = to /\ loc'[p].dir = loc[p].dir
BY LocalAt DEF Go

LEMMA OwnedStaging ==
  ASSUME Typed, Owned, NEW p \in Procs, NEW q \in Procs,
         SweepBegin(p) \/ Sweep(p) \/ ParentLock(p) \/ Mkdtemp(p) \/ Own(p)
  PROVE  Claim(q)'
<1>0. Claim(p) /\ IsLocal(loc[p]) /\ DOMAIN loc = Procs /\ DOMAIN dirs = Dirs /\ None \notin Procs
  BY LocalAt, BackupAssumption DEF Owned, Typed, Folders
<1>1. CASE SweepBegin(p)
  <2>1. PICK to \in {"sweep", "parent"} :
          Go(p, to) /\ UNCHANGED dirs /\ (to = "sweep" => parent = None /\ parent' = p)
          /\ (parent' = parent \/ parent = None)
    BY <1>1 DEF SweepBegin
  <2>2. to \in PC \ {"retry"}
    BY DEF PC
  <2>3. /\ loc' = [loc EXCEPT ![p] = [loc[p] EXCEPT !.pc = to]] /\ loc'[p].pc = to
    BY <2>1, <2>2, GoesTo
  <2>4. CASE q = p
    BY <2>1, <2>3, <2>4 DEF Claim, Working
  <2>5. CASE q # p
    BY <2>1, <2>3, <2>5, <1>0, OthersKeep DEF Made
  <2> QED BY <2>4, <2>5
<1>2. CASE Sweep(p)
  <2>1. "parent" \in PC \ {"retry"} /\ Go(p, "parent") /\ parent = p
    BY <1>2, <1>0 DEF PC, Sweep, At, Claim
  <2>2. loc' = [loc EXCEPT ![p] = [loc[p] EXCEPT !.pc = "parent"]] /\ loc'[p].pc = "parent"
    BY <2>1, GoesTo
  <2>3. CASE q = p
    BY <2>2, <2>3 DEF Claim, Working
  <2>4. CASE q # p
    <3>1. \A d \in Made : dirs[d].owner = q => dirs'[d] = dirs[d]
      BY <1>2, <1>0 DEF Sweep, Remove, Made
    <3>2. \A d \in Made : dirs[d].owner = q \/ (dirs[d].owner = None /\ parent = q)
            => dirs'[d] # None /\ dirs'[d].owner = dirs[d].owner
      BY <3>1, <2>1, <2>4 DEF Made
    <3> QED BY <3>2, <2>1, <2>2, <2>4, OthersKeep
  <2> QED BY <2>3, <2>4
<1>3. CASE ParentLock(p)
  <2>1. "mkdtemp" \in PC \ {"retry"} /\ Go(p, "mkdtemp") /\ parent = None /\ parent' = p
        /\ UNCHANGED dirs
    BY <1>3 DEF PC, ParentLock
  <2>2. loc' = [loc EXCEPT ![p] = [loc[p] EXCEPT !.pc = "mkdtemp"]] /\ loc'[p].pc = "mkdtemp"
    BY <2>1, GoesTo
  <2>3. CASE q = p
    BY <2>1, <2>2, <2>3 DEF Claim, Working
  <2>4. CASE q # p
    BY <2>1, <2>2, <2>4, <1>0, OthersKeep DEF Made
  <2> QED BY <2>3, <2>4
<1>4. CASE Mkdtemp(p)
  <2>1. PICK d \in Dirs \ Made :
          /\ dirs' = [dirs EXCEPT ![d] = [owner |-> None, holds |-> Nothing]]
          /\ loc' = [loc EXCEPT ![p].pc = "own", ![p].dir = d]
    BY <1>4 DEF Mkdtemp
  <2> DEFINE c == [loc[p] EXCEPT !.pc = "own", !.dir = d]
  <2>2. loc' = [loc EXCEPT ![p] = c]
    BY <2>1, <1>0
  <2>3. c.pc = "own" /\ c.dir = d
    BY <1>0 DEF IsLocal, Fields
  <2> HIDE DEF c
  <2>4. parent' = parent /\ parent = p
    BY <1>4, <1>0 DEF Mkdtemp, At, Claim
  <2>5. [owner |-> None, holds |-> Nothing] # None /\ [owner |-> None, holds |-> Nothing].owner = None
    BY BackupAssumption DEF Staging, Nothing
  <2>6. CASE q = p
    BY <2>1, <2>2, <2>3, <2>4, <2>5, <2>6, <1>0 DEF Claim, Working, Made
  <2>7. CASE q # p
    <3>1. \A e \in Made : dirs'[e] = dirs[e]
      BY <2>1, <1>0 DEF Made
    <3>2. \A e \in Made : dirs[e].owner = q \/ (dirs[e].owner = None /\ parent = q)
            => dirs'[e] # None /\ dirs'[e].owner = dirs[e].owner
      BY <3>1 DEF Made
    <3> QED BY <3>2, <2>2, <2>4, <2>7, OthersKeep
  <2> QED BY <2>6, <2>7
<1>5. CASE Own(p)
  <2>1. "fence" \in PC \ {"retry"} /\ Go(p, "fence") /\ parent' = None /\ parent = p
        /\ loc[p].dir \in Made /\ dirs[loc[p].dir].owner = None
    BY <1>5, <1>0 DEF PC, Own, At, Claim
  <2>2. loc' = [loc EXCEPT ![p] = [loc[p] EXCEPT !.pc = "fence"]] /\ loc'[p].pc = "fence"
        /\ loc'[p].dir = loc[p].dir
    BY <2>1, GoesTo
  <2>3. dirs' = [dirs EXCEPT ![loc[p].dir] = [dirs[loc[p].dir] EXCEPT !.owner = p]]
    BY <2>1, <1>5 DEF Own
  <2>4. [dirs[loc[p].dir] EXCEPT !.owner = p] # None
        /\ [dirs[loc[p].dir] EXCEPT !.owner = p].owner = p
    <3>1. dirs[loc[p].dir] \in Staging
      BY <2>1 DEF Made, Typed, Folders
    <3>2. [dirs[loc[p].dir] EXCEPT !.owner = p] \in Staging
      BY <3>1 DEF Staging
    <3>3. [dirs[loc[p].dir] EXCEPT !.owner = p].owner = p
      BY <3>1 DEF Staging
    <3> QED BY <3>2, <3>3, BackupAssumption
  <2>5. CASE q = p
    BY <2>1, <2>2, <2>3, <2>4, <2>5, <1>0 DEF Claim, Working, Made
  <2>6. CASE q # p
    <3>1. \A e \in Made : dirs[e].owner = q => dirs'[e] = dirs[e]
      BY <2>1, <2>3, <1>0 DEF Made
    <3>2. \A e \in Made : dirs[e].owner = q \/ (dirs[e].owner = None /\ parent = q)
            => dirs'[e] # None /\ dirs'[e].owner = dirs[e].owner
      BY <3>1, <2>1, <2>6 DEF Made
    <3> QED BY <3>2, <2>1, <2>2, <2>6, OthersKeep
  <2> QED BY <2>5, <2>6
<1> QED BY <1>1, <1>2, <1>3, <1>4, <1>5

\* Filling a directory does not change whose it is.
LEMMA OwnedFill ==
  ASSUME Typed, Owned, NEW p \in Procs, NEW q \in Procs,
         NEW holds, dirs' = [dirs EXCEPT ![loc[p].dir].holds = holds],
         loc' = [loc EXCEPT ![p] = loc'[p]], loc'[p].dir = loc[p].dir, loc'[p].pc \in Working,
         loc[p].pc \in Working, UNCHANGED parent,
         dirs'[loc[p].dir] \in Staging
  PROVE  Claim(q)'
<1>1. loc[p].dir \in Made /\ dirs[loc[p].dir].owner = p /\ dirs[loc[p].dir] \in Staging
  BY DEF Owned, Claim, Made, Typed, Folders
<1>2. [dirs[loc[p].dir] EXCEPT !.holds = holds].owner = p
  BY <1>1 DEF Staging
<1>3. \A e \in Made : dirs'[e] # None /\ dirs'[e].owner = dirs[e].owner
  <2>1. DOMAIN dirs = Dirs
    BY DEF Typed, Folders
  <2> QED BY <1>1, <1>2, <2>1, BackupAssumption DEF Made
<1>4. CASE q = p
  BY <1>1, <1>3, <1>4 DEF Claim, Working, Made
<1>5. CASE q # p
  <2> DEFINE c == loc'[p]
  <2>1. loc' = [loc EXCEPT ![p] = c]
    OBVIOUS
  <2> HIDE DEF c
  <2> QED BY <1>3, <1>5, <2>1, OthersKeep
<1> QED BY <1>4, <1>5

\* Steps that touch no directory and no lock of the parent.
LEMMA OwnedArchive ==
  ASSUME Typed, Owned, NEW p \in Procs, NEW q \in Procs,
         Read(p) \/ Check(p) \/ Finish(p) \/ Fail(p)
  PROVE  Claim(q)'
<1>1. UNCHANGED <<parent, dirs>> /\ loc[p].pc \in Working
  BY DEF Read, Check, Finish, Fail, At, Working
<1>2. loc' = [loc EXCEPT ![p] = loc'[p]] /\ loc'[p].dir = loc[p].dir /\ loc'[p].pc \in Working
  <2>1. CASE Read(p) \/ Check(p)
    BY <2>1, ArchiveLocals DEF Working
  <2>2. CASE Finish(p) \/ Fail(p)
    <3>1. PICK to \in {"cleanup", "retry", "fail"} : loc' = [loc EXCEPT ![p].pc = to]
      BY <2>2 DEF Finish, Fail, Go
    <3>2. IsLocal(loc[p]) /\ DOMAIN loc = Procs
      BY LocalAt
    <3> QED BY <3>1, <3>2 DEF IsLocal, Fields, Working
  <2> QED BY <2>1, <2>2
<1>3. CASE q = p
  BY <1>1, <1>2, <1>3 DEF Owned, Claim, Working, Made
<1>4. CASE q # p
  <2> DEFINE c == loc'[p]
  <2>1. loc' = [loc EXCEPT ![p] = c]
    BY <1>2
  <2> HIDE DEF c
  <2> QED BY <1>1, <1>4, <2>1, OthersKeep DEF Made
<1> QED BY <1>3, <1>4

LEMMA OwnedEnd ==
  ASSUME Typed, Owned, NEW p \in Procs, NEW q \in Procs, Cleanup(p) \/ Kill(p)
  PROVE  Claim(q)'
<1>0. Claim(p) /\ DOMAIN loc = Procs /\ DOMAIN dirs = Dirs /\ None \notin Procs
  BY LocalAt, BackupAssumption DEF Owned, Typed, Folders
<1>1. PICK c : loc' = [loc EXCEPT ![p] = c] /\ c.pc \in {"new", "done", "parent"}
  <2>1. CASE Kill(p)
    BY <2>1, NoLocalsIs DEF Kill
  <2>2. CASE Cleanup(p) /\ ~At(p, "retry")
    BY <2>2, NoLocalsIs DEF Cleanup
  <2>3. CASE Cleanup(p) /\ At(p, "retry")
    <3> DEFINE c == [NoLocals EXCEPT !.pc = "parent", !.attempt = loc[p].attempt + 1,
                                     !.copy = loc[p].copy \cup loc[p].rewritten]
    <3>1. c.pc = "parent"
      BY NoLocalsIs DEF IsLocal, Fields
    <3> QED BY <2>3, <3>1 DEF Cleanup
  <2> QED BY <2>1, <2>2, <2>3
<1>2. CASE q = p
  BY <1>0, <1>1, <1>2 DEF Claim, Working
<1>3. CASE q # p
  <2>1. parent = q => parent' = q
    BY <1>3 DEF Cleanup, Kill
  <2>2. \A d \in Made : dirs[d].owner # p => dirs'[d] = dirs[d]
    <3>1. CASE Cleanup(p)
      BY <3>1, <1>0 DEF Cleanup, Remove, Made, Claim, Working
    <3>2. CASE Kill(p)
      BY <3>2, <1>0 DEF Kill, Made
    <3> QED BY <3>1, <3>2
  <2>3. \A d \in Made : dirs[d].owner = q \/ (dirs[d].owner = None /\ parent = q)
          => dirs'[d] # None /\ dirs'[d].owner = dirs[d].owner
    BY <2>2, <1>0, <1>3 DEF Made
  <2> QED BY <1>1, <1>3, <2>1, <2>3, OthersKeep
<1> QED BY <1>2, <1>3

\* Writers touch neither locks nor directories.
LEMMA OwnedWriters ==
  ASSUME Typed, Owned, NEW f \in Files, NEW q \in Procs,
         Publish(f) \/ Delete(f) \/ WriteInPlace(f) \/ Pin(f) \/ Chmod(f)
  PROVE  Claim(q)'
<1>1. UNCHANGED <<parent, dirs>>
  BY DEF Publish, Delete, WriteInPlace, Pin, Chmod
<1>2. loc'[q].pc = loc[q].pc /\ loc'[q].dir = loc[q].dir
  <2>1. CASE WriteInPlace(f) \/ Pin(f)
    BY <2>1, SeenKeeps DEF WriteInPlace, Pin
  <2>2. CASE Publish(f) \/ Delete(f) \/ Chmod(f)
    BY <2>2 DEF Publish, Delete, Chmod
  <2> QED BY <2>1, <2>2
<1> QED BY <1>1, <1>2 DEF Owned, Claim, Made

-----------------------------------------------------------------------------
(* The invariant                                                           *)

IInv == Typed /\ Owned

LEMMA InvInit == Init => IInv
BY TypedInit, NoLocalsIs DEF Init, IInv, Owned, Claim, Working

LEMMA InvCall ==
  ASSUME IInv, NEW p \in Procs, Step(p) \/ Kill(p)
  PROVE  IInv'
<1>0. Typed /\ Owned
  BY DEF IInv
<1>1. CASE SweepBegin(p) \/ Sweep(p) \/ ParentLock(p) \/ Mkdtemp(p) \/ Own(p)
  BY <1>0, <1>1, TypedStaging, OwnedStaging DEF IInv, Owned
<1>2. CASE Link(p) \/ Copy(p)
  <2>1. loc[p].pc \in Working /\ loc[p].dir \in Made /\ UNCHANGED parent
    BY <1>2, <1>0 DEF Link, Copy, At, Working, Owned, Claim
  <2>2. Typed' /\ dirs'[loc[p].dir] \in Staging
    BY <1>0, <1>2, <2>1, TypedLink, TypedCopy
  <2>3. loc' = [loc EXCEPT ![p] = loc'[p]] /\ loc'[p].dir = loc[p].dir /\ loc'[p].pc \in Working
    <3>1. CASE Link(p)
      BY <3>1, <1>0, <2>1, TypedLink DEF Working
    <3>2. CASE Copy(p)
      BY <3>2, <1>0, LocalAt DEF Copy, IsLocal, Fields, Working
    <3> QED BY <1>2, <3>1, <3>2
  <2>4. PICK holds : dirs' = [dirs EXCEPT ![loc[p].dir].holds = holds]
    BY <1>2 DEF Link, Copy
  <2> QED BY <1>0, <2>1, <2>2, <2>3, <2>4, OwnedFill DEF IInv, Owned
<1>3. CASE Read(p) \/ Check(p) \/ Finish(p) \/ Fail(p)
  BY <1>0, <1>3, TypedArchive, OwnedArchive DEF IInv, Owned
<1>4. CASE Cleanup(p) \/ Kill(p)
  BY <1>0, <1>4, TypedEnd, OwnedEnd DEF IInv, Owned
<1> QED BY <1>1, <1>2, <1>3, <1>4 DEF Step

LEMMA InvStep == IInv /\ [Next]_vars => IInv'
<1> SUFFICES ASSUME IInv, [Next]_vars PROVE IInv'
  OBVIOUS
<1>1. ASSUME NEW p \in Procs, Step(p) \/ Kill(p) PROVE IInv'
  BY <1>1, InvCall
<1>2. ASSUME NEW f \in Files, Publish(f) \/ Delete(f) \/ WriteInPlace(f) \/ Pin(f) \/ Chmod(f)
      PROVE  IInv'
  BY <1>2, TypedWriters, OwnedWriters DEF IInv, Owned
<1>3. CASE Tick \/ UNCHANGED vars
  <2>1. UNCHANGED <<path, ino, ops, fence, parent, dirs, loc, put, meddled, kills>>
        /\ now' \in 0..MaxTime /\ now <= now' /\ now \in Int
    BY <1>3, BackupAssumption DEF Tick, vars, vault, past, IInv, Typed, Vault
  <2>2. \A i \in Inodes : ino[i] = None \/ (ino[i] \in Inode /\ ino[i].ctime <= now')
    <3>1. \A i \in Inodes : ino[i] \in Inode => ino[i].ctime \in Int
      BY BackupAssumption DEF Inode
    <3> QED BY <2>1, <3>1 DEF IInv, Typed, Vault
  <2>3. Vault'
    BY <2>1, <2>2 DEF IInv, Typed, Vault
  <2> QED BY <2>1, <2>3 DEF IInv, Typed, Locals, Folders, Fenced, Past, Owned, Claim, Made
<1> QED BY <1>1, <1>2, <1>3 DEF Next

\* The vault, the staging directories and the locals of every create() call
\* keep their shape, whatever the writers do.
THEOREM TypeCorrect == Spec => []TypeOK
<1>1. IInv => TypeOK
  <2> SUFFICES ASSUME IInv PROVE TypeOK
    OBVIOUS
  <2>1. \A d \in Made : dirs[d].owner \in Procs \cup {None} /\ DOMAIN dirs[d].holds = Files
    BY DEF IInv, Typed, Folders, Made, Staging
  <2> QED BY <2>1 DEF IInv, Typed, Locals, IsLocal, Vault, Past, TypeOK
<1> QED BY InvInit, InvStep, <1>1, PTL DEF Spec

\* However many create() calls sweep, make, lock, fill and leave staging
\* directories, and are killed at any point, none loses the directory it
\* works in.
THEOREM StagingIsSafe == Spec => []StagingSafe
<1>1. IInv => StagingSafe
  BY DEF IInv, Owned, Claim, Working, StagingSafe, At
<1> QED BY InvInit, InvStep, <1>1, PTL DEF Spec

-----------------------------------------------------------------------------
(* What an archive holds                                                   *)

\* The locals that say what was seen under the fence and read after it.
Shape(p) ==
  LET c == loc[p] IN
  /\ DOMAIN c.refs = Files /\ DOMAIN c.sees = Files /\ DOMAIN c.data = Files
  /\ \A f \in Files : c.refs[f] = None \/ c.refs[f] \in Ref
  /\ c.over \in BOOLEAN /\ c.unchecked \in BOOLEAN
  /\ c.pc \notin {"read", "cleanup", "retry", "fail"} =>
       ~c.unchecked /\ \A f \in Files : c.data[f] = None
  /\ c.pc = "cleanup" => c.todo = {}

\* No two names share an inode.
Distinct == \A f, g \in Files : path[f] = path[g] /\ path[f] # 0 => f = g

\* Bytes of the fence, or ones that the stat tells from those: by the mtime,
\* or by the ctime as long as nothing else has to do with it.
Sound(p, f, b) ==
  LET r == loc[p].refs[f] IN
  \/ b \in loc[p].sees[f] \/ ino[r.inode].mtime # r.mtime
  \/ f \in put[p] /\ (f \in meddled[p] \/ ino[r.inode].ctime # r.ctime)

\* The stat of a file is not younger than its inode i.  It is older than the
\* next write, unless too many were urgent; mode and link count are those of
\* the stat unless noted.
Stat(p, f) ==
  LET r == loc[p].refs[f] IN
  \A i \in Inodes : r # None /\ r.inode = i =>
    /\ ino[i] # None /\ r.ctime <= ino[i].ctime
    /\ loc[p].over \/ r.mtime < now
    /\ f \in meddled[p] \/ (/\ ino[i].mode = r.mode
                            /\ r.kind = "link" => Nlink(i) = r.nlink)
    /\ Sound(p, f, ino[i].bytes)

\* Files come and go outside of the fence only.
UnderFence(p, f) ==
  LET c == loc[p] IN
  /\ path[f] = 0 => c.sees[f] = {None} /\ c.refs[f] = None
  /\ path[f] # 0 =>
       /\ ino[path[f]].bytes \in c.sees[f]
       /\ f \in c.forced <=> c.refs[f] = None
       /\ c.refs[f] # None => c.refs[f].inode = path[f]

\* A new directory is empty.  A linked file is linked in it, every file
\* without a stat is copied.
Fresh(p, f) == dirs[loc[p].dir].holds[f] = None
Linking(p, f) ==
  LET c == loc[p] IN
  c.refs[f] # None /\ c.refs[f].kind = "link" =>
    dirs[c.dir].holds[f] = LinkTo(c.refs[f].inode)
Copied(p, f) ==
  LET c == loc[p] IN
  c.refs[f] = None =>
    LET e == dirs[c.dir].holds[f] IN e \in Held /\ e.kind = "copy" /\ e.of \in c.sees[f]

\* What was read is of the fence, or the stat tells.
Passes(p, f) ==
  LET c == loc[p]
      r == c.refs[f]
  IN  /\ r = None => c.data[f] \in c.sees[f]
      /\ r # None /\ (r.kind = "live" => path[f] = r.inode) => Sound(p, f, c.data[f])

\* A file that is done with has bytes of the fence, or is named, or was
\* rewritten in the way that no stat shows.
Settled(p, f) ==
  LET c == loc[p] IN
  c.data[f] \in c.sees[f] \/ f \in c.rewritten \/ (f \in put[p] /\ f \in meddled[p])

Trace(p, f) ==
  LET c == loc[p] IN
  /\ c.pc \in {"own", "fence"} => Fresh(p, f)
  /\ c.pc \in {"copy", "read"} => Stat(p, f) /\ Linking(p, f)
  /\ c.pc = "copy" => UnderFence(p, f)
  /\ c.pc = "read" /\ f \in c.todo => Copied(p, f)
  /\ c.pc = "read" /\ c.unchecked /\ f \in c.todo /\ (\A g \in c.todo : f <= g) => Passes(p, f)
  /\ c.pc \in {"read", "cleanup"} /\ f \notin c.todo => Settled(p, f)

Traced == Distinct /\ \A p \in Procs : Shape(p) /\ \A f \in Files : Trace(p, f)

\* What goes on around a call: no inode goes away, and a name never returns
\* to one that was there.
Onward ==
  /\ now <= now' /\ now \in Int /\ now' \in Int
  /\ \A i \in Inodes : ino[i] # None => ino'[i] # None /\ ino[i].ctime \in Int /\ ino[i].ctime <= now
  /\ \A f \in Files : path'[f] \in {path[f], 0} \/ ino[path'[f]] = None

\* What becomes of the inode of a stat: its bytes change with the mtime, or
\* with the ctime and a note.  A change of mode or link count is noted.
Forward(q, f) ==
  LET r == loc[q].refs[f] IN
  /\ put[q] \subseteq put'[q] /\ meddled[q] \subseteq meddled'[q]
  /\ \A i \in Inodes : r # None /\ r.inode = i /\ ino[i] # None =>
       /\ ino'[i].ctime \in {ino[i].ctime, now}
       /\ \/ ino'[i].mtime = ino[i].mtime /\ ino'[i].bytes = ino[i].bytes
          \/ /\ ino'[i].mtime = now
             /\ r.mtime = now /\ loc[q].over => f \in put'[q] /\ f \in meddled'[q]
          \/ /\ ino'[i].mtime = ino[i].mtime /\ ino'[i].ctime = now
             /\ f \in put'[q] /\ (r.ctime = now => f \in meddled'[q])
       /\ f \notin meddled'[q] =>
            ino'[i].mode = ino[i].mode /\ (r.kind = "link" => Nlink(i)' = Nlink(i))

\* A step that leaves the archive of call p where it is; what is written may
\* be noted.
Rests(p) ==
  /\ \A x \in Fields \ {"sees"} : loc'[p][x] = loc[p][x]
  /\ DOMAIN loc'[p].sees = Files
  /\ \A f \in Files : loc[p].sees[f] \subseteq loc'[p].sees[f]
  /\ loc[p].pc \in {"own", "fence", "copy", "read"} =>
       dirs'[loc[p].dir].holds = dirs[loc[p].dir].holds

LEMMA RestsFields ==
  ASSUME NEW p, Rests(p)
  PROVE  /\ loc'[p].pc = loc[p].pc /\ loc'[p].dir = loc[p].dir /\ loc'[p].forced = loc[p].forced
         /\ loc'[p].over = loc[p].over /\ loc'[p].refs = loc[p].refs /\ loc'[p].data = loc[p].data
         /\ loc'[p].todo = loc[p].todo /\ loc'[p].unchecked = loc[p].unchecked
         /\ loc'[p].rewritten = loc[p].rewritten
BY DEF Rests, Fields

\* A stat and its inode.
LEMMA RefIs ==
  ASSUME NEW p, Shape(p), NEW f \in Files, loc[p].refs[f] # None
  PROVE  LET r == loc[p].refs[f] IN
         r.inode \in Inodes /\ r.mtime \in Int /\ r.ctime \in Int /\ r.inode # 0
BY BackupAssumption DEF Shape, Ref, Inodes

\* Once told from the bytes of the fence, told for good.
LEMMA StatForward ==
  ASSUME Onward, NEW p, NEW f \in Files, Shape(p), Stat(p, f), Forward(p, f),
         loc'[p].refs = loc[p].refs, loc'[p].over = loc[p].over,
         loc[p].sees[f] \subseteq loc'[p].sees[f]
  PROVE  /\ Stat(p, f)'
         /\ loc[p].refs[f] # None => \A b : Sound(p, f, b) => Sound(p, f, b)'
<1> DEFINE r == loc[p].refs[f]
<1>0. CASE r = None
  BY <1>0 DEF Stat
<1>1. CASE r # None
  <2> DEFINE i == r.inode
             j == ino[r.inode]
             k == ino'[r.inode]
             over == loc[p].over
  <2>1. i \in Inodes /\ r.mtime \in Int /\ r.ctime \in Int
    BY <1>1, RefIs
  <2>2. /\ j # None /\ r.ctime <= j.ctime /\ (over \/ r.mtime < now)
        /\ f \in meddled[p] \/ (j.mode = r.mode /\ (r.kind = "link" => Nlink(i) = r.nlink))
        /\ Sound(p, f, j.bytes)
    BY <2>1, <1>1 DEF Stat
  <2>3. now <= now' /\ now \in Int /\ now' \in Int /\ k # None /\ j.ctime \in Int /\ j.ctime <= now
    BY <2>1, <2>2 DEF Onward
  <2>4. /\ put[p] \subseteq put'[p] /\ meddled[p] \subseteq meddled'[p]
        /\ k.ctime \in {j.ctime, now}
        /\ \/ k.mtime = j.mtime /\ k.bytes = j.bytes
           \/ /\ k.mtime = now
              /\ r.mtime = now /\ over => f \in put'[p] /\ f \in meddled'[p]
           \/ /\ k.mtime = j.mtime /\ k.ctime = now
              /\ f \in put'[p] /\ (r.ctime = now => f \in meddled'[p])
    BY <2>1, <2>2, <1>1 DEF Forward
  <2>5. ASSUME NEW i0 \in Inodes, r.inode = i0, f \notin meddled'[p]
        PROVE  ino'[i0].mode = r.mode /\ (r.kind = "link" => Nlink(i0)' = r.nlink)
    <3>1. f \notin meddled[p] /\ ino[i0] # None
      BY <2>5, <2>4, <2>2
    <3>2. ino[i0].mode = r.mode /\ (r.kind = "link" => Nlink(i0) = r.nlink)
      BY <3>1, <2>5, <1>1 DEF Stat
    <3>3. ino'[i0].mode = ino[i0].mode /\ (r.kind = "link" => Nlink(i0)' = Nlink(i0))
      BY <3>1, <2>5, <1>1 DEF Forward
    <3> QED BY <3>2, <3>3
  <2> HIDE DEF j, k, over
  <2>6. r.ctime <= k.ctime /\ (over \/ r.mtime < now')
    BY <2>1, <2>2, <2>3, <2>4
  <2>7. ASSUME NEW b, NEW b1, NEW S, NEW T, S \subseteq T,
               b \in S \/ j.mtime # r.mtime \/ (f \in put[p] /\ (f \in meddled[p] \/ j.ctime # r.ctime)),
               b1 = b \/ (b = j.bytes /\ b1 = k.bytes)
        PROVE  b1 \in T \/ k.mtime # r.mtime
               \/ (f \in put'[p] /\ (f \in meddled'[p] \/ k.ctime # r.ctime))
    <3>1. CASE k.mtime = j.mtime /\ k.bytes = j.bytes
      BY <3>1, <2>1, <2>2, <2>3, <2>4, <2>7
    <3>2. CASE k.mtime = now /\ (r.mtime = now /\ over => f \in put'[p] /\ f \in meddled'[p])
      BY <3>2, <2>1, <2>2, <2>3
    <3>3. CASE k.ctime = now /\ f \in put'[p] /\ (r.ctime = now => f \in meddled'[p])
      BY <3>3, <2>1, <2>2, <2>3
    <3> QED BY <3>1, <3>2, <3>3, <2>4
  <2>8. ASSUME NEW b, Sound(p, f, b) PROVE Sound(p, f, b)'
    BY <2>7, <2>8 DEF Sound, j, k
  <2>9. ASSUME NEW i0 \in Inodes, r.inode = i0 PROVE Sound(p, f, ino[i0].bytes)'
    BY <2>7, <2>2, <2>9 DEF Sound, j, k
  <2>10. Stat(p, f)'
    <3> SUFFICES ASSUME NEW i0 \in Inodes, r.inode = i0
                 PROVE  /\ ino'[i0] # None /\ r.ctime <= ino'[i0].ctime
                        /\ loc[p].over \/ r.mtime < now'
                        /\ f \in meddled'[p] \/ (/\ ino'[i0].mode = r.mode
                                                 /\ r.kind = "link" => Nlink(i0)' = r.nlink)
                        /\ Sound(p, f, ino[i0].bytes)'
      BY DEF Stat
    <3> QED BY <2>3, <2>5, <2>6, <2>9 DEF k, over
  <2> QED BY <2>8, <2>10
<1> QED BY <1>0, <1>1

LEMMA TraceForward ==
  ASSUME Traced, Onward, NEW p \in Procs, Rests(p), NEW f \in Files, Forward(p, f),
         loc[p].pc = "copy" => UnderFence(p, f)'
  PROVE  Shape(p)' /\ Trace(p, f)'
<1> DEFINE c == loc[p]
           d == loc'[p]
<1>0. /\ d.pc = c.pc /\ d.dir = c.dir /\ d.forced = c.forced /\ d.over = c.over /\ d.refs = c.refs
      /\ d.data = c.data /\ d.todo = c.todo /\ d.unchecked = c.unchecked /\ d.rewritten = c.rewritten
  BY RestsFields
<1>1. Shape(p) /\ Trace(p, f) /\ DOMAIN d.sees = Files /\ c.sees[f] \subseteq d.sees[f]
  BY DEF Traced, Rests
<1>2. Shape(p)'
  BY <1>0, <1>1 DEF Shape
<1>3. Stat(p, f) => Stat(p, f)'
  BY <1>0, <1>1, StatForward
<1>4. c.pc \in {"own", "fence"} /\ Fresh(p, f) => Fresh(p, f)'
  BY <1>0 DEF Fresh, Rests
<1>5. c.pc \in {"copy", "read"} /\ Linking(p, f) => Linking(p, f)'
  BY <1>0 DEF Linking, Rests
<1>6. c.pc = "read" /\ Copied(p, f) => Copied(p, f)'
  BY <1>0, <1>1 DEF Copied, Rests
<1>7. Stat(p, f) /\ Passes(p, f) => Passes(p, f)'
  <2> HAVE Stat(p, f) /\ Passes(p, f)
  <2> DEFINE r == c.refs[f]
  <2>1. CASE r = None
    BY <2>1, <1>0, <1>1 DEF Passes
  <2>2. CASE r # None
    <3>1. r.inode \in Inodes /\ r.inode # 0 /\ ino[r.inode] # None
      BY <1>1, <2>2, RefIs DEF Stat
    <3>2. ASSUME r.kind = "live" => path'[f] = r.inode
          PROVE  Sound(p, f, c.data[f])'
      <4>1. r.kind = "live" => path[f] = r.inode
        BY <3>1, <3>2 DEF Onward
      <4>2. Sound(p, f, c.data[f])
        BY <4>1, <2>2 DEF Passes
      <4>3. \A b : Sound(p, f, b) => Sound(p, f, b)'
        BY <1>0, <1>1, <2>2, StatForward
      <4>4. PICK b : b = c.data[f]
        OBVIOUS
      <4>5. Sound(p, f, b)'
        BY <4>2, <4>3, <4>4
      <4> QED BY <4>4, <4>5, <1>0 DEF Sound
    <3>3. d.refs[f] # None /\ (d.refs[f].kind = "live" => path'[f] = d.refs[f].inode)
             => Sound(p, f, loc[p].data[f])'
      BY <3>2, <1>0 DEF Sound
    <3> QED BY <3>3, <2>2, <1>0 DEF Passes
  <2> QED BY <2>1, <2>2
<1>8. Settled(p, f) => Settled(p, f)'
  BY <1>0, <1>1 DEF Settled, Forward
<1> HIDE DEF c, d
<1>9. Trace(p, f)'
  <2>1. /\ c.pc \in {"own", "fence"} => Fresh(p, f)
        /\ c.pc \in {"copy", "read"} => Stat(p, f) /\ Linking(p, f)
        /\ c.pc = "read" /\ f \in c.todo => Copied(p, f)
        /\ c.pc = "read" /\ c.unchecked /\ f \in c.todo /\ (\A g \in c.todo : f <= g) => Passes(p, f)
        /\ c.pc \in {"read", "cleanup"} /\ f \notin c.todo => Settled(p, f)
    BY <1>1 DEF Trace, c
  <2>2. /\ d.pc \in {"own", "fence"} => Fresh(p, f)'
        /\ d.pc \in {"copy", "read"} => Stat(p, f)' /\ Linking(p, f)'
        /\ d.pc = "copy" => UnderFence(p, f)'
        /\ d.pc = "read" /\ f \in d.todo => Copied(p, f)'
        /\ d.pc = "read" /\ d.unchecked /\ f \in d.todo /\ (\A g \in d.todo : f <= g) => Passes(p, f)'
        /\ d.pc \in {"read", "cleanup"} /\ f \notin d.todo => Settled(p, f)'
    BY <2>1, <1>0, <1>3, <1>4, <1>5, <1>6, <1>7, <1>8 DEF c, d
  <2> QED BY <2>2 DEF Trace, d
<1> QED BY <1>2, <1>9

LEMMA SeenRests ==
  ASSUME Typed, Traced, NEW p \in Procs, NEW f \in Files, NEW b, Seen(f, b), UNCHANGED dirs
  PROVE  /\ Rests(p)
         /\ p \in fence => b \in loc'[p].sees[f]
         /\ \A g \in Files : g # f => loc'[p].sees[g] = loc[p].sees[g]
<1>1. DOMAIN loc[p] = Fields /\ DOMAIN loc[p].sees = Files
  BY LocalAt DEF IsLocal, Traced, Shape
<1>2. loc'[p] = IF p \in fence THEN [loc[p] EXCEPT !.sees[f] = @ \cup {b}] ELSE loc[p]
  BY DEF Seen
<1>3. CASE p \in fence
  <2> DEFINE sees == [loc[p].sees EXCEPT ![f] = @ \cup {b}]
  <2>1. loc'[p] = [loc[p] EXCEPT !.sees = sees]
    BY <1>2, <1>3
  <2>2. DOMAIN sees = Files /\ b \in sees[f] /\ (\A g \in Files : loc[p].sees[g] \subseteq sees[g])
        /\ (\A g \in Files : g # f => sees[g] = loc[p].sees[g])
    BY <1>1
  <2> HIDE DEF sees
  <2>3. loc'[p].sees = sees /\ \A x \in Fields \ {"sees"} : loc'[p][x] = loc[p][x]
    BY <1>1, <2>1 DEF Fields
  <2> QED BY <2>2, <2>3 DEF Rests
<1>4. CASE p \notin fence
  BY <1>1, <1>2, <1>4 DEF Rests
<1> QED BY <1>3, <1>4

LEMMA StillRests ==
  ASSUME Traced, NEW p \in Procs, loc'[p] = loc[p],
         loc[p].pc \in {"own", "fence", "copy", "read"} =>
           dirs'[loc[p].dir].holds = dirs[loc[p].dir].holds
  PROVE  Rests(p)
BY DEF Traced, Shape, Rests

\* Where the names and links of an inode stay, its link count does.
LEMMA NlinkSame ==
  ASSUME NEW i,
         \A f \in Files : path'[f] = i <=> path[f] = i,
         \A d \in Dirs : \A f \in Files :
           dirs'[d] # None /\ dirs'[d].holds[f] = LinkTo(i)
             <=> dirs[d] # None /\ dirs[d].holds[f] = LinkTo(i)
  PROVE  Nlink(i)' = Nlink(i)
<1>1. Names(i)' = Names(i)
  BY DEF Names
<1>2. LinkTo(i)' = LinkTo(i)
  BY DEF LinkTo
<1>3. Links(i)' = Links(i)
  BY <1>2 DEF Links, Made
<1> QED BY <1>1, <1>3 DEF Nlink

\* Links of inodes that come and go move their ctime, and are noted.
LEMMA EasedForward ==
  ASSUME NEW q \in Procs, NEW f \in Files, NEW I, Past, Shape(q),
         \A i \in Inodes : ino[i] # None =>
           /\ ino'[i].bytes = ino[i].bytes /\ ino'[i].mtime = ino[i].mtime
           /\ ino'[i].mode = ino[i].mode /\ ino'[i].ctime \in {ino[i].ctime, now},
         put'[q] = put[q], meddled'[q] = Relinked(I)[q] \/ (meddled'[q] = meddled[q] /\ I = {}),
         \A i \in Inodes \ I : ino[i] # None => Nlink(i)' = Nlink(i)
  PROVE  Forward(q, f)
<1>1. meddled[q] \subseteq meddled'[q] /\ Stats(q, I) \subseteq Files
      /\ \A g \in Files : g \in Stats(q, I) /\ loc[q].refs[g].kind = "link" => g \in meddled'[q]
  BY DEF Relinked, Stats
<1> SUFFICES ASSUME NEW i \in Inodes, loc[q].refs[f] # None, loc[q].refs[f].inode = i, ino[i] # None
             PROVE  /\ ino'[i].ctime \in {ino[i].ctime, now}
                    /\ ino'[i].mtime = ino[i].mtime /\ ino'[i].bytes = ino[i].bytes
                    /\ f \notin meddled'[q] => ino'[i].mode = ino[i].mode
                         /\ (loc[q].refs[f].kind = "link" => Nlink(i)' = Nlink(i))
  BY <1>1 DEF Forward
<1>2. i \in I => f \in Stats(q, I)
  BY DEF Stats
<1> QED BY <1>1, <1>2

\* Writing in place: the bytes of one inode, and its times or its mode.
LEMMA WrittenForward ==
  ASSUME NEW q \in Procs, NEW f \in Files, NEW i \in Inodes, ino[i] # None, Shape(q), Past,
         DOMAIN ino = Inodes, UNCHANGED <<path, dirs>>,
         \E x : ino' = [ino EXCEPT ![i] = x],
         put[q] \subseteq put'[q], meddled[q] \subseteq meddled'[q],
         LET r == loc[q].refs[f] IN
         r # None /\ r.inode = i =>
           /\ ino'[i].ctime \in {ino[i].ctime, now}
           /\ \/ ino'[i].mtime = ino[i].mtime /\ ino'[i].bytes = ino[i].bytes
              \/ /\ ino'[i].mtime = now
                 /\ r.mtime = now /\ loc[q].over => f \in put'[q] /\ f \in meddled'[q]
              \/ /\ ino'[i].mtime = ino[i].mtime /\ ino'[i].ctime = now
                 /\ f \in put'[q] /\ (r.ctime = now => f \in meddled'[q])
           /\ f \notin meddled'[q] => ino'[i].mode = ino[i].mode
  PROVE  Forward(q, f)
<1>1. \A j \in Inodes : Nlink(j)' = Nlink(j)
  BY NlinkSame
<1>2. \A j \in Inodes : j # i => ino'[j] = ino[j]
  OBVIOUS
<1>3. ASSUME NEW j \in Inodes, loc[q].refs[f] # None, loc[q].refs[f].inode = j, ino[j] # None, j # i
      PROVE  ino'[j] = ino[j] /\ Nlink(j)' = Nlink(j)
  BY <1>1, <1>2, <1>3
<1> QED BY <1>1, <1>3 DEF Forward

LEMMA TracedRename ==
  ASSUME Typed, Traced, NEW g \in Files, Publish(g) \/ Delete(g)
  PROVE  Traced'
<1>0. /\ Vault /\ Past /\ now \in Int /\ Distinct /\ DOMAIN path = Files /\ DOMAIN ino = Inodes
      /\ UNCHANGED <<now, put, fence, parent, dirs, loc>> /\ meddled' = Relinked({path[g]})
      /\ fence = {}
      /\ \A f \in Files : path[f] # 0 => path[f] \in Inodes /\ ino[path[f]] # None
      /\ \A i \in Inodes : ino[i] # None => ino[i].ctime \in Int /\ ino[i].ctime <= now
  <2>1. \A f \in Files : path[f] # 0 => path[f] \in Inodes
    BY BackupAssumption DEF Typed, Vault, Inodes
  <2>2. now \in Int
    BY BackupAssumption DEF Typed, Vault
  <2>3. \A i \in Inodes : ino[i] # None => ino[i].ctime \in Int /\ ino[i].ctime <= now
    BY BackupAssumption DEF Typed, Vault, Inode
  <2> QED BY <2>1, <2>2, <2>3, BackupAssumption DEF Typed, Vault, Traced, Publish, Delete
<1> DEFINE t == Touch({path[g]})
<1>1. /\ DOMAIN t = Inodes
      /\ \A i \in Inodes : ino[i] # None =>
           /\ t[i] # None /\ t[i].bytes = ino[i].bytes /\ t[i].mtime = ino[i].mtime
           /\ t[i].mode = ino[i].mode /\ t[i].ctime \in {ino[i].ctime, now}
  <2>1. DOMAIN t = Inodes
    BY DEF Touch
  <2> QED BY <2>1, <1>0, TouchIs
<1> HIDE DEF t
<1>2. PICK x : /\ path' = [path EXCEPT ![g] = x]
               /\ x = 0 \/ (x \in Inodes /\ ino[x] = None)
               /\ \A i \in Inodes : i # x => ino'[i] = t[i]
  <2>1. CASE Publish(g)
    <3>1. PICK i \in Inodes :
          /\ ino[i] = None /\ path' = [path EXCEPT ![g] = i]
          /\ ino' = [t EXCEPT ![i] = [bytes |-> ops', mtime |-> now, ctime |-> now, mode |-> 0]]
      BY <2>1 DEF Publish, t
    <3> QED BY <3>1, <1>1
  <2>2. CASE Delete(g)
    BY <2>2 DEF Delete, t
  <2> QED BY <2>1, <2>2
<1>3. \A i \in Inodes : ino[i] # None =>
        /\ ino'[i] # None /\ ino'[i].bytes = ino[i].bytes /\ ino'[i].mtime = ino[i].mtime
        /\ ino'[i].mode = ino[i].mode /\ ino'[i].ctime \in {ino[i].ctime, now}
  <2>1. 0 \notin Inodes
    BY BackupAssumption DEF Inodes
  <2> QED BY <1>1, <1>2, <2>1
<1>4. Onward
  <2>1. \A f \in Files : path'[f] \in {path[f], 0} \/ ino[path'[f]] = None
    BY <1>0, <1>2
  <2> QED BY <1>0, <1>3, <2>1 DEF Onward
<1>5. Distinct'
  BY <1>0, <1>2 DEF Distinct
<1>6. \A i \in Inodes \ {path[g]} : ino[i] # None => Nlink(i)' = Nlink(i)
  <2> TAKE i \in Inodes \ {path[g]}
  <2> HAVE ino[i] # None
  <2>1. i # 0
    BY BackupAssumption DEF Inodes
  <2>2. \A f \in Files : path'[f] = i <=> path[f] = i
    BY <1>0, <1>2, <2>1
  <2> QED BY <2>2, <1>0, NlinkSame
<1>7. ASSUME NEW q \in Procs, NEW f \in Files PROVE Forward(q, f) /\ Rests(q) /\ loc[q].pc # "copy"
  <2>1. Shape(q)
    BY DEF Traced
  <2>2. Rests(q) /\ loc[q].pc # "copy"
    BY <1>0, StillRests DEF Typed, Fenced
  <2> QED BY <2>1, <2>2, <1>0, <1>3, <1>6, EasedForward
<1>8. \A q \in Procs : Shape(q)'
  BY <1>0 DEF Traced, Shape
<1> QED BY <1>4, <1>5, <1>7, <1>8, TraceForward DEF Traced

LEMMA TracedInPlace ==
  ASSUME Typed, Traced, NEW g \in Files, WriteInPlace(g) \/ Pin(g) \/ Chmod(g)
  PROVE  Traced'
<1>0. /\ Vault /\ Past /\ now \in Int /\ Distinct /\ DOMAIN ino = Inodes
      /\ UNCHANGED <<path, now, fence, dirs>> /\ path[g] # 0
      /\ \A f \in Files : path[f] # 0 => path[f] \in Inodes /\ ino[path[f]] \in Inode
      /\ \A i \in Inodes : ino[i] # None => ino[i].ctime \in Int /\ ino[i].ctime <= now
  <2>1. \A f \in Files : path[f] # 0 => path[f] \in Inodes
    BY BackupAssumption DEF Typed, Vault, Inodes
  <2>2. now \in Int
    BY BackupAssumption DEF Typed, Vault
  <2>3. \A i \in Inodes : ino[i] # None => ino[i].ctime \in Int /\ ino[i].ctime <= now
    BY BackupAssumption DEF Typed, Vault, Inode
  <2> QED BY <2>1, <2>2, <2>3 DEF Typed, Vault, Traced, WriteInPlace, Pin, Chmod
<1> DEFINE i == path[g]
<1>1. i \in Inodes /\ ino[i] \in Inode /\ ino[i] # None
  BY <1>0, BackupAssumption
<1>2. /\ \E x : ino' = [ino EXCEPT ![i] = x]
      /\ ino'[i] # None /\ ino'[i].ctime = now
      /\ \/ /\ WriteInPlace(g) /\ ino'[i].mtime = now /\ ino'[i].mode = ino[i].mode
            /\ ino'[i].bytes = ops'
         \/ /\ Pin(g) /\ ino'[i].mtime = ino[i].mtime /\ ino'[i].mode = ino[i].mode
            /\ ino'[i].bytes = ops'
         \/ /\ Chmod(g) /\ ino'[i].mtime = ino[i].mtime /\ ino'[i].bytes = ino[i].bytes
  <2>0. ops' \in 0..MaxOps /\ now \in 0..MaxTime
    BY <1>0, BackupAssumption DEF WriteInPlace, Pin, Chmod, Writes, Vault
  <2>1. CASE WriteInPlace(g)
    <3> DEFINE x == [ino[i] EXCEPT !.bytes = ops', !.mtime = now, !.ctime = now]
    <3>1. x \in Inode
      BY <1>1, <2>0 DEF Inode
    <3>2. x.bytes = ops' /\ x.mtime = now /\ x.ctime = now /\ x.mode = ino[i].mode
      BY <1>1 DEF Inode
    <3>3. ino' = [ino EXCEPT ![i] = x]
      BY <2>1 DEF WriteInPlace
    <3> HIDE DEF x
    <3> QED BY <3>1, <3>2, <3>3, <2>1, <1>0, <1>1, BackupAssumption
  <2>2. CASE Pin(g)
    <3> DEFINE x == [ino[i] EXCEPT !.bytes = ops', !.ctime = now]
    <3>1. x \in Inode
      BY <1>1, <2>0 DEF Inode
    <3>2. x.bytes = ops' /\ x.mtime = ino[i].mtime /\ x.ctime = now /\ x.mode = ino[i].mode
      BY <1>1 DEF Inode
    <3>3. ino' = [ino EXCEPT ![i] = x]
      BY <2>2 DEF Pin
    <3> HIDE DEF x
    <3> QED BY <3>1, <3>2, <3>3, <2>2, <1>0, <1>1, BackupAssumption
  <2>3. CASE Chmod(g)
    <3> DEFINE m == 1 - ino[i].mode
               x == [ino[i] EXCEPT !.mode = m, !.ctime = now]
    <3>0. m \in {0, 1} /\ ino' = [ino EXCEPT ![i] = x]
      BY <2>3, <1>1 DEF Chmod, Inode
    <3> HIDE DEF m
    <3>1. x \in Inode
      BY <1>1, <2>0, <3>0 DEF Inode
    <3>2. x.bytes = ino[i].bytes /\ x.mtime = ino[i].mtime /\ x.ctime = now
      BY <1>1 DEF Inode
    <3>3. ino' = [ino EXCEPT ![i] = x]
      BY <3>0
    <3> HIDE DEF x
    <3> QED BY <3>1, <3>2, <3>3, <2>3, <1>0, <1>1, BackupAssumption
  <2> QED BY <2>1, <2>2, <2>3
<1>3. \A j \in Inodes : j # i => ino'[j] = ino[j]
  BY <1>2, <1>0
<1>4. Onward
  <2>1. \A j \in Inodes : ino[j] # None => ino'[j] # None
    BY <1>2, <1>3
  <2> QED BY <2>1, <1>0 DEF Onward
<1>5. Distinct'
  BY <1>0 DEF Distinct
<1>6. ASSUME NEW q \in Procs, NEW f \in Files
      PROVE  /\ put[q] \subseteq put'[q] /\ meddled[q] \subseteq meddled'[q]
             /\ LET r == loc[q].refs[f] IN
                r # None /\ r.inode = i =>
                  /\ \/ ino'[i].mtime = ino[i].mtime /\ ino'[i].bytes = ino[i].bytes
                     \/ /\ ino'[i].mtime = now
                        /\ r.mtime = now /\ loc[q].over => f \in put'[q] /\ f \in meddled'[q]
                     \/ /\ ino'[i].mtime = ino[i].mtime /\ ino'[i].ctime = now
                        /\ f \in put'[q] /\ (r.ctime = now => f \in meddled'[q])
                  /\ f \notin meddled'[q] => ino'[i].mode = ino[i].mode
  <2>1. CASE WriteInPlace(g) /\ ino'[i].mtime = now /\ ino'[i].mode = ino[i].mode
    <3> DEFINE S == {h \in Stats(q, {i}) : loc[q].over /\ loc[q].refs[h].mtime = now}
    <3>1. put'[q] = put[q] \cup S /\ meddled'[q] = meddled[q] \cup S
      BY <2>1 DEF WriteInPlace
    <3>2. loc[q].refs[f] # None /\ loc[q].refs[f].inode = i /\ loc[q].refs[f].mtime = now
            /\ loc[q].over => f \in S
      BY DEF Stats
    <3> HIDE DEF S
    <3> QED BY <3>1, <3>2, <2>1
  <2>2. CASE Pin(g) /\ ino'[i].mtime = ino[i].mtime /\ ino'[i].mode = ino[i].mode
    <3> DEFINE S == {h \in Stats(q, {i}) : loc[q].refs[h].ctime = now}
               T == Stats(q, {i})
    <3>1. put'[q] = put[q] \cup T /\ meddled'[q] = meddled[q] \cup S
      BY <2>2 DEF Pin
    <3>2. loc[q].refs[f] # None /\ loc[q].refs[f].inode = i =>
            f \in T /\ (loc[q].refs[f].ctime = now => f \in S)
      BY DEF Stats
    <3> HIDE DEF S, T
    <3> QED BY <3>1, <3>2, <2>2, <1>2
  <2>3. CASE Chmod(g) /\ ino'[i].mtime = ino[i].mtime /\ ino'[i].bytes = ino[i].bytes
    <3>1. put' = put /\ meddled'[q] = meddled[q] \cup Stats(q, {i})
      BY <2>3 DEF Chmod
    <3>2. loc[q].refs[f] # None /\ loc[q].refs[f].inode = i => f \in Stats(q, {i})
      BY DEF Stats
    <3> QED BY <3>1, <3>2, <2>3
  <2> QED BY <1>2, <2>1, <2>2, <2>3
<1>7. ASSUME NEW q \in Procs, NEW f \in Files PROVE Forward(q, f)
  <2>1. Shape(q)
    BY DEF Traced
  <2> HIDE DEF i
  <2> QED BY <2>1, <1>0, <1>1, <1>2, <1>6, WrittenForward
<1>8. ASSUME NEW q \in Procs, NEW f \in Files
      PROVE  Rests(q) /\ (loc[q].pc = "copy" => UnderFence(q, f)')
  <2>1. CASE Chmod(g)
    <3>1. UNCHANGED loc /\ ino'[i].bytes = ino[i].bytes
      BY <2>1, <1>2 DEF Chmod, Pin, WriteInPlace
    <3>2. Rests(q)
      BY <3>1, <1>0, StillRests
    <3>3. loc[q].pc = "copy" => UnderFence(q, f)
      BY DEF Traced, Trace
    <3>4. path[f] # 0 => ino'[path[f]].bytes = ino[path[f]].bytes
      BY <3>1, <1>0, <1>3
    <3> QED BY <3>1, <3>2, <3>3, <3>4, <1>0 DEF UnderFence
  <2>2. CASE (WriteInPlace(g) \/ Pin(g)) /\ ino'[i].bytes = ops'
    <3>1. Seen(g, ops')
      BY <2>2 DEF WriteInPlace, Pin
    <3>2. /\ Rests(q) /\ (q \in fence => ops' \in loc'[q].sees[g])
          /\ \A h \in Files : h # g => loc'[q].sees[h] = loc[q].sees[h]
      BY <3>1, <1>0, SeenRests
    <3>3. ASSUME loc[q].pc = "copy" PROVE UnderFence(q, f)'
      <4>1. UnderFence(q, f) /\ q \in fence
        BY <3>3 DEF Traced, Trace, Typed, Fenced
      <4>2. loc'[q].refs = loc[q].refs /\ loc'[q].forced = loc[q].forced
        BY <3>2, RestsFields
      <4>3. CASE f = g
        BY <4>1, <4>2, <4>3, <3>2, <2>2, <1>0 DEF UnderFence
      <4>4. CASE f # g
        <5>1. path[f] # 0 => ino'[path[f]] = ino[path[f]]
          BY <4>4, <1>0, <1>3 DEF Distinct
        <5> QED BY <4>1, <4>2, <4>4, <3>2, <5>1, <1>0 DEF UnderFence
      <4> QED BY <4>3, <4>4
    <3> QED BY <3>2, <3>3
  <2> QED BY <1>2, <2>1, <2>2
<1> QED BY <1>4, <1>5, <1>7, <1>8, TraceForward DEF Traced

LEMMA TracedTick ==
  ASSUME Typed, Traced, Tick \/ UNCHANGED vars
  PROVE  Traced'
<1>1. UNCHANGED <<path, ino, dirs, loc, put, meddled>> /\ now <= now' /\ now \in Int /\ now' \in Int
      /\ Past
  <2>1. now \in Int
    BY BackupAssumption DEF Typed, Vault
  <2> QED BY <2>1 DEF Tick, vars, vault, past, Typed
<1>2. Onward /\ Distinct'
  <2>1. \A i \in Inodes : ino[i] # None => ino[i].ctime \in Int /\ ino[i].ctime <= now
    BY BackupAssumption DEF Typed, Vault, Inode
  <2> QED BY <1>1, <2>1 DEF Onward, Traced, Distinct
<1>3. ASSUME NEW p \in Procs, NEW f \in Files
      PROVE  Rests(p) /\ Forward(p, f) /\ (loc[p].pc = "copy" => UnderFence(p, f)')
  <2>1. Rests(p)
    BY <1>1, StillRests
  <2>2. loc[p].pc = "copy" => UnderFence(p, f)
    BY DEF Traced, Trace
  <2>3. \A i \in Inodes : Nlink(i)' = Nlink(i)
    BY <1>1, NlinkSame
  <2>4. Forward(p, f)
    BY <2>3, <1>1 DEF Forward
  <2> QED BY <2>1, <2>2, <2>4, <1>1 DEF UnderFence
<1>4. \A p \in Procs : Shape(p)'
  BY <1>1 DEF Traced, Shape
<1> QED BY <1>2, <1>3, <1>4, TraceForward DEF Traced

\* A step of call p that moves ctimes of the inodes in I and notes that of the
\* other calls, and leaves their directories alone.
LEMMA TraceOthers ==
  ASSUME Typed, Traced, NEW p \in Procs, NEW q \in Procs, q # p, NEW I,
         UNCHANGED <<path, now>>, Eased,
         put'[q] = put[q], meddled'[q] = Relinked(I)[q] \/ (meddled'[q] = meddled[q] /\ I = {}),
         \A i \in Inodes \ I : Nlink(i)' = Nlink(i),
         NEW c, loc' = [loc EXCEPT ![p] = c],
         loc[q].pc \in {"own", "fence", "copy", "read"} =>
           dirs'[loc[q].dir].holds = dirs[loc[q].dir].holds
  PROVE  Shape(q)' /\ \A f \in Files : Trace(q, f)'
<1>1. loc'[q] = loc[q] /\ Past /\ now \in Int
      /\ \A i \in Inodes : ino[i] # None => ino[i].ctime \in Int /\ ino[i].ctime <= now
  <2>1. loc'[q] = loc[q] /\ Past
    BY LocalAt DEF Typed
  <2>2. now \in Int /\ \A i \in Inodes : ino[i] # None => ino[i].ctime \in Int /\ ino[i].ctime <= now
    BY BackupAssumption DEF Typed, Vault, Inode
  <2> QED BY <2>1, <2>2
<1>2. Rests(q)
  BY <1>1, StillRests
<1>3. Onward
  BY <1>1 DEF Onward, Eased
<1>4. Shape(q) /\ Shape(q)'
  BY <1>1 DEF Traced, Shape
<1>5. \A i \in Inodes : ino[i] # None =>
        /\ ino'[i].bytes = ino[i].bytes /\ ino'[i].mtime = ino[i].mtime
        /\ ino'[i].mode = ino[i].mode /\ ino'[i].ctime \in {ino[i].ctime, now}
  BY DEF Eased
<1>6. ASSUME NEW f \in Files PROVE Trace(q, f)'
  <2>1. Forward(q, f)
    BY <1>1, <1>4, <1>5, EasedForward
  <2>2. loc[q].pc = "copy" => UnderFence(q, f)'
    <3>1. loc[q].pc = "copy" => UnderFence(q, f)
      BY DEF Traced, Trace
    <3>2. path[f] # 0 => ino'[path[f]].bytes = ino[path[f]].bytes
      <4>1. path[f] # 0 => path[f] \in Inodes /\ ino[path[f]] # None
        BY BackupAssumption DEF Typed, Vault, Inodes
      <4> QED BY <4>1, <1>5
    <3> QED BY <3>1, <3>2, <1>1 DEF UnderFence
  <2> QED BY <2>1, <2>2, <1>2, <1>3, TraceForward
<1> QED BY <1>4, <1>6

\* A call with empty locals, or between two attempts.
Empty(c) ==
  /\ DOMAIN c = Fields /\ c.refs = Nothing /\ c.data = Nothing /\ DOMAIN c.sees = Files
  /\ c.over = FALSE /\ c.unchecked = FALSE
  /\ c.pc \notin {"own", "fence", "copy", "read", "retry", "fail", "cleanup"}

LEMMA TraceEmpty ==
  ASSUME NEW p \in Procs, Empty(loc[p])
  PROVE  Shape(p) /\ \A f \in Files : Trace(p, f)
BY DEF Empty, Nothing, Shape, Trace

LEMMA NoLocalsEmpty ==
  /\ Empty(NoLocals) /\ Empty([NoLocals EXCEPT !.pc = "done"])
  /\ \A n, S : Empty([NoLocals EXCEPT !.pc = "parent", !.attempt = n, !.copy = S])
BY DEF Empty, NoLocals, Fields

LEMMA TracedInit == Init => Traced
<1> SUFFICES ASSUME Init PROVE Traced
  OBVIOUS
<1>1. Distinct
  BY DEF Init, Distinct
<1>2. \A p \in Procs : Empty(loc[p])
  BY NoLocalsEmpty DEF Init
<1> QED BY <1>1, <1>2, TraceEmpty DEF Traced

\* A step before the fence moves the place and the directory only.
LEMMA TraceBefore ==
  ASSUME Typed, Traced, NEW p \in Procs, NEW to \in PC \ {"copy", "read", "cleanup", "retry", "fail"},
         loc[p].pc \notin {"copy", "read", "cleanup", "retry", "fail"},
         loc' = [loc EXCEPT ![p].pc = to] \/ \E d : loc' = [loc EXCEPT ![p].pc = to, ![p].dir = d],
         to \in {"own", "fence"} => \A f \in Files : Fresh(p, f)'
  PROVE  Shape(p)' /\ \A f \in Files : Trace(p, f)'
<1>1. DOMAIN loc = Procs /\ DOMAIN loc[p] = Fields /\ Shape(p)
  BY LocalAt DEF IsLocal, Traced
<1>2. /\ loc'[p].pc = to
      /\ \A x \in Fields \ {"pc", "dir"} : loc'[p][x] = loc[p][x]
  BY <1>1 DEF Fields
<1>3. /\ loc'[p].refs = loc[p].refs /\ loc'[p].sees = loc[p].sees /\ loc'[p].data = loc[p].data
      /\ loc'[p].over = loc[p].over /\ loc'[p].unchecked = loc[p].unchecked
  BY <1>2 DEF Fields
<1>4. Shape(p)'
  BY <1>1, <1>2, <1>3 DEF Shape
<1> QED BY <1>2, <1>4 DEF Trace

\* A change of owner moves no link, the removal of directories those inside.
LEMMA OwnersLinks ==
  ASSUME Typed, UNCHANGED path,
         \A d \in Dirs : (dirs'[d] = None <=> dirs[d] = None)
                         /\ (dirs[d] # None => dirs'[d].holds = dirs[d].holds)
  PROVE  \A i \in Inodes : Nlink(i)' = Nlink(i)
BY NlinkSame

LEMMA RemoveLinks ==
  ASSUME Typed, UNCHANGED path, NEW D \in SUBSET Made, Remove(D)
  PROVE  \A i \in Inodes \ Inside(D \X Files) : Nlink(i)' = Nlink(i)
<1> TAKE i \in Inodes \ Inside(D \X Files)
<1>1. ASSUME NEW d \in Dirs, NEW f \in Files
      PROVE  dirs'[d] # None /\ dirs'[d].holds[f] = LinkTo(i)
               <=> dirs[d] # None /\ dirs[d].holds[f] = LinkTo(i)
  <2>1. CASE d \in D
    <3>1. dirs'[d] = None
      BY <2>1 DEF Remove
    <3>2. <<d, f>> \in D \X Files /\ <<d, f>>[1] = d /\ <<d, f>>[2] = f
      BY <2>1
    <3>3. dirs[d].holds[f] # LinkTo(i)
      BY <3>2 DEF Inside
    <3> QED BY <3>1, <3>3
  <2>2. CASE d \notin D
    BY <2>2 DEF Remove
  <2> QED BY <2>1, <2>2
<1> QED BY <1>1, NlinkSame

\* The directory of a call that makes or fills one.
LEMMA DirOf ==
  ASSUME Typed, Owned, NEW q \in Procs, loc[q].pc \in {"own", "fence", "copy", "read"}
  PROVE  /\ loc[q].dir \in Made /\ loc[q].dir \in Dirs /\ DOMAIN dirs = Dirs
         /\ dirs[loc[q].dir] \in Staging /\ dirs[loc[q].dir] # None
         /\ dirs[loc[q].dir].owner = q \/ (dirs[loc[q].dir].owner = None /\ parent = q)
BY DEF Owned, Claim, Working, Typed, Folders, Made

LEMMA TracedSweep ==
  ASSUME Typed, Owned, Traced, NEW p \in Procs, Sweep(p)
  PROVE  Traced'
<1> DEFINE D == {d \in Made : dirs[d].owner = None}
           I == Inside(D \X Files)
<1>1. /\ Remove(D) /\ ino' = Touch(I) /\ meddled' = Relinked(I) /\ UNCHANGED <<path, now, put>>
      /\ loc' = [loc EXCEPT ![p].pc = "parent"] /\ loc[p].pc = "sweep" /\ parent = p
      /\ dirs' = [d \in Dirs |-> IF d \in D THEN None ELSE dirs[d]]
  BY DEF Sweep, Remove, Unlinks, Go, At, Owned, Claim
<1>2. Eased /\ \A i \in Inodes \ I : Nlink(i)' = Nlink(i)
  <2>1. D \in SUBSET Made /\ Vault
    BY DEF Typed
  <2> HIDE DEF D
  <2> QED BY <2>1, <1>1, RemoveLinks, TouchEased
<1>3. ASSUME NEW q \in Procs, q # p, loc[q].pc \in {"own", "fence", "copy", "read"}
      PROVE  dirs'[loc[q].dir].holds = dirs[loc[q].dir].holds
  <2>1. loc[q].dir \notin D /\ loc[q].dir \in Dirs
    BY <1>1, <1>3, DirOf, BackupAssumption
  <2> HIDE DEF D
  <2> QED BY <2>1, <1>1
<1> HIDE DEF I, D
<1>4. PICK c : loc' = [loc EXCEPT ![p] = c]
  BY <1>1, LocalAt
<1>5. ASSUME NEW q \in Procs, q # p PROVE Shape(q)' /\ \A f \in Files : Trace(q, f)'
  BY <1>1, <1>2, <1>3, <1>4, <1>5, TraceOthers
<1>6. Shape(p)' /\ \A f \in Files : Trace(p, f)'
  <2>1. "parent" \in PC \ {"copy", "read", "cleanup", "retry", "fail"}
    BY DEF PC
  <2> QED BY <2>1, <1>1, TraceBefore
<1> QED BY <1>1, <1>5, <1>6 DEF Traced, Distinct

LEMMA TracedBefore ==
  ASSUME Typed, Owned, Traced, NEW p \in Procs,
         SweepBegin(p) \/ ParentLock(p) \/ Mkdtemp(p) \/ Own(p)
  PROVE  Traced'
<1>0. UNCHANGED <<path, ino, now, put, meddled>> /\ Distinct' /\ Eased
  <2>1. UNCHANGED <<path, ino, now, put, meddled>>
    BY DEF SweepBegin, ParentLock, Mkdtemp, Own, vault, past
  <2> QED BY <2>1, TouchEased DEF Traced, Distinct, Typed
<1>1. CASE SweepBegin(p) \/ ParentLock(p)
  <2>1. PICK to \in {"sweep", "parent", "mkdtemp"} :
          loc' = [loc EXCEPT ![p].pc = to] /\ UNCHANGED dirs /\ loc[p].pc \in {"new", "parent"}
    BY <1>1 DEF SweepBegin, ParentLock, Go, At
  <2>2. to \in PC \ {"copy", "read", "cleanup", "retry", "fail"}
    BY DEF PC
  <2>3. Shape(p)' /\ \A f \in Files : Trace(p, f)'
    BY <2>1, <2>2, TraceBefore
  <2>4. PICK c : loc' = [loc EXCEPT ![p] = c]
    BY <2>1, LocalAt
  <2>5. \A i \in Inodes \ {} : Nlink(i)' = Nlink(i)
    BY <2>1, <1>0, NlinkSame
  <2>6. ASSUME NEW q \in Procs, q # p PROVE Shape(q)' /\ \A f \in Files : Trace(q, f)'
    BY <2>1, <2>4, <2>5, <2>6, <1>0, TraceOthers
  <2> QED BY <1>0, <2>3, <2>6 DEF Traced
<1>2. CASE Mkdtemp(p)
  <2>1. PICK d \in Dirs \ Made :
          /\ dirs' = [dirs EXCEPT ![d] = [owner |-> None, holds |-> Nothing]]
          /\ loc' = [loc EXCEPT ![p].pc = "own", ![p].dir = d]
    BY <1>2 DEF Mkdtemp
  <2>2. loc[p].pc = "mkdtemp" /\ DOMAIN dirs = Dirs /\ DOMAIN loc[p] = Fields /\ DOMAIN loc = Procs
    BY <1>2, LocalAt DEF Mkdtemp, At, Typed, Folders, IsLocal
  <2>3. dirs'[d].holds = Nothing /\ \A e \in Made : dirs'[e] = dirs[e]
    BY <2>1, <2>2 DEF Made
  <2>4. Shape(p)' /\ \A f \in Files : Trace(p, f)'
    <3>1. "own" \in PC \ {"copy", "read", "cleanup", "retry", "fail"}
      BY DEF PC
    <3>2. loc'[p].dir = d
      BY <2>1, <2>2 DEF Fields
    <3>3. \A f \in Files : Fresh(p, f)'
      BY <2>3, <3>2 DEF Fresh, Nothing
    <3> QED BY <3>1, <3>3, <2>1, <2>2, TraceBefore
  <2>5. PICK c : loc' = [loc EXCEPT ![p] = c]
    BY <2>1, LocalAt
  <2>6. \A i \in Inodes \ {} : Nlink(i)' = Nlink(i)
    <3> TAKE i \in Inodes \ {}
    <3>1. LinkTo(i) # None
      <4>1. i \in Nat
        BY BackupAssumption DEF Inodes
      <4> QED BY <4>1, BackupAssumption DEF LinkTo, Held
    <3>2. \A e \in Dirs : \A f \in Files :
            dirs'[e] # None /\ dirs'[e].holds[f] = LinkTo(i)
              <=> dirs[e] # None /\ dirs[e].holds[f] = LinkTo(i)
      BY <2>1, <2>3, <3>1 DEF Made, Nothing
    <3> QED BY <3>2, <1>0, NlinkSame
  <2>7. ASSUME NEW q \in Procs, q # p PROVE Shape(q)' /\ \A f \in Files : Trace(q, f)'
    <3>1. loc[q].pc \in {"own", "fence", "copy", "read"} =>
            dirs'[loc[q].dir].holds = dirs[loc[q].dir].holds
      BY <2>3, DirOf
    <3> QED BY <3>1, <2>5, <2>6, <2>7, <1>0, TraceOthers
  <2> QED BY <1>0, <2>4, <2>7 DEF Traced
<1>3. CASE Own(p)
  <2>1. loc[p].pc = "own" /\ loc' = [loc EXCEPT ![p].pc = "fence"] /\ loc[p].dir \in Made
        /\ dirs[loc[p].dir].owner = None /\ parent = p
        /\ dirs' = [dirs EXCEPT ![loc[p].dir].owner = p] /\ DOMAIN dirs = Dirs
        /\ dirs[loc[p].dir] \in Staging
    BY <1>3, DirOf DEF Own, Go, At, Owned, Claim
  <2>2. \A d \in Dirs : (dirs'[d] = None <=> dirs[d] = None)
                        /\ (dirs[d] # None => dirs'[d].holds = dirs[d].holds)
    <3> DEFINE x == [dirs[loc[p].dir] EXCEPT !.owner = p]
    <3>1. x \in Staging /\ x.holds = dirs[loc[p].dir].holds
      BY <2>1 DEF Staging
    <3>2. dirs' = [dirs EXCEPT ![loc[p].dir] = x]
      BY <2>1
    <3> HIDE DEF x
    <3> QED BY <3>1, <3>2, <2>1, BackupAssumption DEF Made
  <2>3. Shape(p)' /\ \A f \in Files : Trace(p, f)'
    <3>1. "fence" \in PC \ {"copy", "read", "cleanup", "retry", "fail"}
      BY DEF PC
    <3>2. loc'[p].dir = loc[p].dir
      BY <2>1, LocalAt DEF IsLocal, Fields
    <3>3. \A f \in Files : Fresh(p, f)
      BY <2>1 DEF Traced, Trace
    <3>4. \A f \in Files : Fresh(p, f)'
      BY <2>1, <2>2, <3>2, <3>3 DEF Fresh, Made
    <3> QED BY <3>1, <3>4, <2>1, TraceBefore
  <2>4. PICK c : loc' = [loc EXCEPT ![p] = c]
    BY <2>1, LocalAt
  <2>5. \A i \in Inodes \ {} : Nlink(i)' = Nlink(i)
    BY <2>2, <1>0, OwnersLinks
  <2>6. ASSUME NEW q \in Procs, q # p PROVE Shape(q)' /\ \A f \in Files : Trace(q, f)'
    <3>1. loc[q].pc \in {"own", "fence", "copy", "read"} =>
            dirs'[loc[q].dir].holds = dirs[loc[q].dir].holds
      BY <2>2, DirOf
    <3> QED BY <3>1, <2>4, <2>5, <2>6, <1>0, TraceOthers
  <2> QED BY <1>0, <2>3, <2>6 DEF Traced
<1> QED BY <1>1, <1>2, <1>3

LEMMA TracedEnd ==
  ASSUME Typed, Owned, Traced, NEW p \in Procs, Cleanup(p) \/ Kill(p)
  PROVE  Traced'
<1>1. PICK c : loc' = [loc EXCEPT ![p] = c] /\ Empty(c)
  <2>1. CASE Kill(p)
    BY <2>1, NoLocalsEmpty DEF Kill
  <2>2. CASE Cleanup(p) /\ ~At(p, "retry")
    BY <2>2, NoLocalsEmpty DEF Cleanup
  <2>3. CASE Cleanup(p) /\ At(p, "retry")
    BY <2>3, NoLocalsEmpty DEF Cleanup
  <2> QED BY <2>1, <2>2, <2>3
<1>2. Shape(p)' /\ \A f \in Files : Trace(p, f)'
  <2>1. Empty(loc'[p])
    BY <1>1, LocalAt
  <2> QED BY <2>1 DEF Empty, Nothing, Shape, Trace
<1>3. CASE Cleanup(p)
  <2> DEFINE D == {loc[p].dir} \cap Made
             I == Inside(D \X Files)
  <2>1. Remove(D) /\ ino' = Touch(I) /\ meddled' = Relinked(I) /\ UNCHANGED <<path, now, put>>
        /\ dirs' = [d \in Dirs |-> IF d \in D THEN None ELSE dirs[d]] /\ D \in SUBSET Made /\ Vault
    BY <1>3 DEF Cleanup, Remove, Unlinks, Typed
  <2>2. ASSUME NEW q \in Procs, q # p, loc[q].pc \in {"own", "fence", "copy", "read"}
        PROVE  dirs'[loc[q].dir].holds = dirs[loc[q].dir].holds
    <3>1. Claim(p) /\ loc[p].pc \in Working
      BY <1>3 DEF Owned, Cleanup, Working
    <3>2. loc[q].dir \notin D /\ loc[q].dir \in Dirs
      BY <2>2, <3>1, DirOf, BackupAssumption DEF Claim
    <3> HIDE DEF D
    <3> QED BY <3>2, <2>1
  <2> HIDE DEF I, D
  <2>3. Eased
    BY <2>1, TouchEased
  <2>4. \A i \in Inodes \ I : Nlink(i)' = Nlink(i)
    BY <2>1, RemoveLinks DEF I
  <2>5. ASSUME NEW q \in Procs, q # p PROVE Shape(q)' /\ \A f \in Files : Trace(q, f)'
    BY <2>1, <2>2, <2>3, <2>4, <2>5, <1>1, TraceOthers
  <2> QED BY <2>1, <2>5, <1>2 DEF Traced, Distinct
<1>4. CASE Kill(p)
  <2>1. UNCHANGED <<path, ino, now, put, meddled>>
        /\ dirs' = [d \in Dirs |-> IF d \in Made /\ dirs[d].owner = p
                                     THEN [dirs[d] EXCEPT !.owner = None] ELSE dirs[d]]
    BY <1>4 DEF Kill, vault, past
  <2>2. \A d \in Dirs : (dirs'[d] = None <=> dirs[d] = None)
                        /\ (dirs[d] # None => dirs'[d].holds = dirs[d].holds)
    <3>1. \A x \in Staging : [x EXCEPT !.owner = None] \in Staging
                             /\ [x EXCEPT !.owner = None].holds = x.holds
      BY DEF Staging
    <3>2. \A d \in Dirs : dirs[d] = None \/ dirs[d] \in Staging
      BY DEF Typed, Folders
    <3>3. \A d \in Dirs : dirs'[d] = dirs[d]
            \/ (dirs[d] # None /\ dirs'[d] = [dirs[d] EXCEPT !.owner = None])
      BY <2>1 DEF Made
    <3> TAKE d \in Dirs
    <3>4. CASE dirs'[d] = dirs[d]
      BY <3>4
    <3>5. CASE dirs[d] # None /\ dirs'[d] = [dirs[d] EXCEPT !.owner = None]
      <4>1. dirs[d] \in Staging
        BY <3>2, <3>5
      <4>2. dirs'[d] \in Staging /\ dirs'[d].holds = dirs[d].holds
        BY <3>1, <3>5, <4>1
      <4> QED BY <3>5, <4>2, BackupAssumption
    <3> QED BY <3>3, <3>4, <3>5
  <2>3. \A i \in Inodes \ {} : Nlink(i)' = Nlink(i)
    BY <2>1, <2>2, OwnersLinks
  <2>4. Eased
    BY <2>1, TouchEased DEF Typed
  <2>5. ASSUME NEW q \in Procs, q # p PROVE Shape(q)' /\ \A f \in Files : Trace(q, f)'
    <3>1. loc[q].pc \in {"own", "fence", "copy", "read"} =>
            dirs'[loc[q].dir].holds = dirs[loc[q].dir].holds
      BY <2>2, DirOf
    <3> QED BY <3>1, <2>1, <2>3, <2>4, <2>5, <1>1, TraceOthers
  <2> QED BY <2>1, <2>5, <1>2 DEF Traced, Distinct
<1> QED BY <1>3, <1>4

\* A step of p that leaves the vault, its own directory included.
LEMMA TracedWork ==
  ASSUME Typed, Owned, Traced, NEW p \in Procs, NEW c, loc' = [loc EXCEPT ![p] = c],
         UNCHANGED <<vault, dirs, past>>, Shape(p)', \A f \in Files : Trace(p, f)'
  PROVE  Traced'
<1>1. UNCHANGED <<path, ino, now, put, meddled>>
  BY DEF vault, past
<1>2. Eased /\ \A i \in Inodes \ {} : Nlink(i)' = Nlink(i)
  BY <1>1, TouchEased, NlinkSame DEF Typed
<1>3. ASSUME NEW q \in Procs, q # p PROVE Shape(q)' /\ \A f \in Files : Trace(q, f)'
  BY <1>1, <1>2, <1>3, TraceOthers
<1> QED BY <1>1, <1>3 DEF Traced, Distinct

\* A link count is a number.
LEMMA CountNat ==
  ASSUME NEW S \in SUBSET Files, NEW T \in SUBSET (Dirs \X Files)
  PROVE  Cardinality(S) + Cardinality(T) \in Nat
<1>1. IsFiniteSet(Files) /\ IsFiniteSet(Dirs)
  BY FS_Interval, BackupAssumption DEF Files, Dirs
<1>2. IsFiniteSet(Dirs \X Files)
  BY <1>1, FS_Product
<1>3. IsFiniteSet(S) /\ IsFiniteSet(T)
  BY <1>1, <1>2, FS_Subset
<1>4. Cardinality(S) \in Nat /\ Cardinality(T) \in Nat
  BY <1>3, FS_CardinalityType
<1> QED BY <1>4

\* Where there is room for every urgent file, each of them is copied.
LEMMA UrgentForced ==
  ASSUME NEW S, NEW copy, IsForced(S, copy), ~TooMany
  PROVE  Urgent \subseteq S
<1>1. IsFiniteSet(Files)
  BY FS_Interval, BackupAssumption DEF Files
<1>2. Urgent \in SUBSET Files
  BY DEF Urgent, Present
<1>3. IsFiniteSet(Urgent)
  BY <1>1, <1>2, FS_Subset
<1>4. Cardinality(Urgent) \in Nat /\ Cap \in Nat /\ Cardinality(Urgent) <= Cap /\ Urgent \in Fits
      /\ SUBSET Urgent \subseteq Fits
  <2>1. Cardinality(Urgent) \in Nat /\ Cap \in Nat
    BY <1>3, FS_CardinalityType, BackupAssumption
  <2>2. Urgent \in Fits /\ ~(Cardinality(Urgent) > Cap)
    BY DEF TooMany
  <2>3. SUBSET Urgent \subseteq Fits
    BY <2>2, BackupAssumption
  <2> QED BY <2>1, <2>2, <2>3
<1>5. ASSUME NEW f \in Urgent PROVE f \in S
  <2> DEFINE B == {g \in S : g \in Urgent /\ g < f}
             Before(x) == {g \in S : IF x \in Urgent THEN g \in Urgent /\ g < x
                                                    ELSE g \in Urgent \/ g < x}
  <2>1. Before(f) = B
    OBVIOUS
  <2>2. f \in Int
    BY <1>2 DEF Files
  <2>3. B \in SUBSET (Urgent \ {f})
    BY <2>2
  <2>4. IsFiniteSet(Urgent \ {f}) /\ Cardinality(Urgent \ {f}) = Cardinality(Urgent) - 1
    BY <1>3, FS_RemoveElement
  <2>5. IsFiniteSet(B) /\ Cardinality(B) <= Cardinality(Urgent \ {f})
    BY <2>3, <2>4, FS_Subset
  <2>6. Cardinality(B) \in Nat
    BY <2>5, FS_CardinalityType
  <2>7. Cardinality(B) < Cap
    BY <2>4, <2>5, <2>6, <1>4
  <2>8. B \cup {f} \in Fits
    <3>1. B \cup {f} \in SUBSET Urgent
      BY <2>3
    <3> QED BY <3>1, <1>4
  <2>9. S = {x \in Urgent \cup (copy \cap Present) :
               Cardinality(Before(x)) < Cap /\ Before(x) \cup {x} \in Fits}
    BY DEF IsForced
  <2> HIDE DEF B, Before
  <2> QED BY <2>1, <2>7, <2>8, <2>9
<1> QED BY <1>5

LEMMA TracedLink ==
  ASSUME Typed, Owned, Traced, NEW p \in Procs, Link(p)
  PROVE  Traced'
<1> DEFINE sees == [f \in Files |-> {IF path[f] = 0 THEN None ELSE ino[path[f]].bytes}]
           ref(linked, f) ==
             [kind  |-> IF f \in linked THEN "link" ELSE "live", inode |-> path[f],
              nlink |-> Nlink(path[f])', mtime |-> ino[path[f]].mtime,
              ctime |-> ino'[path[f]].ctime, mode |-> ino[path[f]].mode]
           refs(linked, forced) ==
             [f \in Files |->
               IF f \notin Present \ forced THEN None
               ELSE [kind  |-> IF f \in linked THEN "link" ELSE "live", inode |-> path[f],
                     nlink |-> Nlink(path[f])', mtime |-> ino[path[f]].mtime,
                     ctime |-> ino'[path[f]].ctime, mode |-> ino[path[f]].mode]]
<1>0. PICK linked \in SUBSET Present, must \in SUBSET Present, forced \in SUBSET Present :
        /\ IsForced(must, loc[p].copy) /\ must \subseteq forced /\ IsHot(forced \ must)
        /\ dirs' = [dirs EXCEPT ![loc[p].dir].holds =
             [f \in Files |-> IF f \in linked THEN LinkTo(path[f]) ELSE None]]
        /\ ino' = Touch({path[f] : f \in linked})
        /\ put' = [put EXCEPT ![p] = {}]
             /\ meddled' = [Relinked({path[f] : f \in linked}) EXCEPT ![p] = {}]
        /\ loc' = [loc EXCEPT ![p].pc = "copy", ![p].forced = forced, ![p].over = TooMany,
                              ![p].sees = sees, ![p].refs = refs(linked, forced)]
  BY Zenon DEF Link
<1> DEFINE I == {path[f] : f \in linked}
<1>a. /\ loc[p].pc = "fence" /\ DOMAIN loc = Procs /\ Vault /\ Past /\ UNCHANGED <<path, now>>
      /\ loc[p].dir \in Made /\ dirs[loc[p].dir] \in Staging /\ DOMAIN dirs = Dirs
      /\ loc[p].dir \in Dirs /\ dirs[loc[p].dir] # None
  BY LocalAt, DirOf DEF Link, At, Typed
<1>b. Eased
  BY <1>0, <1>a, TouchEased
<1>1. ASSUME NEW f \in Files, path[f] # 0
      PROVE  /\ path[f] \in Inodes /\ ino[path[f]] \in Inode /\ ino[path[f]] # None
             /\ ref(linked, f) \in Ref
             /\ ~TooMany /\ f \notin forced => ino[path[f]].mtime < now
  <2>1. path[f] \in Inodes /\ ino[path[f]] \in Inode /\ ino[path[f]] # None
    BY <1>1, BackupAssumption DEF Typed, Vault, Inodes
  <2>2. Nlink(path[f])' \in Nat
    <3> DEFINE S == {g \in Files : path'[g] = path'[f]}
               T == {e \in Made' \X Files : dirs'[e[1]].holds[e[2]] = LinkTo(path[f])'}
    <3>1. S \in SUBSET Files /\ T \in SUBSET (Dirs \X Files)
      BY DEF Made
    <3>2. Nlink(path[f])' = Cardinality(S) + Cardinality(T)
      BY DEF Nlink, Names, Links
    <3> HIDE DEF S, T
    <3> QED BY <3>1, <3>2, CountNat
  <2>3. ref(linked, f) \in Ref
    <3>1. ino'[path[f]] \in Inode
      BY <2>1, <1>b DEF Eased
    <3> QED BY <2>1, <2>2, <3>1 DEF Inode, Ref
  <2>4. ASSUME ~TooMany, f \notin forced PROVE ino[path[f]].mtime < now
    <3>1. Urgent \subseteq must
      BY <1>0, <2>4, UrgentForced
    <3>2. f \notin Urgent
      BY <3>1, <1>0, <2>4
    <3>3. now \in Int /\ ino[path[f]].mtime \in Int /\ Settle \in Nat
      BY <2>1, BackupAssumption DEF Typed, Vault, Inode
    <3> QED BY <3>2, <3>3, <1>1 DEF Urgent, Present
  <2> QED BY <2>1, <2>3, <2>4
<1>2. /\ DOMAIN sees = Files /\ DOMAIN refs(linked, forced) = Files
      /\ \A f \in Files : sees[f] = {IF path[f] = 0 THEN None ELSE ino[path[f]].bytes}
      /\ \A f \in Files : refs(linked, forced)[f] =
           IF f \notin Present \ forced THEN None ELSE ref(linked, f)
  OBVIOUS
<1>3. \A f \in Files : path[f] # 0 =>
        /\ ref(linked, f).kind = IF f \in linked THEN "link" ELSE "live"
        /\ ref(linked, f).inode = path[f] /\ ref(linked, f).mtime = ino[path[f]].mtime
        /\ ref(linked, f).ctime = ino'[path[f]].ctime /\ ref(linked, f).mode = ino[path[f]].mode
        /\ ref(linked, f).nlink = Nlink(path[f])'
        /\ ref(linked, f) # None
  BY <1>1, BackupAssumption
<1>c. \A f \in Files : \A i \in Inodes : path[f] = i => Nlink(path[f])' = Nlink(i)'
  <2> TAKE f \in Files
  <2> TAKE i \in Inodes
  <2> HAVE path[f] = i
  <2>1. Names(path[f])' = Names(i)'
    BY <1>a DEF Names
  <2>2. Links(path[f])' = Links(i)'
    BY <1>a DEF Links, LinkTo
  <2> QED BY <2>1, <2>2 DEF Nlink
<1> HIDE DEF sees, refs, ref
<1>4. /\ loc'[p].pc = "copy" /\ loc'[p].forced = forced /\ loc'[p].over = TooMany
      /\ loc'[p].sees = sees /\ loc'[p].refs = refs(linked, forced) /\ loc'[p].dir = loc[p].dir
      /\ loc'[p].data = loc[p].data /\ loc'[p].unchecked = loc[p].unchecked
      /\ \E c : loc' = [loc EXCEPT ![p] = c]
  <2> DEFINE r == refs(linked, forced)
             over == TooMany
  <2>1. loc' = [loc EXCEPT ![p].pc = "copy", ![p].forced = forced, ![p].over = over,
                           ![p].sees = sees, ![p].refs = r]
    BY <1>0
  <2> HIDE DEF r, over
  <2>2. /\ loc'[p].pc = "copy" /\ loc'[p].forced = forced /\ loc'[p].over = over
        /\ loc'[p].sees = sees /\ loc'[p].refs = r /\ loc'[p].dir = loc[p].dir
        /\ loc'[p].data = loc[p].data /\ loc'[p].unchecked = loc[p].unchecked
    <3>1. IsLocal(loc[p]) /\ DOMAIN loc = Procs
      BY LocalAt
    <3>2. loc'[p] = [loc[p] EXCEPT !.pc = "copy", !.forced = forced, !.over = over,
                                   !.sees = sees, !.refs = r]
      BY <2>1, <3>1
    <3> QED BY <3>1, <3>2 DEF IsLocal, Fields
  <2>3. \E c : loc' = [loc EXCEPT ![p] = c]
    BY <2>1, <1>a
  <2> QED BY <2>2, <2>3 DEF r, over
<1>5. \A f \in Files : f \in Present <=> path[f] # 0
  BY DEF Present
<1>6. Shape(p)'
  <2>1. TooMany \in BOOLEAN
    BY DEF TooMany
  <2>2. Shape(p)
    BY DEF Traced
  <2>3. \A f \in Files : refs(linked, forced)[f] = None \/ refs(linked, forced)[f] \in Ref
    BY <1>1, <1>2, <1>5
  <2> QED BY <1>2, <1>4, <1>a, <2>1, <2>2, <2>3 DEF Shape
<1>7. /\ dirs'[loc[p].dir].holds = [f \in Files |-> IF f \in linked THEN LinkTo(path[f]) ELSE None]
      /\ dirs'[loc[p].dir] # None /\ \A d \in Dirs : d # loc[p].dir => dirs'[d] = dirs[d]
  <2> DEFINE h == [f \in Files |-> IF f \in linked THEN LinkTo(path[f]) ELSE None]
             x == [dirs[loc[p].dir] EXCEPT !.holds = h]
  <2>1. dirs' = [dirs EXCEPT ![loc[p].dir] = x]
    BY <1>0
  <2>2. h \in [Files -> {None} \cup Held]
    <3>1. \A f \in Files : path[f] \in Nat
      BY BackupAssumption DEF Typed, Vault
    <3> QED BY <3>1 DEF LinkTo, Held
  <2> HIDE DEF h
  <2>3. x \in Staging /\ x.holds = h
    BY <1>a, <2>2 DEF Staging
  <2> HIDE DEF x
  <2> QED BY <2>1, <2>3, <1>a, BackupAssumption DEF h
<1>8. \A i \in Inodes \ I : Nlink(i)' = Nlink(i)
  <2> TAKE i \in Inodes \ I
  <2>1. LinkTo(i) # None /\ \A j : j # i => LinkTo(j) # LinkTo(i)
    <3>1. i \in Nat
      BY BackupAssumption DEF Inodes
    <3>2. LinkTo(i) \in Held
      BY <3>1 DEF LinkTo, Held
    <3>3. \A j : LinkTo(j).of = j
      BY DEF LinkTo
    <3> QED BY <3>2, <3>3, BackupAssumption
  <2>2. \A f \in Files : dirs[loc[p].dir].holds[f] = None
    BY <1>a DEF Traced, Trace, Fresh
  <2>3. ASSUME NEW d \in Dirs, NEW f \in Files
        PROVE  dirs'[d] # None /\ dirs'[d].holds[f] = LinkTo(i)
                 <=> dirs[d] # None /\ dirs[d].holds[f] = LinkTo(i)
    <3>1. CASE d = loc[p].dir
      BY <3>1, <2>1, <2>2, <1>7
    <3>2. CASE d # loc[p].dir
      BY <3>2, <1>7
    <3> QED BY <3>1, <3>2
  <2> QED BY <2>3, <1>a, NlinkSame
<1> HIDE DEF I
<1>9. ASSUME NEW f \in Files PROVE Trace(p, f)'
  <2>0. path[f] # 0 => ino'[path[f]] # None /\ ino'[path[f]].bytes = ino[path[f]].bytes
          /\ ino'[path[f]].mode = ino[path[f]].mode /\ ino'[path[f]].mtime = ino[path[f]].mtime
          /\ ino'[path[f]].ctime \in Int
    <3>1. \A x \in Inode : x.ctime \in Int
      BY BackupAssumption DEF Inode
    <3> QED BY <3>1, <1>1, <1>b DEF Eased
  <2> DEFINE r == refs(linked, forced)[f]
  <2>1. /\ r # None => path[f] # 0 /\ r.inode = path[f] /\ r.mtime = ino[path[f]].mtime
             /\ r.ctime = ino'[path[f]].ctime /\ r.mode = ino[path[f]].mode
             /\ r.nlink = Nlink(path[f])' /\ (TooMany \/ r.mtime < now)
             /\ r.kind = IF f \in linked THEN "link" ELSE "live"
        /\ path[f] # 0 => (r = None <=> f \in forced)
        /\ path[f] = 0 => r = None
        /\ loc'[p].refs[f] = r
    BY <1>1, <1>2, <1>3, <1>4, <1>5
  <2> HIDE DEF r
  <2>2. path[f] # 0 => ino'[path[f]].bytes \in loc'[p].sees[f]
    BY <2>0, <1>2, <1>4
  <2>3. Stat(p, f)'
    <3> SUFFICES ASSUME NEW i \in Inodes, r # None, r.inode = i
                 PROVE  /\ ino'[i] # None /\ r.ctime <= ino'[i].ctime
                        /\ TooMany \/ r.mtime < now
                        /\ ino'[i].mode = r.mode /\ Nlink(i)' = r.nlink
                        /\ Sound(p, f, ino[i].bytes)'
      BY <1>4, <1>a, <2>1 DEF Stat
    <3>1. path[f] = i /\ path[f] # 0 /\ Nlink(i)' = Nlink(path[f])'
      BY <2>1, <1>c
    <3>2. Sound(p, f, ino[i].bytes)'
      BY <2>2, <3>1 DEF Sound
    <3> QED BY <2>0, <2>1, <3>1, <3>2
  <2>4. Linking(p, f)'
    BY <2>1, <1>4, <1>7 DEF Linking, LinkTo
  <2>5. UnderFence(p, f)'
    BY <2>1, <2>2, <1>2, <1>4, <1>a DEF UnderFence
  <2> QED BY <2>3, <2>4, <2>5, <1>4 DEF Trace
<1>10. PICK c : loc' = [loc EXCEPT ![p] = c]
  BY <1>4
<1>11. ASSUME NEW q \in Procs, q # p PROVE Shape(q)' /\ \A f \in Files : Trace(q, f)'
  <2>1. put'[q] = put[q] /\ meddled'[q] = Relinked(I)[q]
    BY <1>0, <1>11, <1>a DEF Past, Relinked, I
  <2>2. loc[q].pc \in {"own", "fence", "copy", "read"} =>
            dirs'[loc[q].dir].holds = dirs[loc[q].dir].holds
    <3>1. Claim(p) /\ loc[p].pc \in Working
      BY <1>a DEF Owned, Working
    <3>2. loc[q].pc \in {"own", "fence", "copy", "read"} =>
            loc[q].dir # loc[p].dir /\ loc[q].dir \in Dirs
      BY <3>1, <1>11, DirOf, BackupAssumption DEF Claim
    <3> QED BY <3>2, <1>7
  <2> QED BY <2>1, <2>2, <1>8, <1>10, <1>11, <1>a, <1>b, TraceOthers
<1> QED BY <1>6, <1>9, <1>11, <1>a DEF Traced, Distinct

\* The copies take the place of their links, within the fence.
LEMMA TracedCopy ==
  ASSUME Typed, Owned, Traced, NEW p \in Procs, Copy(p)
  PROVE  Traced'
<1> DEFINE todo  == {f \in Files : loc[p].sees[f] # {None}}
           E     == {loc[p].dir} \X loc[p].forced
           I     == Inside(E)
           holds == [f \in Files |->
             IF f \in loc[p].forced THEN [kind |-> "copy", of |-> ino[path[f]].bytes]
             ELSE dirs[loc[p].dir].holds[f]]
<1>1. /\ loc[p].pc = "copy" /\ DOMAIN loc = Procs /\ DOMAIN loc[p] = Fields /\ Shape(p) /\ Vault /\ Past
      /\ UNCHANGED <<path, now, put>> /\ ino' = Touch(I) /\ meddled' = Relinked(I)
      /\ loc[p].dir \in Made /\ dirs[loc[p].dir] \in Staging /\ DOMAIN dirs = Dirs
      /\ loc[p].dir \in Dirs /\ dirs[loc[p].dir] # None
  BY LocalAt, DirOf DEF Copy, At, IsLocal, Traced, Unlinks, Typed
<1>2. loc' = [loc EXCEPT ![p] = [loc[p] EXCEPT !.pc = "read", !.todo = todo]]
  BY <1>1 DEF Copy
<1>3. /\ loc'[p].pc = "read" /\ loc'[p].todo = todo /\ loc'[p].refs = loc[p].refs
      /\ loc'[p].sees = loc[p].sees /\ loc'[p].data = loc[p].data /\ loc'[p].over = loc[p].over
      /\ loc'[p].unchecked = loc[p].unchecked /\ loc'[p].dir = loc[p].dir
      /\ loc'[p].rewritten = loc[p].rewritten
  BY <1>1, <1>2 DEF Fields
<1>4. /\ dirs'[loc[p].dir].holds = holds /\ dirs'[loc[p].dir] # None
      /\ \A d \in Dirs : d # loc[p].dir => dirs'[d] = dirs[d]
  <2> DEFINE x == [dirs[loc[p].dir] EXCEPT !.holds = holds]
  <2>1. dirs' = [dirs EXCEPT ![loc[p].dir] = x]
    BY DEF Copy
  <2>2. dirs'[loc[p].dir] \in Staging
    BY <1>1, TypedCopy
  <2> HIDE DEF holds
  <2>3. x.holds = holds
    BY <1>1 DEF Staging
  <2> HIDE DEF x
  <2> QED BY <2>1, <2>2, <2>3, <1>1, BackupAssumption
<1>5. Shape(p)'
  BY <1>1, <1>3 DEF Shape
<1>6. Eased
  BY <1>1, TouchEased
<1>7. \A i \in Inodes \ I : Nlink(i)' = Nlink(i)
  <2> TAKE i \in Inodes \ I
  <2>1. ASSUME NEW f \in loc[p].forced PROVE dirs[loc[p].dir].holds[f] # LinkTo(i)
    <3>1. <<loc[p].dir, f>> \in E /\ <<loc[p].dir, f>>[1] = loc[p].dir /\ <<loc[p].dir, f>>[2] = f
      BY <2>1
    <3> HIDE DEF E
    <3> QED BY <3>1 DEF Inside
  <2>2. \A b : [kind |-> "copy", of |-> b] # LinkTo(i)
    <3>1. \A b : [kind |-> "copy", of |-> b].kind = "copy"
      OBVIOUS
    <3>2. LinkTo(i).kind = "link"
      BY DEF LinkTo
    <3> QED BY <3>1, <3>2
  <2>3. ASSUME NEW d \in Dirs, NEW f \in Files
        PROVE  dirs'[d] # None /\ dirs'[d].holds[f] = LinkTo(i)
                 <=> dirs[d] # None /\ dirs[d].holds[f] = LinkTo(i)
    <3>1. CASE d = loc[p].dir
      BY <3>1, <2>1, <2>2, <1>1, <1>4
    <3>2. CASE d # loc[p].dir
      BY <3>2, <1>4
    <3> QED BY <3>1, <3>2
  <2> HIDE DEF I
  <2> QED BY <2>3, <1>1, NlinkSame
<1> HIDE DEF I, E
<1>8. \A i \in Inodes : ino[i] # None =>
        /\ ino'[i].bytes = ino[i].bytes /\ ino'[i].mtime = ino[i].mtime
        /\ ino'[i].mode = ino[i].mode /\ ino'[i].ctime \in {ino[i].ctime, now}
  BY <1>6 DEF Eased
<1>9. Onward
  <2>1. now \in Int /\ \A i \in Inodes : ino[i] # None => ino[i].ctime \in Int /\ ino[i].ctime <= now
    BY BackupAssumption DEF Typed, Vault, Inode
  <2> QED BY <2>1, <1>1, <1>6 DEF Onward, Eased
<1>10. ASSUME NEW f \in Files PROVE Trace(p, f)'
  <2>1. Stat(p, f) /\ Linking(p, f) /\ UnderFence(p, f) /\ ~loc[p].unchecked /\ loc[p].data[f] = None
        /\ (f \in loc[p].forced => path[f] # 0)
    BY <1>1 DEF Traced, Trace, Shape, Typed, Fenced
  <2>2. path[f] # 0 => ino[path[f]] \in Inode /\ ino[path[f]].bytes \in Nat
    <3>1. path[f] # 0 => ino[path[f]] \in Inode
      BY DEF Typed, Vault
    <3> QED BY <3>1, BackupAssumption DEF Inode
  <2>3. Stat(p, f)'
    <3>1. put'[p] = put[p] /\ meddled'[p] = Relinked(I)[p]
      BY <1>1
    <3>2. Forward(p, f)
      BY <3>1, <1>1, <1>7, <1>8, EasedForward
    <3> QED BY <3>2, <2>1, <1>1, <1>3, <1>9, StatForward
  <2>4. Linking(p, f)'
    BY <2>1, <2>2, <1>3, <1>4 DEF Linking, UnderFence
  <2>5. f \in todo <=> path[f] # 0
    BY <2>1, <2>2, BackupAssumption DEF UnderFence
  <2>6. f \in todo => Copied(p, f)'
    <3> SUFFICES ASSUME f \in todo, loc[p].refs[f] = None
                 PROVE  holds[f] \in Held /\ holds[f].kind = "copy" /\ holds[f].of \in loc[p].sees[f]
      BY <1>3, <1>4 DEF Copied
    <3>1. path[f] # 0 /\ f \in loc[p].forced /\ ino[path[f]].bytes \in loc[p].sees[f]
      BY <2>1, <2>5 DEF UnderFence
    <3> QED BY <3>1, <2>2 DEF Held
  <2>7. f \notin todo => Settled(p, f)'
    BY <2>1, <2>5, <1>3 DEF Settled, UnderFence
  <2> HIDE DEF todo, holds
  <2> QED BY <2>1, <2>3, <2>4, <2>6, <2>7, <1>3 DEF Trace
<1> HIDE DEF todo, holds
<1>11. PICK c : loc' = [loc EXCEPT ![p] = c]
  BY <1>2
<1>12. ASSUME NEW q \in Procs, q # p PROVE Shape(q)' /\ \A f \in Files : Trace(q, f)'
  <2>1. put'[q] = put[q] /\ meddled'[q] = Relinked(I)[q]
    BY <1>1
  <2>2. loc[q].pc \in {"own", "fence", "copy", "read"} =>
            dirs'[loc[q].dir].holds = dirs[loc[q].dir].holds
    <3>1. Claim(p) /\ loc[p].pc \in Working
      BY <1>1 DEF Owned, Working
    <3>2. loc[q].pc \in {"own", "fence", "copy", "read"} =>
            loc[q].dir # loc[p].dir /\ loc[q].dir \in Dirs
      BY <3>1, <1>12, DirOf, BackupAssumption DEF Claim
    <3> QED BY <3>2, <1>4
  <2> QED BY <2>1, <2>2, <1>1, <1>6, <1>7, <1>11, <1>12, TraceOthers
<1> QED BY <1>1, <1>5, <1>10, <1>12 DEF Traced, Distinct

\* Where the bytes of a file come from, as far as its stat would pass.
LEMMA EntryIs ==
  ASSUME Typed, Owned, Traced, NEW p \in Procs, loc[p].pc = "read", NEW f \in loc[p].todo
  PROVE  LET r == loc[p].refs[f]
             e == Entry(p, f)
         IN  /\ r = None => e \in Held /\ e.kind = "copy" /\ e.of \in loc[p].sees[f]
             /\ r # None => r \in Ref /\ (e = None \/ (e.kind = "link" /\ e.of \in Int))
             /\ r # None /\ e # None /\ (r.kind = "live" => e.of = r.inode) => e.of = r.inode
             /\ r # None /\ e # None /\ r.kind = "live" => e.of = path[f]
<1>1. Shape(p) /\ Trace(p, f) /\ f \in Files /\ loc[p].dir \in Made
  BY LocalAt DEF Traced, IsLocal, Owned, Claim, Working
<1>2. loc[p].refs[f] = None \/ loc[p].refs[f] \in Ref
  BY <1>1 DEF Shape
<1>3. Linking(p, f) /\ Copied(p, f)
  BY <1>1 DEF Trace
<1>4. CASE loc[p].refs[f] = None
  BY <1>1, <1>3, <1>4 DEF Entry, Copied
<1>5. CASE loc[p].refs[f] # None /\ loc[p].refs[f].kind = "live"
  <2>1. path[f] \in Int
    BY <1>1, BackupAssumption DEF Typed, Vault
  <2>2. Entry(p, f) = IF path[f] = 0 THEN None ELSE LinkTo(path[f])
    BY <1>5 DEF Entry
  <2>3. LinkTo(path[f]).kind = "link" /\ LinkTo(path[f]).of = path[f]
    BY DEF LinkTo
  <2> QED BY <1>2, <1>5, <2>1, <2>2, <2>3
<1>6. CASE loc[p].refs[f] # None /\ loc[p].refs[f].kind # "live"
  <2>1. loc[p].refs[f].kind = "link" /\ loc[p].refs[f].inode \in Int
    BY <1>2, <1>6, BackupAssumption DEF Ref, Inodes
  <2>2. Entry(p, f) = LinkTo(loc[p].refs[f].inode)
    BY <2>1, <1>1, <1>3, <1>6 DEF Entry, Linking
  <2>3. LinkTo(loc[p].refs[f].inode).kind = "link"
        /\ LinkTo(loc[p].refs[f].inode).of = loc[p].refs[f].inode
    BY DEF LinkTo
  <2> QED BY <1>2, <1>6, <2>1, <2>2, <2>3
<1> QED BY <1>4, <1>5, <1>6

\* A file that Read or Check is done with, or has read.
Works(p, c, f) ==
  /\ loc' = [loc EXCEPT ![p] = c] /\ UNCHANGED <<vault, dirs, past>>
  /\ loc[p].pc = "read" /\ f \in loc[p].todo /\ \A g \in loc[p].todo : f <= g
  /\ c.pc = "read" /\ c.dir = loc[p].dir /\ c.forced = loc[p].forced
  /\ c.over = loc[p].over /\ c.refs = loc[p].refs /\ c.sees = loc[p].sees
  /\ c.todo \in {loc[p].todo, loc[p].todo \ {f}}
  /\ c.unchecked \in BOOLEAN /\ (f \notin c.todo => ~c.unchecked)
  /\ DOMAIN c.data = Files /\ \A g \in Files : g # f => c.data[g] = loc[p].data[g]
  /\ loc[p].rewritten \subseteq c.rewritten

LEMMA TraceArchive ==
  ASSUME Typed, Owned, Traced, NEW p \in Procs, NEW f, NEW c, Works(p, c, f),
         f \in c.todo /\ c.unchecked => Passes(p, f)',
         f \notin c.todo => Settled(p, f)'
  PROVE  Traced'
<1>1. Shape(p) /\ DOMAIN loc = Procs /\ loc[p].todo \subseteq Files /\ f \in Files
      /\ UNCHANGED <<path, ino, now, dirs, put, meddled>> /\ loc'[p] = c
  BY LocalAt DEF Traced, IsLocal, vault, past, Works
<1>2. Shape(p)'
  BY <1>1 DEF Shape, Works
<1>3. ASSUME NEW g \in Files PROVE Trace(p, g)'
  <2>1. Stat(p, g) /\ Linking(p, g) /\ (g \in loc[p].todo => Copied(p, g))
        /\ (g \notin loc[p].todo => Settled(p, g))
    BY DEF Traced, Trace, Works
  <2>2. Stat(p, g)'
    <3>1. \A i \in Inodes : Nlink(i)' = Nlink(i)
      BY <1>1, NlinkSame
    <3>2. loc'[p].refs = loc[p].refs /\ loc'[p].sees = loc[p].sees /\ loc'[p].over = loc[p].over
      BY <1>1 DEF Works
    <3> QED BY <2>1, <1>1, <3>1, <3>2 DEF Stat, Sound
  <2>3. Linking(p, g)'
    BY <2>1, <1>1 DEF Linking, Works
  <2>4. g \in c.todo => Copied(p, g)'
    BY <2>1, <1>1 DEF Copied, Works
  <2>5. g \in c.todo /\ c.unchecked /\ (\A h \in c.todo : g <= h) => Passes(p, g)'
    <3> SUFFICES ASSUME g \in c.todo, c.unchecked, \A h \in c.todo : g <= h
                 PROVE  Passes(p, g)'
      OBVIOUS
    <3>1. f \in c.todo
      BY DEF Works
    <3>2. g <= f /\ f <= g /\ g \in Int /\ f \in Int
      BY <3>1, <1>1 DEF Works, Files
    <3>3. g = f
      BY <3>2
    <3> QED BY <3>1, <3>3 DEF Works
  <2>6. g \notin c.todo => Settled(p, g)'
    <3>1. CASE g = f
      BY <3>1 DEF Works
    <3>2. CASE g # f
      <4>1. g \notin c.todo => g \notin loc[p].todo
        BY <3>2 DEF Works
      <4> QED BY <2>1, <1>1, <3>2, <4>1 DEF Settled, Works
    <3> QED BY <3>1, <3>2
  <2> QED BY <2>2, <2>3, <2>4, <2>5, <2>6, <1>1 DEF Trace, Works
<1> QED BY <1>2, <1>3, TracedWork DEF Works

LEMMA TracedRead ==
  ASSUME Typed, Owned, Traced, NEW p \in Procs, Read(p)
  PROVE  Traced'
<1>0. loc[p].pc = "read" /\ ~loc[p].unchecked /\ UNCHANGED <<vault, dirs, past>> /\ DOMAIN loc = Procs
      /\ DOMAIN loc[p] = Fields /\ loc[p].todo \subseteq Files /\ Shape(p)
      /\ UNCHANGED <<path, ino, now, put, meddled>>
  BY LocalAt DEF Read, At, IsLocal, Traced, vault, past
<1>1. PICK f \in loc[p].todo :
        /\ \A g \in loc[p].todo : f <= g
        /\ LET e == Entry(p, f) IN
           loc' = IF e = None
            THEN [loc EXCEPT ![p].todo = @ \ {f},
                    ![p].rewritten = IF loc[p].refs[f] # None THEN @ \cup {f} ELSE @]
            ELSE [loc EXCEPT ![p].unchecked = TRUE,
                    ![p].data[f] = IF e.kind = "copy" THEN e.of ELSE ino[e.of].bytes]
  BY DEF Read
<1>2. f \in Files /\ Trace(p, f)
  BY <1>0, <1>1 DEF Traced
<1> DEFINE r == loc[p].refs[f]
           e == Entry(p, f)
<1>3. /\ r = None => e \in Held /\ e.kind = "copy" /\ e.of \in loc[p].sees[f]
      /\ r # None => r \in Ref /\ (e = None \/ (e.kind = "link" /\ e.of \in Int))
      /\ r # None /\ e # None /\ (r.kind = "live" => e.of = r.inode) => e.of = r.inode
      /\ r # None /\ e # None /\ r.kind = "live" => e.of = path[f]
  BY <1>0, <1>1, EntryIs
<1>4. CASE e = None
  <2>1. r # None
    BY <1>3, <1>4, BackupAssumption
  <2> DEFINE todo == loc[p].todo \ {f}
             rewritten == loc[p].rewritten \cup {f}
  <2>2. loc' = [loc EXCEPT ![p].todo = todo, ![p].rewritten = rewritten]
    BY <1>1, <1>4, <2>1
  <2> DEFINE c == [loc[p] EXCEPT !.todo = todo, !.rewritten = rewritten]
  <2>3. loc' = [loc EXCEPT ![p] = c]
    BY <2>2, <1>0
  <2>4. /\ c.pc = "read" /\ c.dir = loc[p].dir /\ c.forced = loc[p].forced /\ c.over = loc[p].over
        /\ c.refs = loc[p].refs /\ c.sees = loc[p].sees /\ c.todo = todo /\ c.data = loc[p].data
        /\ c.unchecked = loc[p].unchecked /\ c.rewritten = rewritten
    BY <1>0 DEF Fields
  <2> HIDE DEF c
  <2>5. Works(p, c, f)
    BY <2>3, <2>4, <1>0, <1>1 DEF Works, Shape
  <2>6. Settled(p, f)' /\ f \notin c.todo
    BY <2>3, <2>4, <1>0 DEF Settled
  <2> QED BY <2>5, <2>6, TraceArchive
<1>5. CASE e # None
  <2> DEFINE b == IF e.kind = "copy" THEN e.of ELSE ino[e.of].bytes
  <2>1. loc' = [loc EXCEPT ![p].unchecked = TRUE, ![p].data[f] = b]
    BY <1>1, <1>5
  <2>2. r = None => b \in loc[p].sees[f]
    BY <1>3
  <2>3. r # None /\ (r.kind = "live" => path[f] = r.inode) => b = ino[r.inode].bytes
    BY <1>3, <1>5
  <2> HIDE DEF b, e
  <2> DEFINE c == [loc[p] EXCEPT !.unchecked = TRUE, !.data = [loc[p].data EXCEPT ![f] = b]]
  <2>4. loc' = [loc EXCEPT ![p] = c]
    BY <2>1, <1>0 DEF Fields
  <2>5. /\ c.pc = "read" /\ c.dir = loc[p].dir /\ c.forced = loc[p].forced /\ c.over = loc[p].over
        /\ c.refs = loc[p].refs /\ c.sees = loc[p].sees /\ c.todo = loc[p].todo
        /\ c.data = [loc[p].data EXCEPT ![f] = b]
        /\ c.unchecked = TRUE /\ c.rewritten = loc[p].rewritten
    BY <1>0 DEF Fields
  <2>7. DOMAIN c.data = Files /\ c.data[f] = b /\ \A g \in Files : g # f => c.data[g] = loc[p].data[g]
    BY <2>5, <1>0, <1>2 DEF Shape
  <2> HIDE DEF c
  <2>8. Works(p, c, f)
    BY <2>4, <2>5, <2>7, <1>0, <1>1 DEF Works
  <2>6. Passes(p, f)'
    <3>1. Stat(p, f) /\ (r # None => r.inode \in Inodes)
      BY <1>0, <1>2, RefIs DEF Trace
    <3>2. r # None /\ (r.kind = "live" => path[f] = r.inode) => Sound(p, f, b)
      BY <3>1, <2>3 DEF Stat, Sound
    <3>3. loc'[p].data[f] = b /\ loc'[p].refs = loc[p].refs /\ loc'[p].sees = loc[p].sees
      BY <2>4, <2>5, <2>7, <1>0
    <3> QED BY <3>2, <3>3, <2>2, <1>0 DEF Passes, Sound
  <2> QED BY <2>6, <2>8, <2>5, TraceArchive
<1> QED BY <1>4, <1>5

LEMMA TracedCheck ==
  ASSUME Typed, Owned, Traced, NEW p \in Procs, Check(p)
  PROVE  Traced'
<1>0. loc[p].pc = "read" /\ loc[p].unchecked /\ UNCHANGED <<vault, dirs, past>> /\ DOMAIN loc = Procs
      /\ DOMAIN loc[p] = Fields /\ loc[p].todo \subseteq Files /\ Shape(p)
      /\ UNCHANGED <<path, ino, now, put, meddled>>
  BY LocalAt DEF Check, At, IsLocal, Traced, vault, past
<1>1. PICK f \in loc[p].todo :
        /\ \A g \in loc[p].todo : f <= g
        /\ LET ref == loc[p].refs[f]
               e   == Entry(p, f)
               bad == ref # None /\ (e = None \/ Changed(ref, e.of))
           IN  loc' = [loc EXCEPT ![p].todo = @ \ {f}, ![p].unchecked = FALSE,
                        ![p].data[f] = IF e = None THEN None ELSE @,
                        ![p].rewritten = IF bad THEN @ \cup {f} ELSE @]
  BY DEF Check
<1>2. f \in Files /\ Trace(p, f)
  BY <1>0, <1>1 DEF Traced
<1> DEFINE r == loc[p].refs[f]
           e == Entry(p, f)
           bad == r # None /\ (e = None \/ Changed(r, e.of))
           b == IF e = None THEN None ELSE loc[p].data[f]
           rewritten == IF bad THEN loc[p].rewritten \cup {f} ELSE loc[p].rewritten
           todo == loc[p].todo \ {f}
<1>3. /\ r = None => e \in Held /\ e.kind = "copy" /\ e.of \in loc[p].sees[f]
      /\ r # None => r \in Ref /\ (e = None \/ (e.kind = "link" /\ e.of \in Int))
      /\ r # None /\ e # None /\ (r.kind = "live" => e.of = r.inode) => e.of = r.inode
      /\ r # None /\ e # None /\ r.kind = "live" => e.of = path[f]
  BY <1>0, <1>1, EntryIs
<1>4. loc' = [loc EXCEPT ![p].todo = todo, ![p].unchecked = FALSE, ![p].data[f] = b,
                         ![p].rewritten = rewritten]
  BY <1>1
<1>5. ~bad => r = None \/ (/\ r.kind = "live" => path[f] = r.inode
                           /\ ino[r.inode].mtime = r.mtime
                           /\ f \in meddled[p] \/ ino[r.inode].ctime = r.ctime)
  <2> SUFFICES ASSUME ~bad, r # None
               PROVE  /\ r.kind = "live" => path[f] = r.inode
                      /\ ino[r.inode].mtime = r.mtime
                      /\ f \in meddled[p] \/ ino[r.inode].ctime = r.ctime
    OBVIOUS
  <2>1. e # None /\ ~Changed(r, e.of)
    OBVIOUS
  <2>2. r.kind = "live" => e.of = r.inode
    BY <2>1 DEF Changed
  <2>3. e.of = r.inode /\ (r.kind = "live" => path[f] = r.inode)
    BY <2>1, <2>2, <1>3
  <2> HIDE DEF e, r
  <2>4. ~Changed(r, r.inode)
    BY <2>1, <2>3
  <2>5. /\ r.inode \in Inodes /\ r.kind \in {"link", "live"}
        /\ f \in meddled[p] \/ (/\ ino[r.inode].mode = r.mode
                                /\ r.kind = "link" => Nlink(r.inode) = r.nlink)
    <3>1. Stat(p, f) /\ loc[p].refs[f] # None
      BY <1>0, <1>2 DEF Trace, r
    <3>2. loc[p].refs[f].inode \in Inodes /\ loc[p].refs[f] \in Ref
      BY <3>1, <1>0, <1>2, RefIs DEF Shape
    <3>3. r.inode \in Inodes /\ r.kind \in {"link", "live"}
      BY <3>2 DEF r, Ref
    <3> QED BY <3>1, <3>3 DEF Stat, r
  <2> QED BY <2>3, <2>4, <2>5 DEF Changed
<1>6. r = None => e # None
  BY <1>3, BackupAssumption
<1>7. Passes(p, f)
  BY <1>0, <1>1, <1>2 DEF Trace
<1>8. ~bad => b = loc[p].data[f]
         /\ (b \in loc[p].sees[f] \/ (f \in put[p] /\ f \in meddled[p]))
  BY <1>5, <1>6, <1>7 DEF Passes, Sound
<1>9. (bad => f \in rewritten) /\ loc[p].rewritten \subseteq rewritten
  OBVIOUS
<1> HIDE DEF bad, b, e, rewritten
<1> DEFINE c == [loc[p] EXCEPT !.todo = todo, !.unchecked = FALSE,
                   !.data = [loc[p].data EXCEPT ![f] = b], !.rewritten = rewritten]
<1>10. loc' = [loc EXCEPT ![p] = c]
  BY <1>4, <1>0 DEF Fields
<1>11. /\ c.pc = "read" /\ c.dir = loc[p].dir /\ c.forced = loc[p].forced /\ c.over = loc[p].over
       /\ c.refs = loc[p].refs /\ c.sees = loc[p].sees /\ c.todo = todo
       /\ c.data = [loc[p].data EXCEPT ![f] = b]
       /\ c.unchecked = FALSE /\ c.rewritten = rewritten
  BY <1>0 DEF Fields
<1>12. DOMAIN c.data = Files /\ c.data[f] = b /\ \A g \in Files : g # f => c.data[g] = loc[p].data[g]
  BY <1>11, <1>0, <1>2 DEF Shape
<1> HIDE DEF c
<1>13. Works(p, c, f) /\ f \notin c.todo
  BY <1>9, <1>10, <1>11, <1>12, <1>0, <1>1 DEF Works
<1>14. Settled(p, f)'
  BY <1>8, <1>9, <1>10, <1>11, <1>12, <1>0 DEF Settled
<1> QED BY <1>13, <1>14, TraceArchive

LEMMA TracedLast ==
  ASSUME Typed, Owned, Traced, NEW p \in Procs, Finish(p) \/ Fail(p)
  PROVE  Traced'
<1>1. PICK to \in {"cleanup", "retry", "fail"} :
        /\ loc' = [loc EXCEPT ![p].pc = to] /\ UNCHANGED <<vault, dirs, past>>
        /\ to = "cleanup" => loc[p].pc = "read" /\ loc[p].todo = {}
  BY DEF Finish, Fail, Go, At
<1>2. DOMAIN loc = Procs /\ DOMAIN loc[p] = Fields /\ Shape(p) /\ UNCHANGED <<put, meddled>>
  BY <1>1, LocalAt DEF IsLocal, Traced, past
<1>3. loc'[p] = [loc[p] EXCEPT !.pc = to] /\ loc' = [loc EXCEPT ![p] = [loc[p] EXCEPT !.pc = to]]
  BY <1>1, <1>2
<1>4. loc'[p].pc = to /\ \A x \in Fields \ {"pc"} : loc'[p][x] = loc[p][x]
  BY <1>2, <1>3 DEF Fields
<1>5. /\ loc'[p].refs = loc[p].refs /\ loc'[p].sees = loc[p].sees /\ loc'[p].data = loc[p].data
      /\ loc'[p].over = loc[p].over /\ loc'[p].unchecked = loc[p].unchecked
      /\ loc'[p].todo = loc[p].todo /\ loc'[p].rewritten = loc[p].rewritten
  BY <1>4 DEF Fields
<1>6. Shape(p)'
  BY <1>1, <1>2, <1>4, <1>5 DEF Shape
<1>7. ASSUME NEW f \in Files PROVE Trace(p, f)'
  <2>1. CASE to # "cleanup"
    BY <2>1, <1>4 DEF Trace
  <2>2. CASE to = "cleanup"
    <3>1. loc[p].pc = "read" /\ loc[p].todo = {} /\ Trace(p, f)
      BY <2>2, <1>1 DEF Traced
    <3>2. Settled(p, f)
      BY <3>1 DEF Trace
    <3>3. Settled(p, f)'
      BY <3>2, <1>2, <1>5 DEF Settled
    <3> QED BY <2>2, <3>3, <1>4 DEF Trace
  <2> QED BY <2>1, <2>2
<1> QED BY <1>1, <1>3, <1>6, <1>7, TracedWork

LEMMA TracedStep == IInv /\ Traced /\ [Next]_vars => Traced'
<1> SUFFICES ASSUME Typed, Owned, Traced, [Next]_vars PROVE Traced'
  BY DEF IInv
<1>1. ASSUME NEW p \in Procs, Step(p) \/ Kill(p) PROVE Traced'
  BY <1>1, TracedBefore, TracedSweep, TracedLink, TracedCopy, TracedRead, TracedCheck, TracedLast,
     TracedEnd DEF Step
<1>2. ASSUME NEW f \in Files, Publish(f) \/ Delete(f) \/ WriteInPlace(f) \/ Pin(f) \/ Chmod(f)
      PROVE  Traced'
  BY <1>2, TracedRename, TracedInPlace
<1>3. CASE Tick \/ UNCHANGED vars
  BY <1>3, TracedTick
<1> QED BY <1>1, <1>2, <1>3 DEF Next

\* However writers publish, delete, rewrite, put back mtimes and change modes
\* while the archive is made, and whatever is linked, copied, kept back by the
\* limits on copies and retried: every file of a published archive has bytes
\* of the fence, or is named in the manifest, or was rewritten with its mtime
\* kept and its mode or link count changed as well, file by file.
THEOREM ArchiveIsOfTheFence == Spec => []FenceBytes
<1>1. Traced => FenceBytes
  <2> SUFFICES ASSUME Traced, NEW p \in Procs, At(p, "cleanup"), NEW f \in Files
               PROVE  \/ loc[p].data[f] \in loc[p].sees[f] \/ f \in loc[p].rewritten
                      \/ f \in put[p] \cap meddled[p]
    BY DEF FenceBytes
  <2>1. Settled(p, f)
    BY DEF Traced, Trace, Shape, At
  <2> QED BY <2>1 DEF Settled
<1> QED BY InvInit, InvStep, TracedInit, TracedStep, <1>1, PTL DEF Spec
=============================================================================
