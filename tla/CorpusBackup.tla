---------------------------- MODULE CorpusBackup ----------------------------
(***************************************************************************)
(* `framework backup create' (create() of scripts/framework_backup.py): an *)
(* archive of the vault as it was at one corpus epoch, made while writers  *)
(* go on.                                                                  *)
(*                                                                         *)
(* Under the shared corpus fence the files are only hardlinked into a      *)
(* staging directory.  The archive is written after the fence, from the    *)
(* links.  A link keeps its bytes when a writer publishes by rename, as    *)
(* the governed write path does, and shares them with a writer that        *)
(* rewrites in place.  Such files are copied instead, or found out by      *)
(* their stat and copied by a second attempt, or named in the manifest.    *)
(*                                                                         *)
(* Inodes carry bytes, an mtime and a ctime from a coarse clock, and a     *)
(* mode; their link count follows from names and links.  Sizes never       *)
(* differ, which is the hard case of the comparison.                       *)
(***************************************************************************)
EXTENDS Integers, FiniteSets

CONSTANTS
  Procs,      \* create() calls
  NumFiles,   \* fenced corpus files are 1..NumFiles, in walk order
  InPlace,    \* those known to be written in place (_written_in_place)
  Recent,     \* those written just before the start
  Writers,    \* what writers do: "publish", "delete", "write", "pin", "chmod"
  Attempts,   \* _SNAPSHOT_ATTEMPTS
  Cap,        \* _FORCED_COPY_MAX_FILES
  Fits,       \* the sets of files within _FORCED_COPY_MAX_BYTES
  Settle,     \* ticks of the clock in SETTLE_NS
  Hot,        \* ticks of the clock in _HOT_NS
  MaxInode,   \* bound: inodes
  MaxDirs,    \* bound: staging directories
  MaxOps,     \* bound: operations of the writers
  MaxTime,    \* bound: ticks of the clock
  MaxKills,   \* bound: killed create() calls
  None

Files  == 1..NumFiles
Inodes == 1..MaxInode
Dirs   == 1..MaxDirs

\* An inode; its stat under the fence; a staging directory with links and copies.
Inode   == [bytes : 0..MaxOps, mtime : 0..MaxTime, ctime : 0..MaxTime, mode : {0, 1}]
Ref     == [kind : {"link", "live"}, inode : Inodes, nlink : Nat,
            mtime : 0..MaxTime, ctime : 0..MaxTime, mode : {0, 1}]
Held    == [kind : {"link", "copy"}, of : Nat]
Staging == [owner : Procs \cup {None}, holds : [Files -> {None} \cup Held]]

ASSUME BackupAssumption ==
  /\ NumFiles \in Nat /\ InPlace \cup Recent \subseteq 1..NumFiles /\ None \notin Procs
  /\ Attempts \in Nat \ {0} /\ Cap \in Nat /\ Settle \in Nat /\ Hot \in Nat
  /\ Fits \subseteq SUBSET (1..NumFiles) /\ \A S \in Fits : SUBSET S \subseteq Fits
  /\ MaxDirs \in Nat /\ MaxOps \in Nat
  /\ MaxInode \in Nat /\ MaxInode >= NumFiles /\ MaxTime \in Nat \ {0} /\ MaxKills \in Nat
  /\ None \notin Inode /\ None \notin Staging /\ None \notin Ref /\ None \notin Held /\ None \notin Nat

VARIABLES
  path,      \* file -> inode its name refers to, or 0
  ino,       \* inode -> bytes, times and mode; or None
  now,       \* the clock
  ops,       \* operations of the writers so far
  fence,     \* who holds the shared corpus fence
  parent,    \* holder of the lock on the staging parent, or None
  dirs,      \* staging directory -> flock holder and entries; or None
  loc,       \* create() call -> its locals
  put,       \* history: create() call -> files rewritten since their stat and
             \* left with the mtime of it
  meddled,   \* history: create() call -> files whose mode or link count changed
             \* since their stat, or that were put in the tick of its ctime
  kills

vault == <<path, ino, now, ops>>
past  == <<put, meddled>>
vars  == <<vault, fence, parent, dirs, loc, past, kills>>

-----------------------------------------------------------------------------
(* Data                                                                    *)

Nothing == [f \in Files |-> None]
NoLocals == [pc |-> "new", attempt |-> 1, copy |-> {}, dir |-> 0, forced |-> {}, over |-> FALSE,
             refs |-> Nothing, sees |-> [f \in Files |-> {}],
             data |-> Nothing, todo |-> {}, unchecked |-> FALSE, rewritten |-> {}]

Init ==
  /\ path = [f \in Files |-> f]
  /\ ino = [i \in Inodes |-> IF i > NumFiles THEN None
                ELSE LET t == IF i \in Recent THEN 1 ELSE 0
                     IN  [bytes |-> 0, mtime |-> t, ctime |-> t, mode |-> 0]]
  /\ now = 1 /\ ops = 0 /\ kills = 0
  /\ fence = {} /\ parent = None
  /\ dirs = [d \in Dirs |-> None]
  /\ loc = [p \in Procs |-> NoLocals]
  /\ put = [p \in Procs |-> {}] /\ meddled = [p \in Procs |-> {}]

At(p, l) == loc[p].pc = l
Go(p, l) == loc' = [loc EXCEPT ![p].pc = l]

Present == {f \in Files : path[f] # 0}
Made    == {d \in Dirs : dirs[d] # None}

\* st_nlink: names in the vault and links in the staging directories.
LinkTo(i) == [kind |-> "link", of |-> i]
Names(i)  == {f \in Files : path[f] = i}
Links(i)  == {e \in Made \X Files : dirs[e[1]].holds[e[2]] = LinkTo(i)}
Nlink(i)  == Cardinality(Names(i)) + Cardinality(Links(i))

\* What changes the link count or the mode of inodes moves their ctime.
Touch(I) == [i \in Inodes |-> IF i \in I /\ ino[i] # None THEN [ino[i] EXCEPT !.ctime = now] ELSE ino[i]]

\* The files that call p took a stat of and that are the inodes in I.
Stats(p, I) == {f \in Files : loc[p].refs[f] # None /\ loc[p].refs[f].inode \in I}
Relinked(I) == [p \in Procs |-> meddled[p] \cup {f \in Stats(p, I) : loc[p].refs[f].kind = "link"}]

\* Mutant of Changed: the ctime is not looked at.
ChangedBytes(ref, i) == ino[i].mtime # ref.mtime \/ (ref.kind = "live" /\ i # ref.inode)

\* _changed_since(): inode i against what its file was under the fence.
Changed(ref, i) ==
  \/ ino[i].mtime # ref.mtime
  \/ ref.kind = "live" /\ i # ref.inode
  \/ /\ ino[i].ctime # ref.ctime /\ ino[i].mode = ref.mode
     /\ ref.kind = "live" \/ Nlink(i) = ref.nlink

-----------------------------------------------------------------------------
(* Writers                                                                 *)

Writes(kind) == kind \in Writers /\ ops < MaxOps /\ ops' = ops + 1

\* What is written during somebody's fence is among the bytes it may see.
Seen(f, b) ==
  loc' = [p \in Procs |-> IF p \in fence THEN [loc[p] EXCEPT !.sees[f] = @ \cup {b}] ELSE loc[p]]

\* The governed path: a new inode is renamed over the name, under the fence.
Publish(f) ==
  /\ Writes("publish") /\ fence = {}
  /\ \E i \in Inodes :
       /\ ino[i] = None /\ \A j \in Inodes : j < i => ino[j] # None
       /\ path' = [path EXCEPT ![f] = i]
       /\ ino' = [Touch({path[f]}) EXCEPT
                    ![i] = [bytes |-> ops', mtime |-> now, ctime |-> now, mode |-> 0]]
  /\ meddled' = Relinked({path[f]})
  /\ UNCHANGED <<now, put, fence, parent, dirs, loc, kills>>

Delete(f) ==
  /\ Writes("delete") /\ fence = {} /\ path[f] # 0
  /\ path' = [path EXCEPT ![f] = 0]
  /\ ino' = Touch({path[f]}) /\ meddled' = Relinked({path[f]})
  /\ UNCHANGED <<now, put, fence, parent, dirs, loc, kills>>

\* Appends and rewrites in place take no fence.  One in the tick of the file's
\* mtime leaves it; a file at risk of that is copied, but for the limits.
WriteInPlace(f) ==
  /\ Writes("write") /\ path[f] # 0
  /\ ino' = [ino EXCEPT ![path[f]] = [@ EXCEPT !.bytes = ops', !.mtime = now, !.ctime = now]]
  /\ LET Same(p) == {g \in Stats(p, {path[f]}) : loc[p].over /\ loc[p].refs[g].mtime = now} IN
       /\ put' = [p \in Procs |-> put[p] \cup Same(p)]
       /\ meddled' = [p \in Procs |-> meddled[p] \cup Same(p)]
  /\ Seen(f, ops')
  /\ UNCHANGED <<path, now, fence, parent, dirs, kills>>

\* In place, with os.utime putting the mtime back: only the ctime tells.
Pin(f) ==
  /\ Writes("pin") /\ path[f] # 0
  /\ ino' = [ino EXCEPT ![path[f]] = [@ EXCEPT !.bytes = ops', !.ctime = now]]
  /\ put' = [p \in Procs |-> put[p] \cup Stats(p, {path[f]})]
  /\ meddled' = [p \in Procs |-> meddled[p] \cup
                    {g \in Stats(p, {path[f]}) : loc[p].refs[g].ctime = now}]
  /\ Seen(f, ops')
  /\ UNCHANGED <<path, now, fence, parent, dirs, kills>>

Chmod(f) ==
  /\ Writes("chmod") /\ path[f] # 0
  /\ ino' = [ino EXCEPT ![path[f]] = [@ EXCEPT !.mode = 1 - ino[path[f]].mode, !.ctime = now]]
  /\ meddled' = [p \in Procs |-> meddled[p] \cup Stats(p, {path[f]})]
  /\ UNCHANGED <<path, now, put, fence, parent, dirs, loc, kills>>

Tick ==
  /\ now < MaxTime /\ now' = now + 1
  /\ UNCHANGED <<path, ino, ops, fence, parent, dirs, loc, past, kills>>

-----------------------------------------------------------------------------
(* Staging directories                                                     *)

\* Mutant of SweepBegin: the parent lock is not asked for.
SweepBeginAnyway(p) ==
  /\ At(p, "new")
  /\ Go(p, "sweep")
  /\ UNCHANGED <<vault, fence, parent, dirs, past, kills>>

\* _sweep_stale_staging(): skipped while another create() is between making
\* its directory and locking it.
SweepBegin(p) ==
  /\ At(p, "new")
  /\ IF parent = None
       THEN parent' = p /\ Go(p, "sweep")
       ELSE UNCHANGED parent /\ Go(p, "parent")
  /\ UNCHANGED <<vault, fence, dirs, past, kills>>

\* The inodes linked at the entries E of staging directories.  Their link
\* counts change when these go, with the directories D or without them.
Inside(E)  == {i \in Inodes : \E e \in E : dirs[e[1]].holds[e[2]] = LinkTo(i)}
Unlinks(E) == ino' = Touch(Inside(E)) /\ meddled' = Relinked(Inside(E))
Remove(D)  == dirs' = [d \in Dirs |-> IF d \in D THEN None ELSE dirs[d]] /\ Unlinks(D \X Files)

\* A directory whose lock can be taken has no owner and goes.
Sweep(p) ==
  /\ At(p, "sweep")
  /\ Remove({d \in Made : dirs[d].owner = None})
  /\ parent' = IF parent = p THEN None ELSE parent
  /\ Go(p, "parent")
  /\ UNCHANGED <<path, now, ops, put, fence, kills>>

\* The blocking parent lock ...
ParentLock(p) ==
  /\ At(p, "parent") /\ parent = None
  /\ parent' = p
  /\ Go(p, "mkdtemp")
  /\ UNCHANGED <<vault, fence, dirs, past, kills>>

\* ... mkdtemp ...
Mkdtemp(p) ==
  /\ At(p, "mkdtemp")
  /\ \E d \in Dirs \ Made :
       /\ \A e \in Dirs : e < d => e \in Made
       /\ dirs' = [dirs EXCEPT ![d] = [owner |-> None, holds |-> Nothing]]
       /\ loc' = [loc EXCEPT ![p].pc = "own", ![p].dir = d]
  /\ UNCHANGED <<vault, fence, parent, past, kills>>

\* ... the flock that marks the directory live, and the parent lock is let go.
Own(p) ==
  /\ At(p, "own")
  /\ dirs' = IF loc[p].dir \in Made THEN [dirs EXCEPT ![loc[p].dir].owner = p] ELSE dirs
  /\ parent' = None
  /\ Go(p, "fence")
  /\ UNCHANGED <<vault, fence, past, kills>>

-----------------------------------------------------------------------------
(* Under the fence                                                         *)

\* Files that are copied first: known in-place writers, and whatever was
\* written within the resolution of the clock.
Urgent == {f \in Present : f \in InPlace \/ ino[path[f]].mtime + Settle >= now}

\* _allocate_forced_copies(): the urgent ones in walk order, then those found
\* rewritten on an earlier attempt; each as far as there is room for it.
IsForced(S, copy) ==
  LET Before(f) == {g \in S : IF f \in Urgent THEN g \in Urgent /\ g < f
                                             ELSE g \in Urgent \/ g < f}
  IN  S = {f \in Urgent \cup (copy \cap Present) :
             Cardinality(Before(f)) < Cap /\ Before(f) \cup {f} \in Fits}

\* There is no room for every urgent file.
TooMany == Cardinality(Urgent) > Cap \/ Urgent \notin Fits

\* Recently written files are copied too, while _COPY_BUDGET_BYTES lasts.
IsHot(S) == \A f \in S : ino[path[f]].mtime + Hot >= now

\* stable_corpus(), the walk, and the first loop of _snapshot_corpus(): link
\* what can be linked, and take the stat.
Link(p) ==
  /\ At(p, "fence")
  /\ fence' = fence \cup {p}
  /\ UNCHANGED <<path, now, ops, parent, kills>>
  /\ \E linked, must, forced \in SUBSET Present :
       LET I == {path[f] : f \in linked} IN
       /\ IsForced(must, loc[p].copy) /\ must \subseteq forced /\ IsHot(forced \ must)
       /\ dirs' = [dirs EXCEPT ![loc[p].dir].holds =
            [f \in Files |-> IF f \in linked THEN LinkTo(path[f]) ELSE None]]
       /\ ino' = Touch(I)
       /\ put' = [put EXCEPT ![p] = {}] /\ meddled' = [Relinked(I) EXCEPT ![p] = {}]
       /\ loc' = [loc EXCEPT ![p].pc = "copy", ![p].forced = forced, ![p].over = TooMany,
            ![p].sees = [f \in Files |-> {IF path[f] = 0 THEN None ELSE ino[path[f]].bytes}],
            ![p].refs = [f \in Files |->
               IF f \notin Present \ forced THEN None
               ELSE [kind  |-> IF f \in linked THEN "link" ELSE "live", inode |-> path[f],
                     nlink |-> Nlink(path[f])', mtime |-> ino[path[f]].mtime,
                     ctime |-> ino'[path[f]].ctime, mode |-> ino[path[f]].mode]]]

\* Second loop: the forced copies replace their links; the fence ends.
Copy(p) ==
  /\ At(p, "copy")
  /\ dirs' = [dirs EXCEPT ![loc[p].dir].holds = [f \in Files |->
       IF f \in loc[p].forced THEN [kind |-> "copy", of |-> ino[path[f]].bytes] ELSE @[f]]]
  /\ Unlinks({loc[p].dir} \X loc[p].forced)
  /\ fence' = fence \ {p}
  /\ loc' = [loc EXCEPT ![p].pc = "read",
               ![p].todo = {f \in Files : loc[p].sees[f] # {None}}]
  /\ UNCHANGED <<path, now, ops, put, parent, kills>>

-----------------------------------------------------------------------------
(* After the fence                                                         *)

\* Where the bytes of f come from: the vault when it could not be linked,
\* the staging directory for everything else.
Entry(p, f) ==
  IF loc[p].refs[f] # None /\ loc[p].refs[f].kind = "live"
    THEN IF path[f] = 0 THEN None ELSE LinkTo(path[f])
    ELSE IF loc[p].dir \in Made THEN dirs[loc[p].dir].holds[f] ELSE None

\* _write_archive(), file by file: the bytes are read first ...
Read(p) ==
  /\ At(p, "read") /\ ~loc[p].unchecked
  /\ \E f \in loc[p].todo :
       /\ \A g \in loc[p].todo : f <= g
       /\ LET e == Entry(p, f) IN
          loc' = IF e = None
            THEN [loc EXCEPT ![p].todo = @ \ {f},
                    ![p].rewritten = IF loc[p].refs[f] # None THEN @ \cup {f} ELSE @]
            ELSE [loc EXCEPT ![p].unchecked = TRUE,
                    ![p].data[f] = IF e.kind = "copy" THEN e.of ELSE ino[e.of].bytes]
  /\ UNCHANGED <<vault, fence, parent, dirs, past, kills>>

\* ... then the stat is compared with the one taken under the fence.
Check(p) ==
  /\ At(p, "read") /\ loc[p].unchecked
  /\ \E f \in loc[p].todo :
       /\ \A g \in loc[p].todo : f <= g
       /\ LET ref == loc[p].refs[f]
              e   == Entry(p, f)
              bad == ref # None /\ (e = None \/ Changed(ref, e.of))
          IN  loc' = [loc EXCEPT ![p].todo = @ \ {f}, ![p].unchecked = FALSE,
                        ![p].data[f] = IF e = None THEN None ELSE @,
                        ![p].rewritten = IF bad THEN @ \cup {f} ELSE @]
  /\ UNCHANGED <<vault, fence, parent, dirs, past, kills>>

\* Mutant of Finish: no attempt is the last one.
FinishNever(p) ==
  /\ At(p, "read") /\ loc[p].todo = {}
  /\ Go(p, IF loc[p].rewritten = {} THEN "cleanup" ELSE "retry")
  /\ UNCHANGED <<vault, fence, parent, dirs, past, kills>>

\* os.replace() of the partial archive, or another attempt.
Finish(p) ==
  /\ At(p, "read") /\ loc[p].todo = {}
  /\ IF loc[p].rewritten = {} \/ loc[p].attempt = Attempts
       THEN Go(p, "cleanup")
       ELSE Go(p, "retry")
  /\ UNCHANGED <<vault, fence, parent, dirs, past, kills>>

\* The fence times out, or an exception leaves the try block.
Fail(p) ==
  /\ loc[p].pc \in {"fence", "copy", "read"}
  /\ fence' = fence \ {p}
  /\ Go(p, "fail")
  /\ UNCHANGED <<vault, parent, dirs, past, kills>>

\* The finally clause: staging directory, its lock, the partial archive.
Cleanup(p) ==
  /\ loc[p].pc \in {"cleanup", "retry", "fail"}
  /\ Remove({loc[p].dir} \cap Made)
  /\ loc' = [loc EXCEPT ![p] = IF ~At(p, "retry") THEN [NoLocals EXCEPT !.pc = "done"]
               ELSE [NoLocals EXCEPT !.pc = "parent", !.attempt = loc[p].attempt + 1,
                                     !.copy = loc[p].copy \cup loc[p].rewritten]]
  /\ UNCHANGED <<path, now, ops, put, fence, parent, kills>>

\* A killed create() leaves its directory, the kernel drops its locks.  It
\* may be started again.
Kill(p) ==
  /\ loc[p].pc \notin {"new", "done"} /\ kills < MaxKills
  /\ kills' = kills + 1
  /\ fence' = fence \ {p}
  /\ parent' = IF parent = p THEN None ELSE parent
  /\ dirs' = [d \in Dirs |-> IF d \in Made /\ dirs[d].owner = p
                               THEN [dirs[d] EXCEPT !.owner = None] ELSE dirs[d]]
  /\ loc' = [loc EXCEPT ![p] = NoLocals]
  /\ UNCHANGED <<vault, past>>

Step(p) ==
  \/ SweepBegin(p) \/ Sweep(p) \/ ParentLock(p) \/ Mkdtemp(p) \/ Own(p)
  \/ Link(p) \/ Copy(p) \/ Read(p) \/ Check(p) \/ Finish(p) \/ Fail(p) \/ Cleanup(p)

Next ==
  \/ \E p \in Procs : Step(p) \/ Kill(p)
  \/ \E f \in Files : Publish(f) \/ Delete(f) \/ WriteInPlace(f) \/ Pin(f) \/ Chmod(f)
  \/ Tick

Spec == Init /\ [][Next]_vars

-----------------------------------------------------------------------------
(* Properties                                                              *)

PC == {"new", "sweep", "parent", "mkdtemp", "own", "fence", "copy", "read", "retry",
       "fail", "cleanup", "done"}

\* The vault, the directories and the locals keep their shape.
TypeOK ==
  /\ path \in [Files -> 0..MaxInode]
  /\ \A i \in Inodes : ino[i] = None \/ ino[i] \in Inode
  /\ now \in 0..MaxTime /\ ops \in 0..MaxOps
  /\ fence \subseteq Procs /\ parent \in Procs \cup {None} /\ kills \in 0..MaxKills
  /\ \A d \in Made : dirs[d].owner \in Procs \cup {None} /\ DOMAIN dirs[d].holds = Files
  /\ \A p \in Procs :
       /\ loc[p].pc \in PC /\ loc[p].attempt \in 1..Attempts /\ loc[p].dir \in 0..MaxDirs
       /\ loc[p].copy \subseteq Files /\ loc[p].todo \subseteq Files
       /\ loc[p].rewritten \subseteq Files /\ loc[p].forced \subseteq Files
  /\ put \in [Procs -> SUBSET Files] /\ meddled \in [Procs -> SUBSET Files]

\* Every file of a published archive has bytes it had while the fence was held,
\* or the manifest names it; a file that was there is not missing without a
\* word.  Excepted is a file that was rewritten with its mtime left as in the
\* stat and, besides, changed its mode or link count or did so in the tick of
\* the stat's ctime: the documented limitation, and it costs no other file.
FenceBytes ==
  \A p \in Procs : At(p, "cleanup") =>
    \A f \in Files : \/ loc[p].data[f] \in loc[p].sees[f] \/ f \in loc[p].rewritten
                     \/ f \in put[p] \cap meddled[p]

\* A sweep never takes the staging directory of a create() that is running,
\* however they interleave: not even between mkdtemp and its flock.
StagingSafe ==
  \A p \in Procs : loc[p].pc \in {"own", "fence", "copy", "read", "retry", "fail", "cleanup"} =>
    loc[p].dir \in Made /\ (At(p, "own") \/ dirs[loc[p].dir].owner = p)
=============================================================================
