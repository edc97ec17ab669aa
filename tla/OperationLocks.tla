--------------------------- MODULE OperationLocks ---------------------------
(***************************************************************************)
(* The declared resource locks of an operation run: acquire_lockset() and  *)
(* LockSet.release() of src/src/okengine/operations/run.py.                *)
(*                                                                         *)
(* A lock is a file under .okengine/operations/locks/ that the run opens   *)
(* (creating it), flocks without waiting, and stamps with its run id and   *)
(* pid.  Releasing unlocks, closes and then unlinks the file.  The flock   *)
(* belongs to the inode that was opened, the next run opens whatever inode *)
(* the name refers to by then: files and names are kept apart here.        *)
(*                                                                         *)
(* A run takes its locks in ascending order and gives all of them back     *)
(* when one is refused.  Runs live in hosts: a CLI invocation is a host of *)
(* its own, the runner service is one host for all the runs it started, so *)
(* that a stamped pid says whether the host is alive, not the run.         *)
(***************************************************************************)
EXTENDS Integers, FiniteSets

CONSTANTS
  Runs,       \* operation runs
  Hosts,      \* processes
  HostOf,     \* run -> the process whose pid it stamps
  Need,       \* run -> the locks its manifest declares, as numbers
  NumLocks,   \* locks are 1..NumLocks, in the order sorted() gives
  MaxInode,   \* bound: lock files ever created
  MaxDeaths,  \* bound: hosts that die
  None

Locks  == 1..NumLocks
Inodes == 1..MaxInode

ASSUME LocksAssumption ==
  /\ None \notin Runs
  /\ NumLocks \in Nat /\ MaxInode \in Nat /\ MaxDeaths \in Nat
  /\ HostOf \in [Runs -> Hosts]
  /\ Need \in [Runs -> SUBSET Locks]

VARIABLES
  path,     \* lock -> the inode its name refers to, or 0
  locker,   \* inode -> the run whose open file holds the flock, or None
  stamp,    \* inode -> the run id and pid written in it, or None
  fd,       \* run -> the inode opened for the lock it is working on, or 0
  held,     \* run -> the locks of its LockSet, with the inode of each
  pc,       \* run -> where it is
  at,       \* run -> the lock it is acquiring or releasing
  alive,    \* hosts that run
  inodes    \* lock files created so far

vars == <<path, locker, stamp, fd, held, pc, at, alive, inodes>>

-----------------------------------------------------------------------------

\* The locks of run r still to be taken, and the next one in sorted order.
Todo(r) == Need[r] \ {h[1] : h \in held[r]}
Least(S) == CHOOSE l \in S : \A m \in S : l <= m

Init ==
  /\ path = [l \in Locks |-> 0]
  /\ locker = [i \in Inodes |-> None]
  /\ stamp = [i \in Inodes |-> None]
  /\ fd = [r \in Runs |-> 0]
  /\ held = [r \in Runs |-> {}]
  /\ pc = [r \in Runs |-> "new"]
  /\ at = [r \in Runs |-> 0]
  /\ alive = Hosts
  /\ inodes = 0

Live(r) == HostOf[r] \in alive
Goto(r, l) == pc' = [pc EXCEPT ![r] = l]

\* os.open(O_RDWR | O_CREAT) of the next declared lock.
Open(r) ==
  /\ Live(r) /\ pc[r] \in {"new", "next"} /\ Todo(r) # {}
  /\ LET l == Least(Todo(r)) IN
       /\ at' = [at EXCEPT ![r] = l]
       /\ IF path[l] # 0
            THEN fd' = [fd EXCEPT ![r] = path[l]] /\ UNCHANGED <<path, inodes>>
            ELSE /\ inodes < MaxInode
                 /\ inodes' = inodes + 1
                 /\ path' = [path EXCEPT ![l] = inodes + 1]
                 /\ fd' = [fd EXCEPT ![r] = inodes + 1]
  /\ Goto(r, "flock")
  /\ UNCHANGED <<locker, stamp, held, alive>>

\* Every declared lock is held: acquire_lockset() returns.
AllHeld(r) ==
  /\ Live(r) /\ pc[r] \in {"new", "next"} /\ Todo(r) = {}
  /\ Goto(r, "holding")
  /\ UNCHANGED <<path, locker, stamp, fd, held, at, alive, inodes>>

\* Mutant of Flock: a holder that looked dead is overridden.
FlockSteals(r) ==
  /\ Live(r) /\ pc[r] \in {"flock", "retry"}
  /\ IF locker[fd[r]] = None \/ pc[r] = "retry"
       THEN locker' = [locker EXCEPT ![fd[r]] = r] /\ Goto(r, "truncate")
       ELSE UNCHANGED locker /\ Goto(r, "probe")
  /\ UNCHANGED <<path, stamp, fd, held, at, alive, inodes>>

\* flock(LOCK_EX | LOCK_NB), the first attempt and the one after a holder
\* that looked dead.  The second one failing raises BlockingIOError.
Flock(r) ==
  /\ Live(r) /\ pc[r] \in {"flock", "retry"}
  /\ IF locker[fd[r]] = None
       THEN locker' = [locker EXCEPT ![fd[r]] = r] /\ Goto(r, "truncate")
       ELSE UNCHANGED locker /\ Goto(r, IF pc[r] = "flock" THEN "probe" ELSE "undo")
  /\ UNCHANGED <<path, stamp, fd, held, at, alive, inodes>>

\* Mutant of Probe: waits for a holder that died instead of retrying.
ProbeWaits(r) ==
  /\ Live(r) /\ pc[r] = "probe"
  /\ LET h == stamp[fd[r]] IN Goto(r, IF h # None /\ Live(h) THEN "undo" ELSE "probe")
  /\ UNCHANGED <<path, locker, stamp, fd, held, at, alive, inodes>>

\* The holder's stamp decides: a live pid refuses the run.
Probe(r) ==
  /\ Live(r) /\ pc[r] = "probe"
  /\ LET h == stamp[fd[r]] IN Goto(r, IF h # None /\ Live(h) THEN "undo" ELSE "retry")
  /\ UNCHANGED <<path, locker, stamp, fd, held, at, alive, inodes>>

\* os.ftruncate(), then os.pwrite() of the stamp.
Truncate(r) ==
  /\ Live(r) /\ pc[r] = "truncate"
  /\ stamp' = [stamp EXCEPT ![fd[r]] = None]
  /\ Goto(r, "stamp")
  /\ UNCHANGED <<path, locker, fd, held, at, alive, inodes>>

\* Mutant of Stamp: only the pid is recorded.
StampPid(r) ==
  /\ Live(r) /\ pc[r] = "stamp"
  /\ stamp' = [stamp EXCEPT ![fd[r]] = HostOf[r]]
  /\ held' = [held EXCEPT ![r] = @ \cup {<<at[r], fd[r]>>}]
  /\ Goto(r, "next")
  /\ UNCHANGED <<path, locker, fd, at, alive, inodes>>

Stamp(r) ==
  /\ Live(r) /\ pc[r] = "stamp"
  /\ stamp' = [stamp EXCEPT ![fd[r]] = r]
  /\ held' = [held EXCEPT ![r] = @ \cup {<<at[r], fd[r]>>}]
  /\ Goto(r, "next")
  /\ UNCHANGED <<path, locker, fd, at, alive, inodes>>

\* The run is over: LockSet.release() starts with the first lock, if any.
RunEnds(r) ==
  /\ Live(r) /\ pc[r] = "holding"
  /\ Goto(r, IF held[r] = {} THEN "done" ELSE "unlock")
  /\ UNCHANGED <<path, locker, stamp, fd, held, at, alive, inodes>>

\* Mutant of Undo: the locks taken before the refused one are forgotten.
UndoNothing(r) ==
  /\ Live(r) /\ pc[r] = "undo"
  /\ fd' = [fd EXCEPT ![r] = 0]
  /\ Goto(r, "refused")
  /\ UNCHANGED <<path, locker, stamp, held, at, alive, inodes>>

\* A lock was refused: LockSet(held).release(), then the exception.
Undo(r) ==
  /\ Live(r) /\ pc[r] = "undo"
  /\ fd' = [fd EXCEPT ![r] = 0]
  /\ Goto(r, IF held[r] = {} THEN "refused" ELSE "unlockRefused")
  /\ UNCHANGED <<path, locker, stamp, held, at, alive, inodes>>

\* LockSet.release(), one lock: LOCK_UN and close ...
Unlock(r) ==
  /\ Live(r) /\ pc[r] \in {"unlock", "unlockRefused"} /\ held[r] # {}
  /\ LET h == CHOOSE g \in held[r] : \A k \in held[r] : g[1] <= k[1] IN
       /\ locker' = [locker EXCEPT ![h[2]] = None]
       /\ held' = [held EXCEPT ![r] = @ \ {h}]
       /\ at' = [at EXCEPT ![r] = h[1]]
  /\ Goto(r, IF pc[r] = "unlock" THEN "unlink" ELSE "unlinkRefused")
  /\ UNCHANGED <<path, stamp, fd, alive, inodes>>

\* ... and then path.unlink(), whatever the name refers to by now.
Unlink(r) ==
  /\ Live(r) /\ pc[r] \in {"unlink", "unlinkRefused"}
  /\ path' = [path EXCEPT ![at[r]] = 0]
  /\ Goto(r, CASE held[r] # {} -> (IF pc[r] = "unlink" THEN "unlock" ELSE "unlockRefused")
               [] OTHER        -> (IF pc[r] = "unlink" THEN "done" ELSE "refused"))
  /\ UNCHANGED <<locker, stamp, fd, held, at, alive, inodes>>

\* The process dies: the kernel drops its flocks, its files and stamps stay.
HostDies(h) ==
  /\ h \in alive /\ Cardinality(Hosts \ alive) < MaxDeaths
  /\ alive' = alive \ {h}
  /\ locker' = [i \in Inodes |->
                  IF locker[i] # None /\ HostOf[locker[i]] = h THEN None ELSE locker[i]]
  /\ UNCHANGED <<path, stamp, fd, held, pc, at, inodes>>

Step(r) ==
  \/ Open(r) \/ AllHeld(r) \/ Flock(r) \/ Probe(r) \/ Truncate(r) \/ Stamp(r)
  \/ RunEnds(r) \/ Undo(r) \/ Unlock(r) \/ Unlink(r)

Next == (\E r \in Runs : Step(r)) \/ (\E h \in Hosts : HostDies(h))

\* Nothing in acquire_lockset() waits; a live run goes on.
Spec == Init /\ [][Next]_vars /\ \A r \in Runs : WF_vars(Step(r))

-----------------------------------------------------------------------------
(* Properties                                                              *)

PC == {"new", "next", "flock", "probe", "retry", "truncate", "stamp", "holding", "undo",
       "unlock", "unlink", "unlockRefused", "unlinkRefused", "done", "refused"}

\* Names, inodes, stamps and lock sets keep their shape.
TypeOK ==
  /\ path \in [Locks -> Inodes \cup {0}]
  /\ locker \in [Inodes -> Runs \cup {None}]
  /\ stamp \in [Inodes -> Runs \cup {None}]
  /\ fd \in [Runs -> Inodes \cup {0}]
  /\ held \in [Runs -> SUBSET (Locks \X Inodes)]
  /\ pc \in [Runs -> PC]
  /\ at \in [Runs -> Locks \cup {0}]
  /\ alive \subseteq Hosts
  /\ inodes \in 0..MaxInode

\* A flock that outlives its run would refuse every later run of the service
\* for good (its pid is alive): whoever holds a flock is a live run that is
\* still acquiring, working or releasing.
NoFlockLeaks ==
  \A i \in Inodes : locker[i] # None =>
    Live(locker[i]) /\ pc[locker[i]] \notin {"new", "done", "refused"}

\* A run that was let in holds the flock of every lock it declared, on a file that
\* carries its own stamp: taking over a stale lock never leaves two claims
\* to one file.
HoldersOwnTheirFiles ==
  \A r \in Runs : Live(r) /\ pc[r] = "holding" =>
    \A l \in Need[r] : \E i \in Inodes :
      <<l, i>> \in held[r] /\ locker[i] = r /\ stamp[i] = r

\* Locks conflicts end: every live run finishes or is refused, nobody waits.
EveryRunDecides ==
  \A r \in Runs : <>(pc[r] \in {"done", "refused"} \/ ~Live(r))
=============================================================================
