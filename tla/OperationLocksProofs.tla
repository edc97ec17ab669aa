------------------------ MODULE OperationLocksProofs ------------------------
(* Machine-checked theorems about OperationLocks.                          *)
EXTENDS OperationLocks, WellFoundedInduction, TLAPS

USE DEF PC

\* A set of natural numbers that is not empty has a least one.
LEMMA LeastNat ==
  ASSUME NEW S \in SUBSET Nat, S # {}
  PROVE  \E l \in S : \A m \in S : l <= m
<1> DEFINE Less == {ss \in Nat \X Nat : ss[1] < ss[2]}
<1>1. IsWellFoundedOn(Less, Nat)
  BY NatLessThanWellFounded DEF OpToRel
<1>2. PICK l \in S : \A m \in S : ~(<<m, l>> \in Less)
  <2> HIDE DEF Less
  <2> QED BY <1>1, WFMin
<1>3. ASSUME NEW m \in S PROVE l <= m
  <2>1. m \in Nat /\ l \in Nat /\ <<m, l>> \in Nat \X Nat /\ ~(<<m, l>> \in Less)
    BY <1>2
  <2>2. ~(m < l)
    BY <2>1
  <2> QED BY <2>1, <2>2
<1> QED BY <1>3

\* A set of locks that is not empty has a first one, and Least finds it.
LEMMA LeastLock ==
  ASSUME NEW S \in SUBSET Locks, S # {}
  PROVE  Least(S) \in S
<1>1. S \in SUBSET Nat
  BY LocksAssumption DEF Locks
<1>2. \E l \in S : \A m \in S : l <= m
  BY <1>1, LeastNat
<1> QED BY <1>2 DEF Least

\* The entry that release() starts with is one of those held.
LEMMA FirstHeld ==
  ASSUME NEW H \in SUBSET (Locks \X Inodes), H # {}
  PROVE  (CHOOSE g \in H : \A k \in H : g[1] <= k[1]) \in H
<1> DEFINE S == {h[1] : h \in H}
<1>1. S \in SUBSET Nat /\ S # {}
  BY LocksAssumption DEF Locks
<1>2. \E l \in S : \A m \in S : l <= m
  <2> HIDE DEF S
  <2> QED BY <1>1, LeastNat
<1>3. \E g \in H : \A k \in H : g[1] <= k[1]
  BY <1>2
<1> QED BY <1>3

-----------------------------------------------------------------------------
(* The inductive invariant                                                 *)

\* A run that works on a lock has its file open.
Opened ==
  \A r \in Runs :
    /\ pc[r] \in {"flock", "probe", "retry", "truncate", "stamp"} =>
         fd[r] \in Inodes /\ at[r] \in Locks
    /\ pc[r] \in {"unlink", "unlinkRefused"} => at[r] \in Locks

\* A flock is that of a live run, on a file it is stamping or already counts
\* among its own.
Accounted ==
  \A i \in Inodes : locker[i] # None =>
    /\ Live(locker[i])
    /\ \/ pc[locker[i]] \in {"truncate", "stamp"} /\ fd[locker[i]] = i
       \/ \E l \in Locks : <<l, i>> \in held[locker[i]]

\* What a live run counts among its own it has locked and stamped, once.
Owned ==
  \A r \in Runs : Live(r) =>
    /\ \A h \in held[r] : locker[h[2]] = r /\ stamp[h[2]] = r
    /\ \A h, k \in held[r] : h[2] = k[2] => h = k
    /\ pc[r] \in {"truncate", "stamp"} =>
         locker[fd[r]] = r /\ \A h \in held[r] : h[2] # fd[r]

\* Nothing is held before the first lock and after the last one, and all that
\* is needed is held in between.
Staged ==
  \A r \in Runs :
    /\ pc[r] \in {"new", "done", "refused"} => held[r] = {}
    /\ pc[r] \in {"unlock", "unlockRefused"} => held[r] # {}
    /\ pc[r] = "holding" => Todo(r) = {}

IInv == TypeOK /\ Opened /\ Accounted /\ Owned /\ Staged

-----------------------------------------------------------------------------

LEMMA InitIInv == Init => IInv
BY LocksAssumption DEF Init, IInv, TypeOK, Opened, Accounted, Owned, Staged, Inodes

\* One step of one run.
LEMMA StepIInv ==
  ASSUME IInv, NEW r \in Runs, Step(r)
  PROVE  IInv'
<1> USE LocksAssumption DEF IInv
<1>0. Live(r) /\ alive' = alive /\ \A q \in Runs : Live(q)' <=> Live(q)
  BY DEF Step, Open, AllHeld, Flock, Probe, Truncate, Stamp, RunEnds, Undo, Unlock, Unlink, Live
<1>1. CASE Open(r)
  <2> DEFINE l == Least(Todo(r))
  <2>0. l \in Locks
    BY <1>1, LeastLock DEF Open, Todo, TypeOK
  <2> HIDE DEF l
  <2>9. /\ pc[r] \in {"new", "next"} /\ pc' = [pc EXCEPT ![r] = "flock"]
        /\ at' = [at EXCEPT ![r] = l] /\ UNCHANGED <<locker, stamp, held>>
        /\ \/ fd' = [fd EXCEPT ![r] = path[l]] /\ path[l] # 0 /\ UNCHANGED <<path, inodes>>
           \/ /\ inodes < MaxInode /\ inodes' = inodes + 1
              /\ path' = [path EXCEPT ![l] = inodes + 1]
              /\ fd' = [fd EXCEPT ![r] = inodes + 1]
    BY <1>1 DEF Open, Goto, l
  <2>8. path[l] \in Inodes \cup {0} /\ (inodes < MaxInode => inodes + 1 \in Inodes)
    BY <2>0 DEF Inodes, TypeOK
  <2>7. path' \in [Locks -> Inodes \cup {0}] /\ fd' \in [Runs -> Inodes \cup {0}]
    BY <2>0, <2>8, <2>9 DEF TypeOK
  <2>6. inodes' \in 0..MaxInode
    BY <2>9 DEF TypeOK
  <2>1. TypeOK'
    BY <1>0, <2>0, <2>6, <2>7, <2>9 DEF TypeOK
  <2>2. Opened'
    BY <1>0, <2>0, <2>9 DEF Inodes, TypeOK, Opened
  <2>3. Accounted'
    BY <1>0, <2>0, <2>9 DEF Inodes, TypeOK, Accounted
  <2>4. Owned'
    BY <1>0, <2>0, <2>9 DEF Inodes, TypeOK, Owned
  <2>5. Staged'
    BY <1>0, <2>0, <2>9 DEF Inodes, TypeOK, Staged, Todo
  <2> QED BY <2>1, <2>2, <2>3, <2>4, <2>5
<1>2. CASE AllHeld(r)
  <2>1. TypeOK'
    BY <1>0, <1>2 DEF AllHeld, Goto, TypeOK
  <2>2. Opened'
    BY <1>0, <1>2 DEF AllHeld, Goto, TypeOK, Opened
  <2>3. Accounted'
    BY <1>0, <1>2 DEF AllHeld, Goto, TypeOK, Accounted
  <2>4. Owned'
    BY <1>0, <1>2 DEF AllHeld, Goto, TypeOK, Owned
  <2>5. Staged'
    BY <1>0, <1>2 DEF AllHeld, Goto, TypeOK, Staged, Todo
  <2> QED BY <2>1, <2>2, <2>3, <2>4, <2>5
<1>3. CASE Flock(r)
  <2>1. TypeOK'
    BY <1>0, <1>3 DEF Flock, Goto, TypeOK, Opened
  <2>2. Opened'
    BY <1>0, <1>3 DEF Flock, Goto, TypeOK, Opened
  <2>3. Accounted'
    <3> SUFFICES ASSUME NEW i \in Inodes, locker'[i] # None
                 PROVE  /\ HostOf[locker'[i]] \in alive'
                        /\ \/ pc'[locker'[i]] \in {"truncate", "stamp"} /\ fd'[locker'[i]] = i
                           \/ \E l \in Locks : <<l, i>> \in held'[locker'[i]]
      BY DEF Accounted, Live
    <3>0. /\ fd' = fd /\ held' = held /\ pc[r] \in {"flock", "retry"} /\ fd[r] \in Inodes
          /\ \A q \in Runs \ {r} : pc'[q] = pc[q]
      BY <1>3 DEF Flock, Goto, TypeOK, Opened
    <3>1. CASE locker'[i] = locker[i]
      <4>1. locker[i] \in Runs
        BY <3>1 DEF TypeOK
      <4>2. pc[locker[i]] \in {"truncate", "stamp"} => locker[i] # r
        BY <3>0
      <4> QED BY <1>0, <3>0, <3>1, <4>1, <4>2 DEF Accounted, Live
    <3>2. CASE locker'[i] # locker[i]
      <4>1. i = fd[r] /\ locker'[i] = r /\ pc'[r] = "truncate"
        BY <1>3, <3>0, <3>2 DEF Flock, Goto, TypeOK
      <4> QED BY <1>0, <3>0, <4>1 DEF Live
    <3> QED BY <3>1, <3>2
  <2>4. Owned'
    BY <1>0, <1>3 DEF Flock, Goto, TypeOK, Owned, Opened
  <2>5. Staged'
    BY <1>0, <1>3 DEF Flock, Goto, TypeOK, Staged, Todo
  <2> QED BY <2>1, <2>2, <2>3, <2>4, <2>5
<1>4. CASE Probe(r)
  <2>1. TypeOK'
    BY <1>0, <1>4 DEF Probe, Goto, TypeOK, Opened
  <2>2. Opened'
    BY <1>0, <1>4 DEF Probe, Goto, TypeOK, Opened
  <2>3. Accounted'
    BY <1>0, <1>4 DEF Probe, Goto, TypeOK, Accounted, Opened
  <2>4. Owned'
    BY <1>0, <1>4 DEF Probe, Goto, TypeOK, Owned, Opened
  <2>5. Staged'
    BY <1>0, <1>4 DEF Probe, Goto, TypeOK, Staged, Todo
  <2> QED BY <2>1, <2>2, <2>3, <2>4, <2>5
<1>5. CASE Truncate(r)
  <2>1. TypeOK'
    BY <1>0, <1>5 DEF Truncate, Goto, TypeOK, Opened
  <2>2. Opened'
    BY <1>0, <1>5 DEF Truncate, Goto, TypeOK, Opened
  <2>3. Accounted'
    BY <1>0, <1>5 DEF Truncate, Goto, TypeOK, Accounted, Opened
  <2>4. Owned'
    BY <1>0, <1>5 DEF Truncate, Goto, TypeOK, Owned, Opened
  <2>5. Staged'
    BY <1>0, <1>5 DEF Truncate, Goto, TypeOK, Staged, Todo
  <2> QED BY <2>1, <2>2, <2>3, <2>4, <2>5
<1>6. CASE Stamp(r)
  <2>0. fd[r] \in Inodes /\ at[r] \in Locks /\ locker[fd[r]] = r
    BY <1>0, <1>6 DEF Stamp, Opened, Owned
  <2>1. TypeOK'
    BY <1>0, <1>6, <2>0 DEF Stamp, Goto, TypeOK, Opened
  <2>2. Opened'
    BY <1>0, <1>6, <2>0 DEF Stamp, Goto, TypeOK, Opened
  <2>3. Accounted'
    BY <1>0, <1>6, <2>0 DEF Stamp, Goto, TypeOK, Accounted, Opened
  <2>4. Owned'
    BY <1>0, <1>6, <2>0 DEF Stamp, Goto, TypeOK, Owned, Opened
  <2>5. Staged'
    BY <1>0, <1>6, <2>0 DEF Stamp, Goto, TypeOK, Staged, Todo
  <2> QED BY <2>1, <2>2, <2>3, <2>4, <2>5
<1>7. CASE RunEnds(r)
  <2>1. TypeOK'
    BY <1>0, <1>7 DEF RunEnds, Goto, TypeOK
  <2>2. Opened'
    BY <1>0, <1>7 DEF RunEnds, Goto, TypeOK, Opened
  <2>3. Accounted'
    BY <1>0, <1>7 DEF RunEnds, Goto, TypeOK, Accounted
  <2>4. Owned'
    BY <1>0, <1>7 DEF RunEnds, Goto, TypeOK, Owned
  <2>5. Staged'
    BY <1>0, <1>7 DEF RunEnds, Goto, TypeOK, Staged, Todo
  <2> QED BY <2>1, <2>2, <2>3, <2>4, <2>5
<1>8. CASE Undo(r)
  <2>1. TypeOK'
    BY <1>0, <1>8 DEF Undo, Goto, TypeOK
  <2>2. Opened'
    BY <1>0, <1>8 DEF Undo, Goto, TypeOK, Opened
  <2>3. Accounted'
    BY <1>0, <1>8 DEF Undo, Goto, TypeOK, Accounted
  <2>4. Owned'
    BY <1>0, <1>8 DEF Undo, Goto, TypeOK, Owned
  <2>5. Staged'
    BY <1>0, <1>8 DEF Undo, Goto, TypeOK, Staged, Todo
  <2> QED BY <2>1, <2>2, <2>3, <2>4, <2>5
<1>9. CASE Unlock(r)
  <2> DEFINE h == CHOOSE g \in held[r] : \A k \in held[r] : g[1] <= k[1]
  <2>0. h \in held[r] /\ h \in Locks \X Inodes
    BY <1>9, FirstHeld DEF Unlock, TypeOK
  <2>9. /\ locker' = [locker EXCEPT ![h[2]] = None]
        /\ held' = [held EXCEPT ![r] = @ \ {h}]
        /\ at' = [at EXCEPT ![r] = h[1]]
        /\ pc' = [pc EXCEPT ![r] = IF pc[r] = "unlock" THEN "unlink" ELSE "unlinkRefused"]
        /\ UNCHANGED <<path, stamp, fd, alive, inodes>>
        /\ pc[r] \in {"unlock", "unlockRefused"}
    BY <1>9 DEF Unlock, Goto
  <2> HIDE DEF h
  <2>1. TypeOK'
    BY <1>0, <2>0, <2>9 DEF TypeOK, Opened
  <2>2. Opened'
    BY <1>0, <2>0, <2>9 DEF TypeOK, Opened
  <2>3. Accounted'
    BY <1>0, <2>0, <2>9 DEF TypeOK, Accounted, Owned
  <2>4. Owned'
    BY <1>0, <2>0, <2>9 DEF TypeOK, Owned, Opened
  <2>5. Staged'
    BY <1>0, <2>0, <2>9 DEF TypeOK, Staged, Todo
  <2> QED BY <2>1, <2>2, <2>3, <2>4, <2>5
<1>10. CASE Unlink(r)
  <2>1. TypeOK'
    BY <1>0, <1>10 DEF Unlink, Goto, TypeOK
  <2>2. Opened'
    BY <1>0, <1>10 DEF Unlink, Goto, TypeOK, Opened
  <2>3. Accounted'
    BY <1>0, <1>10 DEF Unlink, Goto, TypeOK, Accounted
  <2>4. Owned'
    BY <1>0, <1>10 DEF Unlink, Goto, TypeOK, Owned
  <2>5. Staged'
    BY <1>0, <1>10 DEF Unlink, Goto, TypeOK, Staged, Todo
  <2> QED BY <2>1, <2>2, <2>3, <2>4, <2>5
<1> QED
  BY <1>1, <1>2, <1>3, <1>4, <1>5, <1>6, <1>7, <1>8, <1>9, <1>10 DEF Step

\* A process dies: its flocks go with it, the others keep theirs.
LEMMA DeathIInv ==
  ASSUME IInv, NEW h \in Hosts, HostDies(h)
  PROVE  IInv'
<1>1. TypeOK' /\ Opened' /\ Staged'
  BY DEF IInv, HostDies, TypeOK, Opened, Staged, Todo
<1>2. /\ UNCHANGED <<stamp, fd, held, pc>>
      /\ \A q \in Runs : Live(q)' <=> (Live(q) /\ HostOf[q] # h)
      /\ \A i \in Inodes : locker'[i] =
           IF locker[i] # None /\ HostOf[locker[i]] = h THEN None ELSE locker[i]
  BY DEF HostDies, Live
<1>3. Accounted'
  <2> SUFFICES ASSUME NEW i \in Inodes, locker'[i] # None
               PROVE  /\ HostOf[locker'[i]] \in alive'
                      /\ \/ pc'[locker'[i]] \in {"truncate", "stamp"} /\ fd'[locker'[i]] = i
                         \/ \E l \in Locks : <<l, i>> \in held'[locker'[i]]
    BY DEF Accounted, Live
  <2>1. locker'[i] = locker[i] /\ HostOf[locker[i]] # h /\ locker[i] \in Runs
    BY <1>2 DEF IInv, TypeOK
  <2>2. HostOf[locker[i]] \in alive'
    BY <2>1 DEF IInv, Accounted, Live, HostDies
  <2> QED BY <1>2, <2>1, <2>2 DEF IInv, Accounted
<1>4. Owned'
  <2> SUFFICES ASSUME NEW r \in Runs, Live(r)'
               PROVE  /\ \A e \in held[r] : locker'[e[2]] = r /\ stamp[e[2]] = r
                      /\ \A e, k \in held[r] : e[2] = k[2] => e = k
                      /\ pc[r] \in {"truncate", "stamp"} =>
                           locker'[fd[r]] = r /\ \A e \in held[r] : e[2] # fd[r]
    BY <1>2 DEF Owned
  <2>1. Live(r) /\ HostOf[r] # h /\ r # None
    BY <1>2, LocksAssumption
  <2>2. \A i \in Inodes : locker[i] = r => locker'[i] = r
    BY <1>2, <2>1
  <2>3. \A e \in held[r] : e[2] \in Inodes
    BY DEF IInv, TypeOK
  <2> QED BY <2>1, <2>2, <2>3 DEF IInv, Owned, Opened
<1> QED BY <1>1, <1>3, <1>4 DEF IInv

THEOREM Invariance == Spec => []IInv
<1>1. IInv /\ [Next]_vars => IInv'
  <2> SUFFICES ASSUME IInv, [Next]_vars PROVE IInv'
    OBVIOUS
  <2>1. CASE Next
    BY <2>1, StepIInv, DeathIInv DEF Next
  <2>2. CASE UNCHANGED vars
    BY <2>2 DEF vars, IInv, TypeOK, Opened, Accounted, Owned, Staged, Todo, Live
  <2> QED BY <2>1, <2>2
<1> QED BY InitIInv, <1>1, PTL DEF Spec

-----------------------------------------------------------------------------
(* Theorems                                                                *)

\* Names, inodes, stamps and lock sets keep their shape, for any runs and locks.
THEOREM TypeCorrect == Spec => []TypeOK
<1>1. IInv => TypeOK
  BY DEF IInv
<1> QED BY Invariance, <1>1, PTL

\* Whoever holds a flock is a live run in the middle of its work: no path out of
\* acquire_lockset() or release() leaves one behind.
THEOREM NoLeaks == Spec => []NoFlockLeaks
<1>1. IInv => NoFlockLeaks
  <2> SUFFICES ASSUME IInv, NEW i \in Inodes, locker[i] # None
               PROVE  Live(locker[i]) /\ pc[locker[i]] \notin {"new", "done", "refused"}
    BY DEF NoFlockLeaks
  <2>1. locker[i] \in Runs
    BY DEF IInv, TypeOK
  <2>2. CASE pc[locker[i]] \in {"truncate", "stamp"}
    BY <2>2 DEF IInv, Accounted
  <2>3. CASE held[locker[i]] # {}
    BY <2>1, <2>3 DEF IInv, Accounted, Staged
  <2> QED BY <2>2, <2>3 DEF IInv, Accounted
<1> QED BY Invariance, <1>1, PTL

\* A run that was let in holds, and has stamped, a file of its own for each of the
\* locks it declared.
THEOREM HoldersOwn == Spec => []HoldersOwnTheirFiles
<1>1. IInv => HoldersOwnTheirFiles
  <2> SUFFICES ASSUME IInv, NEW r \in Runs, Live(r), pc[r] = "holding", NEW l \in Need[r]
               PROVE  \E i \in Inodes : <<l, i>> \in held[r] /\ locker[i] = r /\ stamp[i] = r
    BY DEF HoldersOwnTheirFiles
  <2>1. PICK h \in held[r] : l = h[1]
    BY DEF IInv, Staged, Todo
  <2>2. h \in Locks \X Inodes
    BY <2>1 DEF IInv, TypeOK
  <2>3. h[2] \in Inodes /\ h = <<l, h[2]>>
    BY <2>1, <2>2
  <2> QED BY <2>1, <2>3 DEF IInv, Owned
<1> QED BY Invariance, <1>1, PTL
=============================================================================
