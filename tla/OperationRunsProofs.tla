------------------------ MODULE OperationRunsProofs -------------------------
(* Machine-checked theorems about OperationRuns.                           *)
EXTENDS OperationRuns, TLAPS

USE DEF PC, Status, Terminal

-----------------------------------------------------------------------------
(* The inductive invariant                                                 *)

\* Where a run holds its declared lock, and where the corpus fence.
InLock  == {"fence", "spawn", "receipt", "record", "register", "wait", "finalize",
            "refresh", "release", "cliFence", "cliWait", "cliRelease"}
InFence == {"spawn", "receipt", "record", "register", "wait", "cliWait"}

\* Lock and fence belong to whoever is at such a place, and to nobody else but
\* a handler that raised before it released the lock.
Held ==
  /\ \A a \in Actors : pc[a] \in InLock => lock = a
  /\ \A a \in Actors : pc[a] \in InFence => fence = a
  /\ lock # None => pc[lock] \in InLock \/ lock \in dropped
  /\ fence \notin {None, Other} => pc[fence] \in InFence

\* There is no worker before it is spawned, and none after it was waited for.
Worked ==
  \A a \in Actors :
    /\ pc[a] \in {"new", "lock", "fence", "spawn", "cliLock", "cliFence"} => worker[a] = "none"
    /\ pc[a] \in {"finalize", "refresh", "release", "pop", "cliRelease", "cliFinalize"} =>
         worker[a] = "exited"
    /\ worker[a] = "exited" => ending[a] \in Ending

\* A run id is its own until a CLI process resumes another one's, once.
Named ==
  /\ \A a \in Api : runOf[a] = a
  /\ \A a \in Cli : pc[a] = "new" => runOf[a] = a

\* The run is past its terminal receipt.
Past == {"refresh", "release", "pop", "done"}

\* A receipt that is final before its own run has finalized it was resumed.
Resumed(r) == \E c \in Cli : c # r /\ runOf[c] = r
Finals == \A r \in Actors : receipt[r] \in Terminal => pc[r] \in Past \/ Resumed(r)

\* A worker of run r ended well, and nothing will touch its account any more.
Good(e)    == e = [rc |-> 0, claim |-> "", outputs |-> TRUE]
Success(r) == \E a \in Actors : /\ runOf[a] = r /\ pc[a] \in Past
                                /\ worker[a] = "exited" /\ Good(ending[a])
Truthful ==
  /\ \A r \in Actors : receipt[r] = "succeeded" => Success(r)
  /\ \A r \in Api : record[r] = "succeeded" \/ value[r] = "succeeded" => Success(r)

IInv == TypeOK /\ Held /\ Worked /\ Named /\ Finals /\ Truthful

-----------------------------------------------------------------------------
(* Lemmas                                                                  *)

\* A verdict is a terminal status, and a success only for a worker that ended well.
LEMMA VerdictType ==
  ASSUME NEW e \in Ending
  PROVE  Verdict(e) \in Terminal /\ (Verdict(e) = "succeeded" => Good(e))
<1>1. /\ e.rc \in {0, 1} /\ e.claim \in {"", "degraded", "failed"} /\ e.outputs \in BOOLEAN
      /\ e = [rc |-> e.rc, claim |-> e.claim, outputs |-> e.outputs]
  BY DEF Ending
<1> QED BY <1>1 DEF Verdict, Good

LEMMA InitIInv == Init => IInv
<1> SUFFICES ASSUME Init PROVE IInv
  OBVIOUS
<1>1. TypeOK
  BY RunsAssumption DEF Init, TypeOK, Actors
<1>2. Held
  BY RunsAssumption DEF Init, Held, Actors, InLock, InFence
<1>3. Worked /\ Named /\ Finals /\ Truthful
  BY RunsAssumption DEF Init, Worked, Named, Finals, Truthful, Actors
<1> QED BY <1>1, <1>2, <1>3 DEF IInv

\* Every step keeps the types.
LEMMA TypeStep ==
  ASSUME TypeOK, Worked, Next
  PROVE  TypeOK'
<1> USE RunsAssumption DEF Actors, world, locks, work, files, reads, Goto
<1>1. ASSUME NEW a \in Api, Validate(a) PROVE TypeOK'
  BY <1>1 DEF Validate, TypeOK
<1>2. ASSUME NEW a \in Api, TakeLock(a) PROVE TypeOK'
  BY <1>2 DEF TakeLock, TypeOK
<1>3. ASSUME NEW a \in Api, TakeFence(a) PROVE TypeOK'
  BY <1>3 DEF TakeFence, TypeOK
<1>4. ASSUME NEW a \in Api, FenceTimeout(a) PROVE TypeOK'
  BY <1>4 DEF FenceTimeout, TypeOK
<1>5. ASSUME NEW a \in Api, Spawn(a) PROVE TypeOK'
  BY <1>5 DEF Spawn, TypeOK
<1>6. ASSUME NEW a \in Api, SpawnFails(a) PROVE TypeOK'
  BY <1>6 DEF Undo, SpawnFails, TypeOK
<1>7. ASSUME NEW a \in Api, LogsFail(a) PROVE TypeOK'
  BY <1>7 DEF LogsFail, TypeOK
<1>8. ASSUME NEW a \in Api, WriteReceipt(a) PROVE TypeOK'
  BY <1>8 DEF WriteReceipt, TypeOK
<1>9. ASSUME NEW a \in Api, WriteRecord(a) PROVE TypeOK'
  BY <1>9 DEF WriteRecord, TypeOK
<1>10. ASSUME NEW a \in Api, Register(a) PROVE TypeOK'
  BY <1>10 DEF Register, TypeOK
<1>11. ASSUME NEW a \in Api, StartFails(a) PROVE TypeOK'
  BY <1>11 DEF Undo, StartFails, Ending, TypeOK
<1>12. ASSUME NEW a \in Api, ReapFence(a) PROVE TypeOK'
  BY <1>12 DEF ReapFence, TypeOK
<1>13. ASSUME NEW a \in Api, ReapFinalize(a) PROVE TypeOK'
  BY <1>13, VerdictType DEF ReapFinalize, Worked, TypeOK
<1>14. ASSUME NEW a \in Api, ReapRefresh(a) PROVE TypeOK'
  BY <1>14 DEF ReapRefresh, TypeOK
<1>15. ASSUME NEW a \in Api, ReapFails(a) PROVE TypeOK'
  BY <1>15 DEF ReapFails, Free, TypeOK
<1>16. ASSUME NEW a \in Api, ReapRelease(a) PROVE TypeOK'
  BY <1>16 DEF ReapRelease, TypeOK
<1>17. ASSUME NEW a \in Api, ReapPop(a) PROVE TypeOK'
  BY <1>17 DEF ReapPop, TypeOK
<1>18. ASSUME NEW a \in Api, GetLoad(a) PROVE TypeOK'
  BY <1>18 DEF GetLoad, Merged, TypeOK
<1>19. ASSUME NEW a \in Api, GetDecide(a) PROVE TypeOK'
  BY <1>19 DEF GetDecide, Decided, TypeOK
<1>20. ASSUME NEW a \in Api, GetWrite(a) PROVE TypeOK'
  BY <1>20 DEF GetWrite, TypeOK
<1>21. ASSUME NEW a \in Cli, CliStart(a) PROVE TypeOK'
  BY <1>21 DEF CliStart, TypeOK
<1>22. ASSUME NEW a \in Cli, CliLock(a) PROVE TypeOK'
  BY <1>22 DEF CliLock, TypeOK
<1>23. ASSUME NEW a \in Cli, CliWork(a) PROVE TypeOK'
  BY <1>23 DEF CliWork, TypeOK
<1>24. ASSUME NEW a \in Cli, CliFenceTimeout(a) PROVE TypeOK'
  BY <1>24 DEF CliFenceTimeout, TypeOK
<1>25. ASSUME NEW a \in Cli, CliFenceExit(a) PROVE TypeOK'
  BY <1>25 DEF CliFenceExit, TypeOK
<1>26. ASSUME NEW a \in Cli, CliFails(a) PROVE TypeOK'
  BY <1>26 DEF CliFails, TypeOK
<1>27. ASSUME NEW a \in Cli, CliRelease(a) PROVE TypeOK'
  BY <1>27 DEF CliRelease, TypeOK
<1>28. ASSUME NEW a \in Cli, CliFinalize(a) PROVE TypeOK'
  BY <1>28, VerdictType DEF CliFinalize, Worked, TypeOK
<1>29. ASSUME NEW a \in Cli, CliDies(a) PROVE TypeOK'
  BY <1>29 DEF CliDies, Free, TypeOK
<1>30. ASSUME NEW a \in Cli, NEW x \in Actors, CliResume(a, x) PROVE TypeOK'
  BY <1>30 DEF CliResume, TypeOK
<1>31. ASSUME NEW a \in Actors, NEW e \in Endings, WorkerExits(a, e) PROVE TypeOK'
  BY <1>31 DEF WorkerExits, TypeOK
<1>32. CASE OtherEnters
  BY <1>32 DEF OtherEnters, TypeOK
<1>33. CASE OtherLeaves
  BY <1>33 DEF OtherLeaves, TypeOK
<1>34. CASE ServiceDies
  <2>1. pc' \in [Actors -> PC]
    BY <1>34 DEF ServiceDies, TypeOK
  <2>2. lock' \in Actors \cup {None} /\ fence' \in Actors \cup {Other, None}
    BY <1>34 DEF ServiceDies, Free, TypeOK
  <2>3. crashes' \in 0..MaxCrashes
    BY <1>34 DEF ServiceDies, TypeOK
  <2>6. up' \in BOOLEAN
    BY <1>34 DEF ServiceDies
  <2>4. get' \in [Api -> {"idle", "loaded", "decided"}] /\ value' \in [Api -> Status]
    BY <1>34 DEF ServiceDies
  <2>5. UNCHANGED <<runOf, worker, ending, taken, receipt, record>> /\ tracked' = {} /\ dropped' = {}
    BY <1>34 DEF ServiceDies
  <2> QED BY <2>1, <2>2, <2>3, <2>4, <2>5, <2>6 DEF TypeOK
<1>35. CASE ServiceStarts
  BY <1>35 DEF ServiceStarts, Decided, Merged, TypeOK
<1>36. ASSUME NEW a \in Api, PidTaken(a) PROVE TypeOK'
  BY <1>36 DEF PidTaken, TypeOK
<1>37. ASSUME NEW a \in Api, PidFreed(a) PROVE TypeOK'
  BY <1>37 DEF PidFreed, TypeOK
<1> QED
  BY <1>1, <1>2, <1>3, <1>4, <1>5, <1>6, <1>7, <1>8, <1>9, <1>10, <1>11, <1>12, <1>13, <1>14, <1>15, <1>16, <1>17, <1>18, <1>19, <1>20, <1>21, <1>22, <1>23, <1>24, <1>25, <1>26, <1>27, <1>28, <1>29, <1>30, <1>31, <1>32, <1>33, <1>34, <1>35, <1>36, <1>37
  DEF Next, Handler, Reaper, Getter, CliStep

\* Every step keeps lock and fence with their holders.
LEMMA HeldStep ==
  ASSUME TypeOK, Held, Next
  PROVE  Held'
<1> USE RunsAssumption DEF Actors, world, locks, work, files, reads, Goto
<1>1. ASSUME NEW a \in Api, Validate(a) PROVE Held'
  BY <1>1 DEF Validate, Held, TypeOK, InLock, InFence
<1>2. ASSUME NEW a \in Api, TakeLock(a) PROVE Held'
  BY <1>2 DEF TakeLock, Held, TypeOK, InLock, InFence
<1>3. ASSUME NEW a \in Api, TakeFence(a) PROVE Held'
  BY <1>3 DEF TakeFence, Held, TypeOK, InLock, InFence
<1>4. ASSUME NEW a \in Api, FenceTimeout(a) PROVE Held'
  BY <1>4 DEF FenceTimeout, Held, TypeOK, InLock, InFence
<1>5. ASSUME NEW a \in Api, Spawn(a) PROVE Held'
  BY <1>5 DEF Spawn, Held, TypeOK, InLock, InFence
<1>6. ASSUME NEW a \in Api, SpawnFails(a) PROVE Held'
  BY <1>6 DEF Undo, SpawnFails, Held, TypeOK, InLock, InFence
<1>7. ASSUME NEW a \in Api, LogsFail(a) PROVE Held'
  BY <1>7 DEF LogsFail, Held, TypeOK, InLock, InFence
<1>8. ASSUME NEW a \in Api, WriteReceipt(a) PROVE Held'
  BY <1>8 DEF WriteReceipt, Held, TypeOK, InLock, InFence
<1>9. ASSUME NEW a \in Api, WriteRecord(a) PROVE Held'
  BY <1>9 DEF WriteRecord, Held, TypeOK, InLock, InFence
<1>10. ASSUME NEW a \in Api, Register(a) PROVE Held'
  BY <1>10 DEF Register, Held, TypeOK, InLock, InFence
<1>11. ASSUME NEW a \in Api, StartFails(a) PROVE Held'
  BY <1>11 DEF Undo, StartFails, Held, TypeOK, InLock, InFence
<1>12. ASSUME NEW a \in Api, ReapFence(a) PROVE Held'
  BY <1>12 DEF ReapFence, Held, TypeOK, InLock, InFence
<1>13. ASSUME NEW a \in Api, ReapFinalize(a) PROVE Held'
  BY <1>13 DEF ReapFinalize, Held, TypeOK, InLock, InFence
<1>14. ASSUME NEW a \in Api, ReapRefresh(a) PROVE Held'
  BY <1>14 DEF ReapRefresh, Held, TypeOK, InLock, InFence
<1>15. ASSUME NEW a \in Api, ReapFails(a) PROVE Held'
  BY <1>15 DEF ReapFails, Free, Held, TypeOK, InLock, InFence
<1>16. ASSUME NEW a \in Api, ReapRelease(a) PROVE Held'
  BY <1>16 DEF ReapRelease, Held, TypeOK, InLock, InFence
<1>17. ASSUME NEW a \in Api, ReapPop(a) PROVE Held'
  BY <1>17 DEF ReapPop, Held, TypeOK, InLock, InFence
<1>18. ASSUME NEW a \in Api, GetLoad(a) PROVE Held'
  BY <1>18 DEF GetLoad, Held, TypeOK, InLock, InFence
<1>19. ASSUME NEW a \in Api, GetDecide(a) PROVE Held'
  BY <1>19 DEF GetDecide, Held, TypeOK, InLock, InFence
<1>20. ASSUME NEW a \in Api, GetWrite(a) PROVE Held'
  BY <1>20 DEF GetWrite, Held, TypeOK, InLock, InFence
<1>21. ASSUME NEW a \in Cli, CliStart(a) PROVE Held'
  BY <1>21 DEF CliStart, Held, TypeOK, InLock, InFence
<1>22. ASSUME NEW a \in Cli, CliLock(a) PROVE Held'
  BY <1>22 DEF CliLock, Held, TypeOK, InLock, InFence
<1>23. ASSUME NEW a \in Cli, CliWork(a) PROVE Held'
  BY <1>23 DEF CliWork, Held, TypeOK, InLock, InFence
<1>24. ASSUME NEW a \in Cli, CliFenceTimeout(a) PROVE Held'
  BY <1>24 DEF CliFenceTimeout, Held, TypeOK, InLock, InFence
<1>25. ASSUME NEW a \in Cli, CliFenceExit(a) PROVE Held'
  BY <1>25 DEF CliFenceExit, Held, TypeOK, InLock, InFence
<1>26. ASSUME NEW a \in Cli, CliFails(a) PROVE Held'
  BY <1>26 DEF CliFails, Held, TypeOK, InLock, InFence
<1>27. ASSUME NEW a \in Cli, CliRelease(a) PROVE Held'
  BY <1>27 DEF CliRelease, Held, TypeOK, InLock, InFence
<1>28. ASSUME NEW a \in Cli, CliFinalize(a) PROVE Held'
  BY <1>28 DEF CliFinalize, Held, TypeOK, InLock, InFence
<1>29. ASSUME NEW a \in Cli, CliDies(a) PROVE Held'
  BY <1>29 DEF CliDies, Free, Held, TypeOK, InLock, InFence
<1>30. ASSUME NEW a \in Cli, NEW x \in Actors, CliResume(a, x) PROVE Held'
  BY <1>30 DEF CliResume, Held, TypeOK, InLock, InFence
<1>31. ASSUME NEW a \in Actors, NEW e \in Endings, WorkerExits(a, e) PROVE Held'
  BY <1>31 DEF WorkerExits, Held, TypeOK, InLock, InFence
<1>32. CASE OtherEnters
  BY <1>32 DEF OtherEnters, Held, TypeOK, InLock, InFence
<1>33. CASE OtherLeaves
  BY <1>33 DEF OtherLeaves, Held, TypeOK, InLock, InFence
<1>34. CASE ServiceDies
  BY <1>34 DEF ServiceDies, Free, Held, TypeOK, InLock, InFence
<1>35. CASE ServiceStarts
  BY <1>35 DEF ServiceStarts, Held, TypeOK, InLock, InFence
<1>36. ASSUME NEW a \in Api, PidTaken(a) PROVE Held'
  BY <1>36 DEF PidTaken, Held, TypeOK, InLock, InFence
<1>37. ASSUME NEW a \in Api, PidFreed(a) PROVE Held'
  BY <1>37 DEF PidFreed, Held, TypeOK, InLock, InFence
<1> QED
  BY <1>1, <1>2, <1>3, <1>4, <1>5, <1>6, <1>7, <1>8, <1>9, <1>10, <1>11, <1>12, <1>13, <1>14, <1>15, <1>16, <1>17, <1>18, <1>19, <1>20, <1>21, <1>22, <1>23, <1>24, <1>25, <1>26, <1>27, <1>28, <1>29, <1>30, <1>31, <1>32, <1>33, <1>34, <1>35, <1>36, <1>37
  DEF Next, Handler, Reaper, Getter, CliStep

\* Every step keeps workers where they belong.
LEMMA WorkedStep ==
  ASSUME TypeOK, Worked, Next
  PROVE  Worked'
<1> USE RunsAssumption DEF Actors, world, locks, work, files, reads, Goto
<1>1. ASSUME NEW a \in Api, Validate(a) PROVE Worked'
  BY <1>1 DEF Validate, Worked, TypeOK
<1>2. ASSUME NEW a \in Api, TakeLock(a) PROVE Worked'
  BY <1>2 DEF TakeLock, Worked, TypeOK
<1>3. ASSUME NEW a \in Api, TakeFence(a) PROVE Worked'
  BY <1>3 DEF TakeFence, Worked, TypeOK
<1>4. ASSUME NEW a \in Api, FenceTimeout(a) PROVE Worked'
  BY <1>4 DEF FenceTimeout, Worked, TypeOK
<1>5. ASSUME NEW a \in Api, Spawn(a) PROVE Worked'
  BY <1>5 DEF Spawn, Worked, TypeOK
<1>6. ASSUME NEW a \in Api, SpawnFails(a) PROVE Worked'
  BY <1>6 DEF Undo, SpawnFails, Worked, TypeOK
<1>7. ASSUME NEW a \in Api, LogsFail(a) PROVE Worked'
  BY <1>7 DEF LogsFail, Worked, TypeOK
<1>8. ASSUME NEW a \in Api, WriteReceipt(a) PROVE Worked'
  BY <1>8 DEF WriteReceipt, Worked, TypeOK
<1>9. ASSUME NEW a \in Api, WriteRecord(a) PROVE Worked'
  BY <1>9 DEF WriteRecord, Worked, TypeOK
<1>10. ASSUME NEW a \in Api, Register(a) PROVE Worked'
  BY <1>10 DEF Register, Worked, TypeOK
<1>11. ASSUME NEW a \in Api, StartFails(a) PROVE Worked'
  BY <1>11 DEF Undo, StartFails, Ending, Worked, TypeOK
<1>12. ASSUME NEW a \in Api, ReapFence(a) PROVE Worked'
  BY <1>12 DEF ReapFence, Worked, TypeOK
<1>13. ASSUME NEW a \in Api, ReapFinalize(a) PROVE Worked'
  BY <1>13 DEF ReapFinalize, Worked, TypeOK
<1>14. ASSUME NEW a \in Api, ReapRefresh(a) PROVE Worked'
  BY <1>14 DEF ReapRefresh, Worked, TypeOK
<1>15. ASSUME NEW a \in Api, ReapFails(a) PROVE Worked'
  BY <1>15 DEF ReapFails, Worked, TypeOK
<1>16. ASSUME NEW a \in Api, ReapRelease(a) PROVE Worked'
  BY <1>16 DEF ReapRelease, Worked, TypeOK
<1>17. ASSUME NEW a \in Api, ReapPop(a) PROVE Worked'
  BY <1>17 DEF ReapPop, Worked, TypeOK
<1>18. ASSUME NEW a \in Api, GetLoad(a) PROVE Worked'
  BY <1>18 DEF GetLoad, Worked, TypeOK
<1>19. ASSUME NEW a \in Api, GetDecide(a) PROVE Worked'
  BY <1>19 DEF GetDecide, Worked, TypeOK
<1>20. ASSUME NEW a \in Api, GetWrite(a) PROVE Worked'
  BY <1>20 DEF GetWrite, Worked, TypeOK
<1>21. ASSUME NEW a \in Cli, CliStart(a) PROVE Worked'
  BY <1>21 DEF CliStart, Worked, TypeOK
<1>22. ASSUME NEW a \in Cli, CliLock(a) PROVE Worked'
  BY <1>22 DEF CliLock, Worked, TypeOK
<1>23. ASSUME NEW a \in Cli, CliWork(a) PROVE Worked'
  BY <1>23 DEF CliWork, Worked, TypeOK
<1>24. ASSUME NEW a \in Cli, CliFenceTimeout(a) PROVE Worked'
  BY <1>24 DEF CliFenceTimeout, Worked, TypeOK
<1>25. ASSUME NEW a \in Cli, CliFenceExit(a) PROVE Worked'
  BY <1>25 DEF CliFenceExit, Worked, TypeOK
<1>26. ASSUME NEW a \in Cli, CliFails(a) PROVE Worked'
  BY <1>26 DEF CliFails, Worked, TypeOK
<1>27. ASSUME NEW a \in Cli, CliRelease(a) PROVE Worked'
  BY <1>27 DEF CliRelease, Worked, TypeOK
<1>28. ASSUME NEW a \in Cli, CliFinalize(a) PROVE Worked'
  BY <1>28 DEF CliFinalize, Worked, TypeOK
<1>29. ASSUME NEW a \in Cli, CliDies(a) PROVE Worked'
  BY <1>29 DEF CliDies, Worked, TypeOK
<1>30. ASSUME NEW a \in Cli, NEW x \in Actors, CliResume(a, x) PROVE Worked'
  BY <1>30 DEF CliResume, Worked, TypeOK
<1>31. ASSUME NEW a \in Actors, NEW e \in Endings, WorkerExits(a, e) PROVE Worked'
  BY <1>31 DEF WorkerExits, Worked, TypeOK
<1>32. CASE OtherEnters
  BY <1>32 DEF OtherEnters, Worked, TypeOK
<1>33. CASE OtherLeaves
  BY <1>33 DEF OtherLeaves, Worked, TypeOK
<1>34. CASE ServiceDies
  BY <1>34 DEF ServiceDies, Worked, TypeOK
<1>35. CASE ServiceStarts
  BY <1>35 DEF ServiceStarts, Worked, TypeOK
<1>36. ASSUME NEW a \in Api, PidTaken(a) PROVE Worked'
  BY <1>36 DEF PidTaken, Worked, TypeOK
<1>37. ASSUME NEW a \in Api, PidFreed(a) PROVE Worked'
  BY <1>37 DEF PidFreed, Worked, TypeOK
<1> QED
  BY <1>1, <1>2, <1>3, <1>4, <1>5, <1>6, <1>7, <1>8, <1>9, <1>10, <1>11, <1>12, <1>13, <1>14, <1>15, <1>16, <1>17, <1>18, <1>19, <1>20, <1>21, <1>22, <1>23, <1>24, <1>25, <1>26, <1>27, <1>28, <1>29, <1>30, <1>31, <1>32, <1>33, <1>34, <1>35, <1>36, <1>37
  DEF Next, Handler, Reaper, Getter, CliStep

\* Every step keeps the run ids.
LEMMA NamedStep ==
  ASSUME TypeOK, Named, Next
  PROVE  Named'
<1> USE RunsAssumption DEF Actors, world, locks, work, files, reads, Goto
<1>1. ASSUME NEW a \in Api, Validate(a) PROVE Named'
  BY <1>1 DEF Validate, Named, TypeOK
<1>2. ASSUME NEW a \in Api, TakeLock(a) PROVE Named'
  BY <1>2 DEF TakeLock, Named, TypeOK
<1>3. ASSUME NEW a \in Api, TakeFence(a) PROVE Named'
  BY <1>3 DEF TakeFence, Named, TypeOK
<1>4. ASSUME NEW a \in Api, FenceTimeout(a) PROVE Named'
  BY <1>4 DEF FenceTimeout, Named, TypeOK
<1>5. ASSUME NEW a \in Api, Spawn(a) PROVE Named'
  BY <1>5 DEF Spawn, Named, TypeOK
<1>6. ASSUME NEW a \in Api, SpawnFails(a) PROVE Named'
  BY <1>6 DEF Undo, SpawnFails, Named, TypeOK
<1>7. ASSUME NEW a \in Api, LogsFail(a) PROVE Named'
  BY <1>7 DEF LogsFail, Named, TypeOK
<1>8. ASSUME NEW a \in Api, WriteReceipt(a) PROVE Named'
  BY <1>8 DEF WriteReceipt, Named, TypeOK
<1>9. ASSUME NEW a \in Api, WriteRecord(a) PROVE Named'
  BY <1>9 DEF WriteRecord, Named, TypeOK
<1>10. ASSUME NEW a \in Api, Register(a) PROVE Named'
  BY <1>10 DEF Register, Named, TypeOK
<1>11. ASSUME NEW a \in Api, StartFails(a) PROVE Named'
  BY <1>11 DEF Undo, StartFails, Named, TypeOK
<1>12. ASSUME NEW a \in Api, ReapFence(a) PROVE Named'
  BY <1>12 DEF ReapFence, Named, TypeOK
<1>13. ASSUME NEW a \in Api, ReapFinalize(a) PROVE Named'
  BY <1>13 DEF ReapFinalize, Named, TypeOK
<1>14. ASSUME NEW a \in Api, ReapRefresh(a) PROVE Named'
  BY <1>14 DEF ReapRefresh, Named, TypeOK
<1>15. ASSUME NEW a \in Api, ReapFails(a) PROVE Named'
  BY <1>15 DEF ReapFails, Named, TypeOK
<1>16. ASSUME NEW a \in Api, ReapRelease(a) PROVE Named'
  BY <1>16 DEF ReapRelease, Named, TypeOK
<1>17. ASSUME NEW a \in Api, ReapPop(a) PROVE Named'
  BY <1>17 DEF ReapPop, Named, TypeOK
<1>18. ASSUME NEW a \in Api, GetLoad(a) PROVE Named'
  BY <1>18 DEF GetLoad, Named, TypeOK
<1>19. ASSUME NEW a \in Api, GetDecide(a) PROVE Named'
  BY <1>19 DEF GetDecide, Named, TypeOK
<1>20. ASSUME NEW a \in Api, GetWrite(a) PROVE Named'
  BY <1>20 DEF GetWrite, Named, TypeOK
<1>21. ASSUME NEW a \in Cli, CliStart(a) PROVE Named'
  BY <1>21 DEF CliStart, Named, TypeOK
<1>22. ASSUME NEW a \in Cli, CliLock(a) PROVE Named'
  BY <1>22 DEF CliLock, Named, TypeOK
<1>23. ASSUME NEW a \in Cli, CliWork(a) PROVE Named'
  BY <1>23 DEF CliWork, Named, TypeOK
<1>24. ASSUME NEW a \in Cli, CliFenceTimeout(a) PROVE Named'
  BY <1>24 DEF CliFenceTimeout, Named, TypeOK
<1>25. ASSUME NEW a \in Cli, CliFenceExit(a) PROVE Named'
  BY <1>25 DEF CliFenceExit, Named, TypeOK
<1>26. ASSUME NEW a \in Cli, CliFails(a) PROVE Named'
  BY <1>26 DEF CliFails, Named, TypeOK
<1>27. ASSUME NEW a \in Cli, CliRelease(a) PROVE Named'
  BY <1>27 DEF CliRelease, Named, TypeOK
<1>28. ASSUME NEW a \in Cli, CliFinalize(a) PROVE Named'
  BY <1>28 DEF CliFinalize, Named, TypeOK
<1>29. ASSUME NEW a \in Cli, CliDies(a) PROVE Named'
  BY <1>29 DEF CliDies, Named, TypeOK
<1>30. ASSUME NEW a \in Cli, NEW x \in Actors, CliResume(a, x) PROVE Named'
  BY <1>30 DEF CliResume, Named, TypeOK
<1>31. ASSUME NEW a \in Actors, NEW e \in Endings, WorkerExits(a, e) PROVE Named'
  BY <1>31 DEF WorkerExits, Named, TypeOK
<1>32. CASE OtherEnters
  BY <1>32 DEF OtherEnters, Named, TypeOK
<1>33. CASE OtherLeaves
  BY <1>33 DEF OtherLeaves, Named, TypeOK
<1>34. CASE ServiceDies
  BY <1>34 DEF ServiceDies, Named, TypeOK
<1>35. CASE ServiceStarts
  BY <1>35 DEF ServiceStarts, Named, TypeOK
<1>36. ASSUME NEW a \in Api, PidTaken(a) PROVE Named'
  BY <1>36 DEF PidTaken, Named, TypeOK
<1>37. ASSUME NEW a \in Api, PidFreed(a) PROVE Named'
  BY <1>37 DEF PidFreed, Named, TypeOK
<1> QED
  BY <1>1, <1>2, <1>3, <1>4, <1>5, <1>6, <1>7, <1>8, <1>9, <1>10, <1>11, <1>12, <1>13, <1>14, <1>15, <1>16, <1>17, <1>18, <1>19, <1>20, <1>21, <1>22, <1>23, <1>24, <1>25, <1>26, <1>27, <1>28, <1>29, <1>30, <1>31, <1>32, <1>33, <1>34, <1>35, <1>36, <1>37
  DEF Next, Handler, Reaper, Getter, CliStep

-----------------------------------------------------------------------------
(* Success and finality                                                    *)

\* A run stays past its receipt, and keeps its id once it has begun.
LEMMA PastStays ==
  ASSUME TypeOK, Next
  PROVE  \A a \in Actors : (pc[a] \in Past => pc'[a] \in Past) /\ (pc[a] # "new" => runOf'[a] = runOf[a])
<1> USE RunsAssumption DEF Actors, world, locks, work, files, reads, Goto
<1> DEFINE Stays == \A b \in Actors : (pc[b] \in Past => pc'[b] \in Past) /\ (pc[b] # "new" => runOf'[b] = runOf[b])
<1> USE DEF Past
<1>1. ASSUME NEW a \in Api, Validate(a) PROVE Stays
  BY <1>1 DEF Validate, TypeOK
<1>2. ASSUME NEW a \in Api, TakeLock(a) PROVE Stays
  BY <1>2 DEF TakeLock, TypeOK
<1>3. ASSUME NEW a \in Api, TakeFence(a) PROVE Stays
  BY <1>3 DEF TakeFence, TypeOK
<1>4. ASSUME NEW a \in Api, FenceTimeout(a) PROVE Stays
  BY <1>4 DEF FenceTimeout, TypeOK
<1>5. ASSUME NEW a \in Api, Spawn(a) PROVE Stays
  BY <1>5 DEF Spawn, TypeOK
<1>6. ASSUME NEW a \in Api, SpawnFails(a) PROVE Stays
  BY <1>6 DEF Undo, SpawnFails, TypeOK
<1>7. ASSUME NEW a \in Api, LogsFail(a) PROVE Stays
  BY <1>7 DEF LogsFail, TypeOK
<1>8. ASSUME NEW a \in Api, WriteReceipt(a) PROVE Stays
  BY <1>8 DEF WriteReceipt, TypeOK
<1>9. ASSUME NEW a \in Api, WriteRecord(a) PROVE Stays
  BY <1>9 DEF WriteRecord, TypeOK
<1>10. ASSUME NEW a \in Api, Register(a) PROVE Stays
  BY <1>10 DEF Register, TypeOK
<1>11. ASSUME NEW a \in Api, StartFails(a) PROVE Stays
  BY <1>11 DEF Undo, StartFails, TypeOK
<1>12. ASSUME NEW a \in Api, ReapFence(a) PROVE Stays
  BY <1>12 DEF ReapFence, TypeOK
<1>13. ASSUME NEW a \in Api, ReapFinalize(a) PROVE Stays
  BY <1>13 DEF ReapFinalize, TypeOK
<1>14. ASSUME NEW a \in Api, ReapRefresh(a) PROVE Stays
  BY <1>14 DEF ReapRefresh, TypeOK
<1>15. ASSUME NEW a \in Api, ReapFails(a) PROVE Stays
  BY <1>15 DEF ReapFails, TypeOK
<1>16. ASSUME NEW a \in Api, ReapRelease(a) PROVE Stays
  BY <1>16 DEF ReapRelease, TypeOK
<1>17. ASSUME NEW a \in Api, ReapPop(a) PROVE Stays
  BY <1>17 DEF ReapPop, TypeOK
<1>18. ASSUME NEW a \in Api, GetLoad(a) PROVE Stays
  BY <1>18 DEF GetLoad, TypeOK
<1>19. ASSUME NEW a \in Api, GetDecide(a) PROVE Stays
  BY <1>19 DEF GetDecide, TypeOK
<1>20. ASSUME NEW a \in Api, GetWrite(a) PROVE Stays
  BY <1>20 DEF GetWrite, TypeOK
<1>21. ASSUME NEW a \in Cli, CliStart(a) PROVE Stays
  BY <1>21 DEF CliStart, TypeOK
<1>22. ASSUME NEW a \in Cli, CliLock(a) PROVE Stays
  BY <1>22 DEF CliLock, TypeOK
<1>23. ASSUME NEW a \in Cli, CliWork(a) PROVE Stays
  BY <1>23 DEF CliWork, TypeOK
<1>24. ASSUME NEW a \in Cli, CliFenceTimeout(a) PROVE Stays
  BY <1>24 DEF CliFenceTimeout, TypeOK
<1>25. ASSUME NEW a \in Cli, CliFenceExit(a) PROVE Stays
  BY <1>25 DEF CliFenceExit, TypeOK
<1>26. ASSUME NEW a \in Cli, CliFails(a) PROVE Stays
  BY <1>26 DEF CliFails, TypeOK
<1>27. ASSUME NEW a \in Cli, CliRelease(a) PROVE Stays
  BY <1>27 DEF CliRelease, TypeOK
<1>28. ASSUME NEW a \in Cli, CliFinalize(a) PROVE Stays
  BY <1>28 DEF CliFinalize, TypeOK
<1>29. ASSUME NEW a \in Cli, CliDies(a) PROVE Stays
  BY <1>29 DEF CliDies, TypeOK
<1>30. ASSUME NEW a \in Cli, NEW x \in Actors, CliResume(a, x) PROVE Stays
  BY <1>30 DEF CliResume, TypeOK
<1>31. ASSUME NEW a \in Actors, NEW e \in Endings, WorkerExits(a, e) PROVE Stays
  BY <1>31 DEF WorkerExits, TypeOK
<1>32. CASE OtherEnters
  BY <1>32 DEF OtherEnters, TypeOK
<1>33. CASE OtherLeaves
  BY <1>33 DEF OtherLeaves, TypeOK
<1>34. CASE ServiceDies
  BY <1>34 DEF ServiceDies, TypeOK
<1>35. CASE ServiceStarts
  BY <1>35 DEF ServiceStarts, TypeOK
<1>36. ASSUME NEW a \in Api, PidTaken(a) PROVE Stays
  BY <1>36 DEF PidTaken, TypeOK
<1>37. ASSUME NEW a \in Api, PidFreed(a) PROVE Stays
  BY <1>37 DEF PidFreed, TypeOK
<1> QED
  BY <1>1, <1>2, <1>3, <1>4, <1>5, <1>6, <1>7, <1>8, <1>9, <1>10, <1>11, <1>12, <1>13, <1>14, <1>15, <1>16, <1>17, <1>18, <1>19, <1>20, <1>21, <1>22, <1>23, <1>24, <1>25, <1>26, <1>27, <1>28, <1>29, <1>30, <1>31, <1>32, <1>33, <1>34, <1>35, <1>36, <1>37
  DEF Next, Handler, Reaper, Getter, CliStep

\* The account of a worker is closed once its run is past its receipt.
LEMMA ExitStays ==
  ASSUME TypeOK, Worked, Next
  PROVE  \A b \in Actors : pc[b] \in Past /\ worker[b] = "exited" => worker'[b] = "exited" /\ ending'[b] = ending[b]
<1> USE RunsAssumption DEF Actors, world, locks, work, files, reads, Goto
<1> DEFINE Stays == \A b \in Actors : pc[b] \in Past /\ worker[b] = "exited" => worker'[b] = "exited" /\ ending'[b] = ending[b]
<1> USE DEF Past
<1>1. ASSUME NEW a \in Api, Validate(a) PROVE Stays
  BY <1>1 DEF Validate, TypeOK, Worked
<1>2. ASSUME NEW a \in Api, TakeLock(a) PROVE Stays
  BY <1>2 DEF TakeLock, TypeOK, Worked
<1>3. ASSUME NEW a \in Api, TakeFence(a) PROVE Stays
  BY <1>3 DEF TakeFence, TypeOK, Worked
<1>4. ASSUME NEW a \in Api, FenceTimeout(a) PROVE Stays
  BY <1>4 DEF FenceTimeout, TypeOK, Worked
<1>5. ASSUME NEW a \in Api, Spawn(a) PROVE Stays
  BY <1>5 DEF Spawn, TypeOK, Worked
<1>6. ASSUME NEW a \in Api, SpawnFails(a) PROVE Stays
  BY <1>6 DEF Undo, SpawnFails, TypeOK, Worked
<1>7. ASSUME NEW a \in Api, LogsFail(a) PROVE Stays
  BY <1>7 DEF LogsFail, TypeOK, Worked
<1>8. ASSUME NEW a \in Api, WriteReceipt(a) PROVE Stays
  BY <1>8 DEF WriteReceipt, TypeOK, Worked
<1>9. ASSUME NEW a \in Api, WriteRecord(a) PROVE Stays
  BY <1>9 DEF WriteRecord, TypeOK, Worked
<1>10. ASSUME NEW a \in Api, Register(a) PROVE Stays
  BY <1>10 DEF Register, TypeOK, Worked
<1>11. ASSUME NEW a \in Api, StartFails(a) PROVE Stays
  BY <1>11 DEF Undo, StartFails, TypeOK, Worked
<1>12. ASSUME NEW a \in Api, ReapFence(a) PROVE Stays
  BY <1>12 DEF ReapFence, TypeOK, Worked
<1>13. ASSUME NEW a \in Api, ReapFinalize(a) PROVE Stays
  BY <1>13 DEF ReapFinalize, TypeOK, Worked
<1>14. ASSUME NEW a \in Api, ReapRefresh(a) PROVE Stays
  BY <1>14 DEF ReapRefresh, TypeOK, Worked
<1>15. ASSUME NEW a \in Api, ReapFails(a) PROVE Stays
  BY <1>15 DEF ReapFails, TypeOK, Worked
<1>16. ASSUME NEW a \in Api, ReapRelease(a) PROVE Stays
  BY <1>16 DEF ReapRelease, TypeOK, Worked
<1>17. ASSUME NEW a \in Api, ReapPop(a) PROVE Stays
  BY <1>17 DEF ReapPop, TypeOK, Worked
<1>18. ASSUME NEW a \in Api, GetLoad(a) PROVE Stays
  BY <1>18 DEF GetLoad, TypeOK, Worked
<1>19. ASSUME NEW a \in Api, GetDecide(a) PROVE Stays
  BY <1>19 DEF GetDecide, TypeOK, Worked
<1>20. ASSUME NEW a \in Api, GetWrite(a) PROVE Stays
  BY <1>20 DEF GetWrite, TypeOK, Worked
<1>21. ASSUME NEW a \in Cli, CliStart(a) PROVE Stays
  BY <1>21 DEF CliStart, TypeOK, Worked
<1>22. ASSUME NEW a \in Cli, CliLock(a) PROVE Stays
  BY <1>22 DEF CliLock, TypeOK, Worked
<1>23. ASSUME NEW a \in Cli, CliWork(a) PROVE Stays
  BY <1>23 DEF CliWork, TypeOK, Worked
<1>24. ASSUME NEW a \in Cli, CliFenceTimeout(a) PROVE Stays
  BY <1>24 DEF CliFenceTimeout, TypeOK, Worked
<1>25. ASSUME NEW a \in Cli, CliFenceExit(a) PROVE Stays
  BY <1>25 DEF CliFenceExit, TypeOK, Worked
<1>26. ASSUME NEW a \in Cli, CliFails(a) PROVE Stays
  BY <1>26 DEF CliFails, TypeOK, Worked
<1>27. ASSUME NEW a \in Cli, CliRelease(a) PROVE Stays
  BY <1>27 DEF CliRelease, TypeOK, Worked
<1>28. ASSUME NEW a \in Cli, CliFinalize(a) PROVE Stays
  BY <1>28 DEF CliFinalize, TypeOK, Worked
<1>29. ASSUME NEW a \in Cli, CliDies(a) PROVE Stays
  BY <1>29 DEF CliDies, TypeOK, Worked
<1>30. ASSUME NEW a \in Cli, NEW x \in Actors, CliResume(a, x) PROVE Stays
  BY <1>30 DEF CliResume, TypeOK, Worked
<1>31. ASSUME NEW a \in Actors, NEW e \in Endings, WorkerExits(a, e) PROVE Stays
  BY <1>31 DEF WorkerExits, TypeOK, Worked
<1>32. CASE OtherEnters
  BY <1>32 DEF OtherEnters, TypeOK, Worked
<1>33. CASE OtherLeaves
  BY <1>33 DEF OtherLeaves, TypeOK, Worked
<1>34. CASE ServiceDies
  BY <1>34 DEF ServiceDies, TypeOK, Worked
<1>35. CASE ServiceStarts
  BY <1>35 DEF ServiceStarts, TypeOK, Worked
<1>36. ASSUME NEW a \in Api, PidTaken(a) PROVE Stays
  BY <1>36 DEF PidTaken, TypeOK, Worked
<1>37. ASSUME NEW a \in Api, PidFreed(a) PROVE Stays
  BY <1>37 DEF PidFreed, TypeOK, Worked
<1> QED
  BY <1>1, <1>2, <1>3, <1>4, <1>5, <1>6, <1>7, <1>8, <1>9, <1>10, <1>11, <1>12, <1>13, <1>14, <1>15, <1>16, <1>17, <1>18, <1>19, <1>20, <1>21, <1>22, <1>23, <1>24, <1>25, <1>26, <1>27, <1>28, <1>29, <1>30, <1>31, <1>32, <1>33, <1>34, <1>35, <1>36, <1>37
  DEF Next, Handler, Reaper, Getter, CliStep

\* A success stays one, and so does a resumption.
LEMMA SuccessStays ==
  ASSUME TypeOK, Worked, Next, NEW r \in Actors, Success(r)
  PROVE  Success(r)'
<1>1. PICK b \in Actors : /\ runOf[b] = r /\ pc[b] \in Past
                          /\ worker[b] = "exited" /\ Good(ending[b])
  BY DEF Success
<1>2. runOf'[b] = r /\ pc'[b] \in Past
  BY <1>1, PastStays DEF Past
<1>3. worker'[b] = "exited" /\ ending'[b] = ending[b]
  BY <1>1, ExitStays
<1> QED BY <1>1, <1>2, <1>3 DEF Success, Good

LEMMA ResumedStays ==
  ASSUME TypeOK, Named, Next, NEW r \in Actors, Resumed(r)
  PROVE  Resumed(r)'
<1>1. PICK c \in Cli : c # r /\ runOf[c] = r
  BY DEF Resumed
<1>2. pc[c] # "new" /\ c \in Actors
  BY <1>1 DEF Named, Actors
<1> QED BY <1>1, <1>2, PastStays DEF Resumed

\* A receipt that becomes final early was resumed.
LEMMA FinalsStep ==
  ASSUME TypeOK, Named, Finals, Next
  PROVE  Finals'
<1> USE RunsAssumption DEF Actors, world, locks, work, files, reads, Goto
<1>0. \A r \in Actors : (pc[r] \in Past => pc'[r] \in Past) /\ (Resumed(r) => Resumed(r)')
  BY PastStays, ResumedStays
<1> USE <1>0 DEF Finals
<1>1. ASSUME NEW a \in Api, Validate(a) PROVE Finals'
  BY <1>1 DEF Validate, TypeOK
<1>2. ASSUME NEW a \in Api, TakeLock(a) PROVE Finals'
  BY <1>2 DEF TakeLock, TypeOK
<1>3. ASSUME NEW a \in Api, TakeFence(a) PROVE Finals'
  BY <1>3 DEF TakeFence, TypeOK
<1>4. ASSUME NEW a \in Api, FenceTimeout(a) PROVE Finals'
  BY <1>4 DEF FenceTimeout, TypeOK
<1>5. ASSUME NEW a \in Api, Spawn(a) PROVE Finals'
  BY <1>5 DEF Spawn, TypeOK
<1>6. ASSUME NEW a \in Api, SpawnFails(a) PROVE Finals'
  BY <1>6 DEF Undo, SpawnFails, TypeOK
<1>7. ASSUME NEW a \in Api, LogsFail(a) PROVE Finals'
  BY <1>7 DEF LogsFail, TypeOK
<1>8. ASSUME NEW a \in Api, WriteReceipt(a) PROVE Finals'
  BY <1>8 DEF WriteReceipt, TypeOK
<1>9. ASSUME NEW a \in Api, WriteRecord(a) PROVE Finals'
  BY <1>9 DEF WriteRecord, TypeOK
<1>10. ASSUME NEW a \in Api, Register(a) PROVE Finals'
  BY <1>10 DEF Register, TypeOK
<1>11. ASSUME NEW a \in Api, StartFails(a) PROVE Finals'
  BY <1>11 DEF Undo, StartFails, TypeOK
<1>12. ASSUME NEW a \in Api, ReapFence(a) PROVE Finals'
  BY <1>12 DEF ReapFence, TypeOK
<1>13. ASSUME NEW a \in Api, ReapFinalize(a) PROVE Finals'
  BY <1>13 DEF ReapFinalize, Past, TypeOK
<1>14. ASSUME NEW a \in Api, ReapRefresh(a) PROVE Finals'
  BY <1>14 DEF ReapRefresh, TypeOK
<1>15. ASSUME NEW a \in Api, ReapFails(a) PROVE Finals'
  BY <1>15 DEF ReapFails, TypeOK
<1>16. ASSUME NEW a \in Api, ReapRelease(a) PROVE Finals'
  BY <1>16 DEF ReapRelease, TypeOK
<1>17. ASSUME NEW a \in Api, ReapPop(a) PROVE Finals'
  BY <1>17 DEF ReapPop, TypeOK
<1>18. ASSUME NEW a \in Api, GetLoad(a) PROVE Finals'
  BY <1>18 DEF GetLoad, TypeOK
<1>19. ASSUME NEW a \in Api, GetDecide(a) PROVE Finals'
  BY <1>19 DEF GetDecide, TypeOK
<1>20. ASSUME NEW a \in Api, GetWrite(a) PROVE Finals'
  BY <1>20 DEF GetWrite, TypeOK
<1>21. ASSUME NEW a \in Cli, CliStart(a) PROVE Finals'
  BY <1>21 DEF CliStart, TypeOK
<1>22. ASSUME NEW a \in Cli, CliLock(a) PROVE Finals'
  <2>1. CASE lock = None
    BY <1>22, <2>1 DEF CliLock, TypeOK
  <2>2. CASE lock # None
    <3>1. pc'[a] = "done" /\ a \in Actors /\ runOf' = runOf /\ runOf[a] \in Actors
          /\ \A r \in Actors : receipt'[r] # receipt[r] => r = runOf[a]
      BY <1>22, <2>2 DEF CliLock, TypeOK
    <3>2. \A r \in Actors : r = runOf[a] /\ r # a => Resumed(r)'
      BY <3>1 DEF Resumed
    <3> QED BY <3>1, <3>2 DEF Past
  <2> QED BY <2>1, <2>2
<1>23. ASSUME NEW a \in Cli, CliWork(a) PROVE Finals'
  BY <1>23 DEF CliWork, TypeOK
<1>24. ASSUME NEW a \in Cli, CliFenceTimeout(a) PROVE Finals'
  BY <1>24 DEF CliFenceTimeout, TypeOK
<1>25. ASSUME NEW a \in Cli, CliFenceExit(a) PROVE Finals'
  BY <1>25 DEF CliFenceExit, TypeOK
<1>26. ASSUME NEW a \in Cli, CliFails(a) PROVE Finals'
  BY <1>26 DEF CliFails, TypeOK
<1>27. ASSUME NEW a \in Cli, CliRelease(a) PROVE Finals'
  BY <1>27 DEF CliRelease, TypeOK
<1>28. ASSUME NEW a \in Cli, CliFinalize(a) PROVE Finals'
  <2>1. pc'[a] = "done" /\ a \in Actors /\ runOf' = runOf /\ runOf[a] \in Actors
        /\ \A r \in Actors : receipt'[r] # receipt[r] => r = runOf[a]
    BY <1>28 DEF CliFinalize, TypeOK
  <2>2. \A r \in Actors : r = runOf[a] /\ r # a => Resumed(r)'
    BY <2>1 DEF Resumed
  <2> QED BY <2>1, <2>2 DEF Past
<1>29. ASSUME NEW a \in Cli, CliDies(a) PROVE Finals'
  BY <1>29 DEF CliDies, TypeOK
<1>30. ASSUME NEW a \in Cli, NEW x \in Actors, CliResume(a, x) PROVE Finals'
  BY <1>30 DEF CliResume, TypeOK
<1>31. ASSUME NEW a \in Actors, NEW e \in Endings, WorkerExits(a, e) PROVE Finals'
  BY <1>31 DEF WorkerExits, TypeOK
<1>32. CASE OtherEnters
  BY <1>32 DEF OtherEnters, TypeOK
<1>33. CASE OtherLeaves
  BY <1>33 DEF OtherLeaves, TypeOK
<1>34. CASE ServiceDies
  BY <1>34 DEF ServiceDies, TypeOK
<1>35. CASE ServiceStarts
  BY <1>35 DEF ServiceStarts, TypeOK
<1>36. ASSUME NEW a \in Api, PidTaken(a) PROVE Finals'
  BY <1>36 DEF PidTaken, TypeOK
<1>37. ASSUME NEW a \in Api, PidFreed(a) PROVE Finals'
  BY <1>37 DEF PidFreed, TypeOK
<1> QED
  BY <1>1, <1>2, <1>3, <1>4, <1>5, <1>6, <1>7, <1>8, <1>9, <1>10, <1>11, <1>12, <1>13, <1>14, <1>15, <1>16, <1>17, <1>18, <1>19, <1>20, <1>21, <1>22, <1>23, <1>24, <1>25, <1>26, <1>27, <1>28, <1>29, <1>30, <1>31, <1>32, <1>33, <1>34, <1>35, <1>36, <1>37
  DEF Next, Handler, Reaper, Getter, CliStep

\* A success that is recorded has its worker.
LEMMA TruthfulStep ==
  ASSUME TypeOK, Worked, Named, Truthful, Next
  PROVE  Truthful'
<1> USE RunsAssumption DEF Actors, world, locks, work, files, reads, Goto
<1>0. \A r \in Actors : Success(r) => Success(r)'
  BY SuccessStays
<1> USE <1>0 DEF Truthful
<1>1. ASSUME NEW a \in Api, Validate(a) PROVE Truthful'
  BY <1>1 DEF Validate, TypeOK
<1>2. ASSUME NEW a \in Api, TakeLock(a) PROVE Truthful'
  BY <1>2 DEF TakeLock, TypeOK
<1>3. ASSUME NEW a \in Api, TakeFence(a) PROVE Truthful'
  BY <1>3 DEF TakeFence, TypeOK
<1>4. ASSUME NEW a \in Api, FenceTimeout(a) PROVE Truthful'
  BY <1>4 DEF FenceTimeout, TypeOK
<1>5. ASSUME NEW a \in Api, Spawn(a) PROVE Truthful'
  BY <1>5 DEF Spawn, TypeOK
<1>6. ASSUME NEW a \in Api, SpawnFails(a) PROVE Truthful'
  BY <1>6 DEF Undo, SpawnFails, TypeOK
<1>7. ASSUME NEW a \in Api, LogsFail(a) PROVE Truthful'
  BY <1>7 DEF LogsFail, TypeOK
<1>8. ASSUME NEW a \in Api, WriteReceipt(a) PROVE Truthful'
  BY <1>8 DEF WriteReceipt, TypeOK
<1>9. ASSUME NEW a \in Api, WriteRecord(a) PROVE Truthful'
  BY <1>9 DEF WriteRecord, TypeOK
<1>10. ASSUME NEW a \in Api, Register(a) PROVE Truthful'
  BY <1>10 DEF Register, TypeOK
<1>11. ASSUME NEW a \in Api, StartFails(a) PROVE Truthful'
  BY <1>11 DEF Undo, StartFails, TypeOK
<1>12. ASSUME NEW a \in Api, ReapFence(a) PROVE Truthful'
  BY <1>12 DEF ReapFence, TypeOK
<1>13. ASSUME NEW a \in Api, ReapFinalize(a) PROVE Truthful'
  <2>1. /\ a \in Actors /\ runOf' = runOf /\ runOf[a] \in Actors /\ pc'[a] = "refresh"
        /\ worker' = worker /\ ending' = ending /\ record' = record /\ value' = value
        /\ receipt' = [receipt EXCEPT ![runOf[a]] = Verdict(ending[a])]
    BY <1>13 DEF ReapFinalize, TypeOK, Named
  <2>2. worker[a] = "exited" /\ ending[a] \in Ending
    BY <1>13 DEF ReapFinalize, Worked
  <2>3. PICK r \in Actors : r = runOf[a]
    BY <2>1
  <2>4. Verdict(ending[a]) = "succeeded" => Success(r)'
    <3> SUFFICES ASSUME Verdict(ending[a]) = "succeeded" PROVE Success(r)'
      OBVIOUS
    <3>1. Good(ending[a]) /\ Good(ending[a])'
      BY <2>1, <2>2, VerdictType DEF Good
    <3>2. runOf'[a] = r /\ pc'[a] \in Past /\ worker'[a] = "exited"
      BY <2>1, <2>2, <2>3 DEF Past
    <3> QED BY <2>1, <3>1, <3>2 DEF Success
  <2> QED BY <2>1, <2>3, <2>4 DEF TypeOK
<1>14. ASSUME NEW a \in Api, ReapRefresh(a) PROVE Truthful'
  BY <1>14 DEF ReapRefresh, TypeOK
<1>15. ASSUME NEW a \in Api, ReapFails(a) PROVE Truthful'
  BY <1>15 DEF ReapFails, TypeOK
<1>16. ASSUME NEW a \in Api, ReapRelease(a) PROVE Truthful'
  BY <1>16 DEF ReapRelease, TypeOK
<1>17. ASSUME NEW a \in Api, ReapPop(a) PROVE Truthful'
  BY <1>17 DEF ReapPop, TypeOK
<1>18. ASSUME NEW a \in Api, GetLoad(a) PROVE Truthful'
  BY <1>18 DEF GetLoad, Merged, TypeOK
<1>19. ASSUME NEW a \in Api, GetDecide(a) PROVE Truthful'
  BY <1>19 DEF GetDecide, Decided, TypeOK
<1>20. ASSUME NEW a \in Api, GetWrite(a) PROVE Truthful'
  BY <1>20 DEF GetWrite, TypeOK
<1>21. ASSUME NEW a \in Cli, CliStart(a) PROVE Truthful'
  BY <1>21 DEF CliStart, TypeOK
<1>22. ASSUME NEW a \in Cli, CliLock(a) PROVE Truthful'
  BY <1>22 DEF CliLock, TypeOK
<1>23. ASSUME NEW a \in Cli, CliWork(a) PROVE Truthful'
  BY <1>23 DEF CliWork, TypeOK
<1>24. ASSUME NEW a \in Cli, CliFenceTimeout(a) PROVE Truthful'
  BY <1>24 DEF CliFenceTimeout, TypeOK
<1>25. ASSUME NEW a \in Cli, CliFenceExit(a) PROVE Truthful'
  BY <1>25 DEF CliFenceExit, TypeOK
<1>26. ASSUME NEW a \in Cli, CliFails(a) PROVE Truthful'
  BY <1>26 DEF CliFails, TypeOK
<1>27. ASSUME NEW a \in Cli, CliRelease(a) PROVE Truthful'
  BY <1>27 DEF CliRelease, TypeOK
<1>28. ASSUME NEW a \in Cli, CliFinalize(a) PROVE Truthful'
  <2>1. /\ a \in Actors /\ runOf' = runOf /\ runOf[a] \in Actors /\ pc'[a] = "done"
        /\ worker' = worker /\ ending' = ending /\ record' = record /\ value' = value
        /\ receipt' = [receipt EXCEPT ![runOf[a]] = Verdict(ending[a])]
    BY <1>28 DEF CliFinalize, TypeOK, Named
  <2>2. worker[a] = "exited" /\ ending[a] \in Ending
    BY <1>28 DEF CliFinalize, Worked
  <2>3. PICK r \in Actors : r = runOf[a]
    BY <2>1
  <2>4. Verdict(ending[a]) = "succeeded" => Success(r)'
    <3> SUFFICES ASSUME Verdict(ending[a]) = "succeeded" PROVE Success(r)'
      OBVIOUS
    <3>1. Good(ending[a]) /\ Good(ending[a])'
      BY <2>1, <2>2, VerdictType DEF Good
    <3>2. runOf'[a] = r /\ pc'[a] \in Past /\ worker'[a] = "exited"
      BY <2>1, <2>2, <2>3 DEF Past
    <3> QED BY <2>1, <3>1, <3>2 DEF Success
  <2> QED BY <2>1, <2>3, <2>4 DEF TypeOK
<1>29. ASSUME NEW a \in Cli, CliDies(a) PROVE Truthful'
  BY <1>29 DEF CliDies, TypeOK
<1>30. ASSUME NEW a \in Cli, NEW x \in Actors, CliResume(a, x) PROVE Truthful'
  BY <1>30 DEF CliResume, TypeOK
<1>31. ASSUME NEW a \in Actors, NEW e \in Endings, WorkerExits(a, e) PROVE Truthful'
  BY <1>31 DEF WorkerExits, TypeOK
<1>32. CASE OtherEnters
  BY <1>32 DEF OtherEnters, TypeOK
<1>33. CASE OtherLeaves
  BY <1>33 DEF OtherLeaves, TypeOK
<1>34. CASE ServiceDies
  BY <1>34 DEF ServiceDies, TypeOK
<1>35. CASE ServiceStarts
  BY <1>35 DEF ServiceStarts, Decided, Merged, TypeOK
<1>36. ASSUME NEW a \in Api, PidTaken(a) PROVE Truthful'
  BY <1>36 DEF PidTaken, TypeOK
<1>37. ASSUME NEW a \in Api, PidFreed(a) PROVE Truthful'
  BY <1>37 DEF PidFreed, TypeOK
<1> QED
  BY <1>1, <1>2, <1>3, <1>4, <1>5, <1>6, <1>7, <1>8, <1>9, <1>10, <1>11, <1>12, <1>13, <1>14, <1>15, <1>16, <1>17, <1>18, <1>19, <1>20, <1>21, <1>22, <1>23, <1>24, <1>25, <1>26, <1>27, <1>28, <1>29, <1>30, <1>31, <1>32, <1>33, <1>34, <1>35, <1>36, <1>37
  DEF Next, Handler, Reaper, Getter, CliStep

\* A final receipt changes only for a run that was resumed.
LEMMA FinalStep ==
  ASSUME TypeOK, Named, Finals, Next
  PROVE  \A r \in Actors : receipt[r] \in Terminal => receipt'[r] = receipt[r] \/ Resumed(r)'
<1> USE RunsAssumption DEF Actors, world, locks, work, files, reads, Goto
<1> DEFINE Final == \A r \in Actors : receipt[r] \in Terminal => receipt'[r] = receipt[r] \/ Resumed(r)'
<1>0. \A r \in Actors : Resumed(r) => Resumed(r)'
  BY ResumedStays
<1> USE <1>0 DEF Finals, Past
<1>1. ASSUME NEW a \in Api, Validate(a) PROVE Final
  BY <1>1 DEF Validate, TypeOK
<1>2. ASSUME NEW a \in Api, TakeLock(a) PROVE Final
  BY <1>2 DEF TakeLock, TypeOK
<1>3. ASSUME NEW a \in Api, TakeFence(a) PROVE Final
  BY <1>3 DEF TakeFence, TypeOK
<1>4. ASSUME NEW a \in Api, FenceTimeout(a) PROVE Final
  BY <1>4 DEF FenceTimeout, TypeOK
<1>5. ASSUME NEW a \in Api, Spawn(a) PROVE Final
  BY <1>5 DEF Spawn, TypeOK
<1>6. ASSUME NEW a \in Api, SpawnFails(a) PROVE Final
  BY <1>6 DEF Undo, SpawnFails, TypeOK
<1>7. ASSUME NEW a \in Api, LogsFail(a) PROVE Final
  BY <1>7 DEF LogsFail, TypeOK
<1>8. ASSUME NEW a \in Api, WriteReceipt(a) PROVE Final
  BY <1>8 DEF WriteReceipt, TypeOK
<1>9. ASSUME NEW a \in Api, WriteRecord(a) PROVE Final
  BY <1>9 DEF WriteRecord, TypeOK
<1>10. ASSUME NEW a \in Api, Register(a) PROVE Final
  BY <1>10 DEF Register, TypeOK
<1>11. ASSUME NEW a \in Api, StartFails(a) PROVE Final
  BY <1>11 DEF Undo, StartFails, TypeOK
<1>12. ASSUME NEW a \in Api, ReapFence(a) PROVE Final
  BY <1>12 DEF ReapFence, TypeOK
<1>13. ASSUME NEW a \in Api, ReapFinalize(a) PROVE Final
  BY <1>13 DEF ReapFinalize, TypeOK
<1>14. ASSUME NEW a \in Api, ReapRefresh(a) PROVE Final
  BY <1>14 DEF ReapRefresh, TypeOK
<1>15. ASSUME NEW a \in Api, ReapFails(a) PROVE Final
  BY <1>15 DEF ReapFails, TypeOK
<1>16. ASSUME NEW a \in Api, ReapRelease(a) PROVE Final
  BY <1>16 DEF ReapRelease, TypeOK
<1>17. ASSUME NEW a \in Api, ReapPop(a) PROVE Final
  BY <1>17 DEF ReapPop, TypeOK
<1>18. ASSUME NEW a \in Api, GetLoad(a) PROVE Final
  BY <1>18 DEF GetLoad, TypeOK
<1>19. ASSUME NEW a \in Api, GetDecide(a) PROVE Final
  BY <1>19 DEF GetDecide, TypeOK
<1>20. ASSUME NEW a \in Api, GetWrite(a) PROVE Final
  BY <1>20 DEF GetWrite, TypeOK
<1>21. ASSUME NEW a \in Cli, CliStart(a) PROVE Final
  BY <1>21 DEF CliStart, TypeOK
<1>22. ASSUME NEW a \in Cli, CliLock(a) PROVE Final
  <2>1. a \in Actors /\ runOf' = runOf /\ runOf[a] \in Actors /\ pc[a] \notin Past
        /\ \A r \in Actors : receipt'[r] # receipt[r] => r = runOf[a]
    BY <1>22 DEF CliLock, TypeOK
  <2>2. \A r \in Actors : r = runOf[a] /\ r # a => Resumed(r)'
    BY <2>1 DEF Resumed
  <2> QED BY <2>1, <2>2
<1>23. ASSUME NEW a \in Cli, CliWork(a) PROVE Final
  BY <1>23 DEF CliWork, TypeOK
<1>24. ASSUME NEW a \in Cli, CliFenceTimeout(a) PROVE Final
  BY <1>24 DEF CliFenceTimeout, TypeOK
<1>25. ASSUME NEW a \in Cli, CliFenceExit(a) PROVE Final
  BY <1>25 DEF CliFenceExit, TypeOK
<1>26. ASSUME NEW a \in Cli, CliFails(a) PROVE Final
  BY <1>26 DEF CliFails, TypeOK
<1>27. ASSUME NEW a \in Cli, CliRelease(a) PROVE Final
  BY <1>27 DEF CliRelease, TypeOK
<1>28. ASSUME NEW a \in Cli, CliFinalize(a) PROVE Final
  <2>1. a \in Actors /\ runOf' = runOf /\ runOf[a] \in Actors /\ pc[a] \notin Past
        /\ \A r \in Actors : receipt'[r] # receipt[r] => r = runOf[a]
    BY <1>28 DEF CliFinalize, TypeOK
  <2>2. \A r \in Actors : r = runOf[a] /\ r # a => Resumed(r)'
    BY <2>1 DEF Resumed
  <2> QED BY <2>1, <2>2
<1>29. ASSUME NEW a \in Cli, CliDies(a) PROVE Final
  BY <1>29 DEF CliDies, TypeOK
<1>30. ASSUME NEW a \in Cli, NEW x \in Actors, CliResume(a, x) PROVE Final
  BY <1>30 DEF CliResume, Resumed, TypeOK
<1>31. ASSUME NEW a \in Actors, NEW e \in Endings, WorkerExits(a, e) PROVE Final
  BY <1>31 DEF WorkerExits, TypeOK
<1>32. CASE OtherEnters
  BY <1>32 DEF OtherEnters, TypeOK
<1>33. CASE OtherLeaves
  BY <1>33 DEF OtherLeaves, TypeOK
<1>34. CASE ServiceDies
  BY <1>34 DEF ServiceDies, TypeOK
<1>35. CASE ServiceStarts
  BY <1>35 DEF ServiceStarts, TypeOK
<1>36. ASSUME NEW a \in Api, PidTaken(a) PROVE Final
  BY <1>36 DEF PidTaken, TypeOK
<1>37. ASSUME NEW a \in Api, PidFreed(a) PROVE Final
  BY <1>37 DEF PidFreed, TypeOK
<1> QED
  BY <1>1, <1>2, <1>3, <1>4, <1>5, <1>6, <1>7, <1>8, <1>9, <1>10, <1>11, <1>12, <1>13, <1>14, <1>15, <1>16, <1>17, <1>18, <1>19, <1>20, <1>21, <1>22, <1>23, <1>24, <1>25, <1>26, <1>27, <1>28, <1>29, <1>30, <1>31, <1>32, <1>33, <1>34, <1>35, <1>36, <1>37
  DEF Next, Handler, Reaper, Getter, CliStep

-----------------------------------------------------------------------------
(* Theorems                                                                *)

LEMMA StepIInv == IInv /\ [Next]_vars => IInv'
<1> SUFFICES ASSUME IInv, [Next]_vars PROVE IInv'
  OBVIOUS
<1>1. CASE Next
  BY <1>1, TypeStep, HeldStep, WorkedStep, NamedStep, FinalsStep, TruthfulStep DEF IInv
<1>2. CASE UNCHANGED vars
  <2>1. TypeOK' /\ Held' /\ Worked' /\ Named'
    BY <1>2 DEF IInv, vars, TypeOK, Held, Worked, Named
  <2>2. Finals' /\ Truthful'
    BY <1>2 DEF IInv, vars, Finals, Truthful, Resumed, Success
  <2> QED BY <2>1, <2>2 DEF IInv
<1> QED BY <1>1, <1>2

THEOREM Invariance == Spec => []IInv
BY InitIInv, StepIInv, PTL DEF Spec

\* Files, locks and threads keep their shape.
THEOREM TypeCorrect == Spec => []TypeOK
<1>1. IInv => TypeOK
  BY DEF IInv
<1> QED BY Invariance, <1>1, PTL

\* A recorded success stands for a worker that ended well, however resumes, reaper,
\* GETs and restarts interleave.
THEOREM SuccessIsTrue == Spec => []NoFalseSuccess
<1>1. IInv => NoFalseSuccess
  <2>1. [rc |-> 0, claim |-> "", outputs |-> TRUE] \in Ending
    BY DEF Ending
  <2> QED BY <2>1, RunsAssumption DEF IInv, Truthful, Success, Good, NoFalseSuccess, Actors
<1> QED BY Invariance, <1>1, PTL

\* A worker whose owner lives works under its declared lock and the fence.
THEOREM WorkIsFenced == Spec => []AttendedWorkIsFenced
<1>1. IInv => AttendedWorkIsFenced
  <2> SUFFICES ASSUME IInv, NEW a \in Actors, worker[a] = "running", Attended(a)
               PROVE  fence = a /\ lock = a
    BY DEF AttendedWorkIsFenced
  <2>1. pc[a] \in {"receipt", "record", "register", "wait", "cliWait"}
    BY DEF IInv, TypeOK, Worked, Attended
  <2> QED BY <2>1 DEF IInv, Held, InLock, InFence
<1> QED BY Invariance, <1>1, PTL

\* A receipt is final, unless somebody resumes the run by hand.
THEOREM FinalsStay == Spec => FinalUnlessResumed
<1> DEFINE Final == \A r \in Actors : receipt[r] \in Terminal =>
             receipt'[r] = receipt[r] \/ \E a \in Cli : a # r /\ runOf'[a] = r
<1>1. IInv /\ [Next]_vars => [Final]_vars
  <2> SUFFICES ASSUME IInv, Next PROVE Final
    BY DEF vars
  <2>1. \A r \in Actors : Resumed(r)' <=> \E a \in Cli : a # r /\ runOf'[a] = r
    BY DEF Resumed
  <2> QED BY <2>1, FinalStep DEF IInv
<1>2. [][Final]_vars => FinalUnlessResumed
  BY DEF FinalUnlessResumed
<1> QED BY Invariance, <1>1, <1>2, PTL DEF Spec

\* Lock and fence come back on every path but three of the POST handler: an error
\* on entering the fence, on opening the log files, and on leaving the fence while
\* a failed start is undone.
THEOREM NothingElseLeaks == Spec => []NoOtherLeak
<1>1. IInv => NoOtherLeak
  BY DEF IInv, Held, NoOtherLeak, Attended, InLock, InFence
<1> QED BY Invariance, <1>1, PTL

=============================================================================
