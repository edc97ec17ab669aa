--------------------------- MODULE OperationRuns ----------------------------
(***************************************************************************)
(* The lifecycle of operation runs, from the framework CLI                 *)
(* (src/src/okengine/operations/run.py and framework.py) and from the      *)
(* asynchronous runner service (src/okengine-operations/app.py).           *)
(*                                                                         *)
(* A run has a receipt (runs/<op>/<run>.json), the engine's account of it; *)
(* a run started over HTTP also has a request record that a client polls.  *)
(* All runs here declare the same resource lock and share the corpus       *)
(* fence; both are plain mutexes in this module (OperationLocks and        *)
(* CorpusTransaction model them in detail).                                *)
(*                                                                         *)
(* The service starts runs on its event loop, one POST handler at a time;  *)
(* each run then has a reaper thread, and GETs run in worker threads       *)
(* beside them.  `refresh` reads the receipt, decides and writes the       *)
(* record in separate steps.  The service or a CLI may be killed at any    *)
(* time: the kernel drops its locks, its workers go on (they are in a      *)
(* session of their own), and the service restarts with nothing tracked.   *)
(* A worker is known to a restarted service by its pid number alone, which *)
(* another process may have by then.                                       *)
(***************************************************************************)
EXTENDS Naturals, FiniteSets

CONSTANTS
  Api,          \* runs started by POST /operations/{name}/run
  Cli,          \* runs started by `framework operations run` or `resume`
  Other,        \* any other governed writer or reader of the corpus
  Endings,      \* the ways a worker may end, see Ending
  None,
  MaxCrashes    \* bound: kills of the service or of a CLI process

Actors   == Api \cup Cli
Terminal == {"succeeded", "degraded", "failed", "canceled"}

\* How a worker may end: exit code, the status on its last output line (empty
\* when it printed none) and whether the declared outputs exist.
Ending == [rc : {0, 1}, claim : {"", "degraded", "failed"}, outputs : BOOLEAN]

ASSUME RunsAssumption ==
  /\ Api \cap Cli = {} /\ Endings \subseteq Ending
  /\ None \notin Actors \cup Ending \cup Terminal \cup {"running"}
  /\ Other \notin Actors /\ Other # None
  /\ MaxCrashes \in Nat

VARIABLES
  up,        \* the service is running
  pc,        \* actor -> its POST handler, reaper or CLI process
  runOf,     \* actor -> the run id it works for (a resume reuses one)
  lock,      \* the declared resource lock: holder or None
  fence,     \* the corpus fence: holder or None
  worker,    \* actor -> "none", "running" or "exited"
  ending,    \* actor -> how its worker ended, or None
  taken,     \* requests whose worker's pid number is some other process's now
  receipt,   \* run id -> status of the engine's receipt, or None
  record,    \* request -> status of the request record, or None
  tracked,   \* requests in _PROCESSES
  get,       \* request -> where a GET of it is
  value,     \* request -> the status that GET (or the reaper) is holding
  dropped,   \* requests whose handler raised before it released the locks
  crashes

world  == <<up, crashes>>
locks  == <<lock, fence, dropped>>
work   == <<worker, ending, taken>>
files  == <<receipt, record>>
reads  == <<get, value>>
vars   == <<up, pc, runOf, lock, fence, worker, ending, taken, receipt,
            record, tracked, get, value, dropped, crashes>>

-----------------------------------------------------------------------------
(* Verdicts and processes                                                  *)

\* Mutant of Verdict: an exit code of zero is a success.
VerdictByExitCode(e) == IF e.rc = 0 THEN "succeeded" ELSE "failed"

\* Mutant of Verdict: whatever the worker claimed, unless it succeeded.
VerdictEchoes(e) == IF e.rc = 0 /\ e.outputs THEN "succeeded" ELSE e.claim

\* finalize(): the worker's own claim can only downgrade, and a success
\* without its declared outputs is a degraded run.
Verdict(e) ==
  CASE e.rc # 0 \/ e.claim # "" -> IF e.claim # "" THEN e.claim ELSE "failed"
    [] OTHER -> IF e.outputs THEN "succeeded" ELSE "degraded"

\* A mutex after the processes in S are gone.
Free(m, S) == IF m \in S THEN None ELSE m

Goto(a, l) == pc' = [pc EXCEPT ![a] = l]

\* The steps of run_operation() after its last await: the event loop serves
\* nobody else meanwhile.
OnLoop == {"lock", "fence", "spawn", "receipt", "record", "register"}
LoopFree == \A a \in Api : pc[a] \notin OnLoop

\* pid_alive(): it asks about the number in the record, so it also says alive
\* of whatever other process has been given the number since.
PidAlive(a) == worker[a] = "running" \/ a \in taken

Init ==
  /\ up = TRUE /\ crashes = 0
  /\ pc = [a \in Actors |-> "new"]
  /\ runOf = [a \in Actors |-> a]
  /\ lock = None /\ fence = None /\ dropped = {}
  /\ worker = [a \in Actors |-> "none"] /\ ending = [a \in Actors |-> None]
  /\ taken = {}
  /\ receipt = [a \in Actors |-> None] /\ record = [a \in Api |-> None]
  /\ tracked = {}
  /\ get = [a \in Api |-> "idle"] /\ value = [a \in Api |-> None]

-----------------------------------------------------------------------------
(* POST /operations/{name}/run                                             *)

\* The plan is recomputed and its digest matches (a mismatch is a 409 that
\* changes nothing).
Validate(a) ==
  /\ up /\ pc[a] = "new" /\ LoopFree
  /\ Goto(a, "lock")
  /\ UNCHANGED <<world, runOf, locks, work, files, tracked, reads>>

\* acquire_lockset(): taken, or 409.
TakeLock(a) ==
  /\ pc[a] = "lock"
  /\ IF lock = None THEN lock' = a /\ Goto(a, "fence")
     ELSE UNCHANGED lock /\ Goto(a, "done")
  /\ UNCHANGED <<world, runOf, fence, dropped, work, files, tracked, reads>>

\* corpus_context.__enter__() succeeds.
TakeFence(a) ==
  /\ pc[a] = "fence" /\ fence = None
  /\ fence' = a
  /\ Goto(a, "spawn")
  /\ UNCHANGED <<world, runOf, lock, dropped, work, files, tracked, reads>>

\* ... or raises, outside of any try: CorpusLockTimeout, or an I/O error of the
\* recovery that entering begins with.
FenceTimeout(a) ==
  /\ pc[a] = "fence"
  /\ dropped' = dropped \cup {a}
  /\ Goto(a, "done")
  /\ UNCHANGED <<world, runOf, lock, fence, work, files, tracked, reads>>

\* subprocess.Popen().
Spawn(a) ==
  /\ pc[a] = "spawn"
  /\ worker' = [worker EXCEPT ![a] = "running"]
  /\ Goto(a, "receipt")
  /\ UNCHANGED <<world, runOf, locks, ending, taken, files, tracked, reads>>

\* The way out of a failed start: leave the fence, then release the locks.
\* Leaving finishes the corpus transaction, which may raise: the fence is
\* unlocked all the same, but release() is not reached.
Undo(a) ==
  /\ fence' = None
  /\ \/ lock' = None /\ UNCHANGED dropped
     \/ dropped' = dropped \cup {a} /\ UNCHANGED lock

\* Popen raises.
SpawnFails(a) ==
  /\ pc[a] = "spawn"
  /\ Undo(a)
  /\ Goto(a, "done")
  /\ UNCHANGED <<world, runOf, work, files, tracked, reads>>

\* Opening the worker's log files raises, outside of any try: the abandoned
\* mutation() generator leaves the fence when it is collected, the locks stay.
LogsFail(a) ==
  /\ pc[a] = "spawn"
  /\ fence' = None
  /\ dropped' = dropped \cup {a}
  /\ Goto(a, "done")
  /\ UNCHANGED <<world, runOf, lock, work, files, tracked, reads>>

\* initial_receipt().
WriteReceipt(a) ==
  /\ pc[a] = "receipt"
  /\ receipt' = [receipt EXCEPT ![a] = "running"]
  /\ Goto(a, "record")
  /\ UNCHANGED <<world, runOf, locks, work, record, tracked, reads>>

\* atomic_json() of the request record.
WriteRecord(a) ==
  /\ pc[a] = "record"
  /\ record' = [record EXCEPT ![a] = "running"]
  /\ Goto(a, "register")
  /\ UNCHANGED <<world, runOf, locks, work, receipt, tracked, reads>>

\* _PROCESSES[request_id] = process, and the reaper thread starts.
Register(a) ==
  /\ pc[a] = "register"
  /\ tracked' = tracked \cup {a}
  /\ Goto(a, "wait")
  /\ UNCHANGED <<world, runOf, locks, work, files, reads>>

\* Mutant of StartFails: abort_start() forgets the locks.
StartFailsLeaky(a) ==
  /\ pc[a] \in {"receipt", "record", "register"}
  /\ worker' = [worker EXCEPT ![a] = "exited"]
  /\ ending' = [ending EXCEPT ![a] = [rc |-> 1, claim |-> "", outputs |-> FALSE]]
  /\ fence' = None
  /\ Goto(a, "done")
  /\ UNCHANGED <<world, runOf, lock, dropped, taken, files, tracked, reads>>

\* Writing the receipt, the record or starting the thread raises:
\* abort_start() kills the worker and undoes the rest.
StartFails(a) ==
  /\ pc[a] \in {"receipt", "record", "register"}
  /\ worker' = [worker EXCEPT ![a] = "exited"]
  /\ ending' = [ending EXCEPT ![a] = [rc |-> 1, claim |-> "", outputs |-> FALSE]]
  /\ Undo(a)
  /\ Goto(a, "done")
  /\ UNCHANGED <<world, runOf, taken, files, tracked, reads>>

-----------------------------------------------------------------------------
(* reap(): one thread per started request                                  *)

\* Mutant of ReapFence: does not wait for the process.
ReapFenceEarly(a) ==
  /\ pc[a] = "wait"
  /\ fence' = None
  /\ Goto(a, "finalize")
  /\ UNCHANGED <<world, runOf, lock, dropped, work, files, tracked, reads>>

\* process.wait() returns; the corpus transaction is finished.
ReapFence(a) ==
  /\ pc[a] = "wait" /\ worker[a] = "exited"
  /\ fence' = None
  /\ Goto(a, "finalize")
  /\ UNCHANGED <<world, runOf, lock, dropped, work, files, tracked, reads>>

\* finalize() writes the terminal receipt.
ReapFinalize(a) ==
  /\ pc[a] = "finalize"
  /\ receipt' = [receipt EXCEPT ![a] = Verdict(ending[a])]
  /\ Goto(a, "refresh")
  /\ UNCHANGED <<world, runOf, locks, work, record, tracked, reads>>

\* Its own refresh(): the request is still tracked, so the receipt decides.
ReapRefresh(a) ==
  /\ pc[a] = "refresh"
  /\ record' = [record EXCEPT ![a] = receipt[a]]
  /\ Goto(a, "release")
  /\ UNCHANGED <<world, runOf, locks, work, receipt, tracked, reads>>

\* Finishing the transaction or the receipt raises: only the finally clause
\* is left (mutation() itself unlocks the fence in its own).
ReapFails(a) ==
  /\ pc[a] = "finalize" \/ (pc[a] = "wait" /\ worker[a] = "exited")
  /\ fence' = Free(fence, {a})
  /\ Goto(a, "release")
  /\ UNCHANGED <<world, runOf, lock, dropped, work, files, tracked, reads>>

\* The finally clause: release the locks, then leave _PROCESSES.
ReapRelease(a) ==
  /\ pc[a] = "release"
  /\ lock' = None
  /\ Goto(a, "pop")
  /\ UNCHANGED <<world, runOf, fence, dropped, work, files, tracked, reads>>

ReapPop(a) ==
  /\ pc[a] = "pop"
  /\ tracked' = tracked \ {a}
  /\ Goto(a, "done")
  /\ UNCHANGED <<world, runOf, locks, work, files, reads>>

-----------------------------------------------------------------------------
(* GET /operations/requests/{id}: load_request() and refresh()             *)

\* refresh(), first half: the receipt's status replaces the record's.
Merged(a) == IF receipt[a] # None THEN receipt[a] ELSE record[a]

\* Mutant of Decided: the liveness of the pid is not consulted.
DecidedNever(a, s) == s

\* refresh(), second half: a dead worker that nobody tracks is a failed run.
Decided(a, s) ==
  IF s \notin Terminal /\ a \notin tracked /\ ~PidAlive(a) THEN "failed" ELSE s

GetLoad(a) ==
  /\ up /\ get[a] = "idle" /\ record[a] # None /\ LoopFree
  /\ get' = [get EXCEPT ![a] = "loaded"]
  /\ value' = [value EXCEPT ![a] = Merged(a)]
  /\ UNCHANGED <<world, pc, runOf, locks, work, files, tracked>>

GetDecide(a) ==
  /\ get[a] = "loaded"
  /\ get' = [get EXCEPT ![a] = "decided"]
  /\ value' = [value EXCEPT ![a] = Decided(a, value[a])]
  /\ UNCHANGED <<world, pc, runOf, locks, work, files, tracked>>

\* Mutant of GetWrite: the receipt is brought in line as well.
GetWriteBoth(a) ==
  /\ get[a] = "decided"
  /\ record' = [record EXCEPT ![a] = value[a]]
  /\ receipt' = [receipt EXCEPT ![a] = value[a]]
  /\ get' = [get EXCEPT ![a] = "idle"]
  /\ value' = [value EXCEPT ![a] = None]
  /\ UNCHANGED <<world, pc, runOf, locks, work, tracked>>

GetWrite(a) ==
  /\ get[a] = "decided"
  /\ record' = [record EXCEPT ![a] = value[a]]
  /\ get' = [get EXCEPT ![a] = "idle"]
  /\ value' = [value EXCEPT ![a] = None]
  /\ UNCHANGED <<world, pc, runOf, locks, work, receipt, tracked>>

-----------------------------------------------------------------------------
(* framework operations run | resume                                       *)

\* run(): the receipt is written before anything is locked.
CliStart(a) ==
  /\ pc[a] = "new"
  /\ receipt' = [receipt EXCEPT ![a] = "running"]
  /\ Goto(a, "cliLock")
  /\ UNCHANGED <<world, runOf, locks, work, record, tracked, reads>>

\* resume: the same run id and receipt, whatever the receipt says now.
CliResume(a, r) ==
  /\ pc[a] = "new" /\ r # a /\ receipt[r] # None
  /\ runOf' = [runOf EXCEPT ![a] = r]
  /\ receipt' = [receipt EXCEPT ![r] = "running"]
  /\ Goto(a, "cliLock")
  /\ UNCHANGED <<world, locks, work, record, tracked, reads>>

\* acquire_locks(): taken, or the receipt says failed.
CliLock(a) ==
  /\ pc[a] = "cliLock"
  /\ IF lock = None
       THEN lock' = a /\ Goto(a, "cliFence") /\ UNCHANGED receipt
       ELSE /\ receipt' = [receipt EXCEPT ![runOf[a]] = "failed"]
            /\ Goto(a, "done") /\ UNCHANGED lock
  /\ UNCHANGED <<world, runOf, fence, dropped, work, record, tracked, reads>>

\* mutation() entered, worker started.
CliWork(a) ==
  /\ pc[a] = "cliFence" /\ fence = None
  /\ fence' = a
  /\ worker' = [worker EXCEPT ![a] = "running"]
  /\ Goto(a, "cliWait")
  /\ UNCHANGED <<world, runOf, lock, dropped, ending, taken, files, tracked, reads>>

\* CorpusLockTimeout, or an I/O error of the recovery, is no OperationRunError:
\* the locks are released, the receipt stays as it is, main() reports the error.
CliFenceTimeout(a) ==
  /\ pc[a] = "cliFence"
  /\ lock' = None
  /\ Goto(a, "done")
  /\ UNCHANGED <<world, runOf, fence, dropped, work, files, tracked, reads>>

\* subprocess.run() returns; fence and locks are left in turn.
CliFenceExit(a) ==
  /\ pc[a] = "cliWait" /\ worker[a] = "exited"
  /\ fence' = None
  /\ Goto(a, "cliRelease")
  /\ UNCHANGED <<world, runOf, lock, dropped, work, files, tracked, reads>>

\* Finishing the transaction raises: both with-blocks unwind, the receipt
\* stays as it is.
CliFails(a) ==
  /\ pc[a] = "cliWait" /\ worker[a] = "exited"
  /\ fence' = None /\ lock' = None
  /\ Goto(a, "done")
  /\ UNCHANGED <<world, runOf, dropped, work, files, tracked, reads>>

CliRelease(a) ==
  /\ pc[a] = "cliRelease"
  /\ lock' = None
  /\ Goto(a, "cliFinalize")
  /\ UNCHANGED <<world, runOf, fence, dropped, work, files, tracked, reads>>

CliFinalize(a) ==
  /\ pc[a] = "cliFinalize"
  /\ receipt' = [receipt EXCEPT ![runOf[a]] = Verdict(ending[a])]
  /\ Goto(a, "done")
  /\ UNCHANGED <<world, runOf, locks, work, record, tracked, reads>>

-----------------------------------------------------------------------------
(* The environment                                                         *)

\* The worker process ends one way or another.
WorkerExits(a, e) ==
  /\ worker[a] = "running"
  /\ worker' = [worker EXCEPT ![a] = "exited"]
  /\ ending' = [ending EXCEPT ![a] = e]
  /\ UNCHANGED <<world, pc, runOf, locks, taken, files, tracked, reads>>

\* The number of a worker that exited and was waited for goes to some other
\* process (in a restarted container soon) ...
PidTaken(a) ==
  /\ worker[a] = "exited" /\ pc[a] \notin OnLoop \cup {"wait"} /\ a \notin taken
  /\ taken' = taken \cup {a}
  /\ UNCHANGED <<world, pc, runOf, locks, worker, ending, files, tracked, reads>>

\* ... until that one ends.
PidFreed(a) ==
  /\ a \in taken
  /\ taken' = taken \ {a}
  /\ UNCHANGED <<world, pc, runOf, locks, worker, ending, files, tracked, reads>>

\* Another participant holds the corpus fence for a while.
OtherEnters ==
  /\ fence = None
  /\ fence' = Other
  /\ UNCHANGED <<world, pc, runOf, lock, dropped, work, files, tracked, reads>>

OtherLeaves ==
  /\ fence = Other
  /\ fence' = None
  /\ UNCHANGED <<world, pc, runOf, lock, dropped, work, files, tracked, reads>>

\* The service is killed: handlers, reapers and GETs vanish, its locks drop.
ServiceDies ==
  /\ up /\ crashes < MaxCrashes
  /\ up' = FALSE /\ crashes' = crashes + 1
  /\ pc' = [a \in Actors |-> IF a \in Api /\ pc[a] # "new" THEN "done" ELSE pc[a]]
  /\ lock' = Free(lock, Api) /\ fence' = Free(fence, Api)
  /\ tracked' = {} /\ dropped' = {}
  /\ get' = [a \in Api |-> "idle"] /\ value' = [a \in Api |-> None]
  /\ UNCHANGED <<runOf, work, files>>

\* _lifespan(): reconcile_requests() refreshes every record that is not
\* terminal before a request is served.
ServiceStarts ==
  /\ ~up /\ up' = TRUE
  /\ record' = [a \in Api |-> IF record[a] \in Terminal \cup {None} THEN record[a]
                              ELSE Decided(a, Merged(a))]
  /\ UNCHANGED <<crashes, pc, runOf, locks, work, receipt, tracked, reads>>

\* A CLI process is killed.
CliDies(a) ==
  /\ pc[a] \notin {"new", "done"} /\ crashes < MaxCrashes
  /\ crashes' = crashes + 1
  /\ lock' = Free(lock, {a}) /\ fence' = Free(fence, {a})
  /\ Goto(a, "done")
  /\ UNCHANGED <<up, runOf, dropped, work, files, tracked, reads>>

-----------------------------------------------------------------------------

Handler(a) ==
  \/ TakeLock(a) \/ TakeFence(a) \/ FenceTimeout(a) \/ Spawn(a) \/ SpawnFails(a)
  \/ LogsFail(a) \/ WriteReceipt(a) \/ WriteRecord(a) \/ Register(a) \/ StartFails(a)

Reaper(a) ==
  \/ ReapFence(a) \/ ReapFinalize(a) \/ ReapRefresh(a) \/ ReapFails(a)
  \/ ReapRelease(a) \/ ReapPop(a)

Getter(a) == GetLoad(a) \/ GetDecide(a) \/ GetWrite(a)

CliStep(a) ==
  \/ CliLock(a) \/ CliWork(a) \/ CliFenceTimeout(a) \/ CliFenceExit(a) \/ CliFails(a)
  \/ CliRelease(a) \/ CliFinalize(a)

Next ==
  \/ \E a \in Api : Validate(a) \/ Handler(a) \/ Reaper(a) \/ Getter(a)
  \/ \E a \in Cli : CliStart(a) \/ CliStep(a) \/ CliDies(a)
  \/ \E a \in Cli, r \in Actors : CliResume(a, r)
  \/ \E a \in Actors, e \in Endings : WorkerExits(a, e)
  \/ \E a \in Api : PidTaken(a) \/ PidFreed(a)
  \/ OtherEnters \/ OtherLeaves \/ ServiceDies \/ ServiceStarts

Spec == Init /\ [][Next]_vars

\* Threads and handlers go on, workers end (the manifest's timeout is the
\* worker's), the container restarts its service, and clients keep polling.
Fairness ==
  /\ \A a \in Api : WF_vars(Handler(a)) /\ WF_vars(Reaper(a))
  /\ \A a \in Api : WF_vars(Getter(a))
  /\ \A a \in Cli : WF_vars(CliStep(a))
  /\ \A a \in Actors : WF_vars(\E e \in Endings : WorkerExits(a, e))
  /\ WF_vars(ServiceStarts)

FairSpec == Spec /\ Fairness

-----------------------------------------------------------------------------
(* Properties                                                              *)

PC == {"new", "lock", "fence", "spawn", "receipt", "record", "register", "wait",
       "finalize", "refresh", "release", "pop", "done", "cliLock", "cliFence",
       "cliWait", "cliRelease", "cliFinalize"}
Status == Terminal \cup {"running", None}

\* Every file, lock and thread state keeps its shape.
TypeOK ==
  /\ up \in BOOLEAN /\ crashes \in 0..MaxCrashes
  /\ pc \in [Actors -> PC] /\ runOf \in [Actors -> Actors]
  /\ lock \in Actors \cup {None} /\ fence \in Actors \cup {Other, None}
  /\ dropped \subseteq Api /\ taken \subseteq Api
  /\ worker \in [Actors -> {"none", "running", "exited"}]
  /\ ending \in [Actors -> Ending \cup {None}]
  /\ receipt \in [Actors -> Status] /\ record \in [Api -> Status]
  /\ tracked \subseteq Api
  /\ get \in [Api -> {"idle", "loaded", "decided"}] /\ value \in [Api -> Status]

\* The owner of a run: its handler, reaper or CLI process still exists.
Attended(a) == pc[a] \notin {"new", "done"}

\* A partial or child failure never reports a successful complete: a receipt
\* or request record that says succeeded stands for a worker of that run that
\* exited with 0, claimed nothing worse and left its declared outputs.
NoFalseSuccess ==
  \A r \in Actors :
    receipt[r] = "succeeded" \/ (r \in Api /\ record[r] = "succeeded") =>
      \E a \in Actors : /\ runOf[a] = r /\ worker[a] = "exited" /\ ending[a] # None
                        /\ ending[a] = [rc |-> 0, claim |-> "", outputs |-> TRUE]

\* A worker whose owner lives works inside the corpus fence and under its
\* declared lock, whatever other runs start, fail or finish meanwhile.
AttendedWorkIsFenced ==
  \A a \in Actors : worker[a] = "running" /\ Attended(a) => fence = a /\ lock = a

\* No path out of a run keeps its declared lock or its fence, except three of
\* the POST handler: entering the fence raises, opening the log files raises,
\* and leaving the fence raises while a failed start is undone.
NoOtherLeak ==
  /\ lock # None => Attended(lock) \/ lock \in dropped
  /\ fence \notin {None, Other} => Attended(fence)

\* A receipt is final unless an operator resumes the run by hand.
FinalUnlessResumed ==
  [][\A r \in Actors : receipt[r] \in Terminal =>
       receipt'[r] = receipt[r] \/ \E a \in Cli : a # r /\ runOf'[a] = r]_vars

\* A polled request reaches a terminal status and keeps it, even when the
\* service is killed under it and restarted, unless other processes have the
\* number of its worker again and again.
RequestSettles ==
  \A a \in Api :
    <>[](a \notin taken) => (record[a] # None ~> [](record[a] \in Terminal))
=============================================================================
