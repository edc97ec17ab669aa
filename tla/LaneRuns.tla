------------------------------ MODULE LaneRuns ------------------------------
(***************************************************************************)
(* Runs of scheduled lanes: the policy modules the engine keeps for the    *)
(* cron-plus scheduler (patches/cron-plus/) and the deploy's write of the  *)
(* scheduler's job store (scripts/cron_plus_store.py).                     *)
(*                                                                         *)
(* The scheduler's tick claims lanes that are due and spawns a runner      *)
(* process for each; the runner marks its beginning in a record of its     *)
(* own, waits for a slot of its model, works, writes its outcome to the    *)
(* job store and closes the record.  Runners are killed; then the record   *)
(* stays `running' until a later start of the lane, or a tick, finds that  *)
(* its pid is gone.  Pids are few and are given out again, all the more    *)
(* after the container was recreated.                                      *)
(*                                                                         *)
(* The scheduler itself (jobs.py, runner.py) is not in the repository.     *)
(* What is modelled of it is how it calls these modules: claims and        *)
(* outcomes are written under the store's lock, which the deploy takes as  *)
(* well, so each of the three is one step; a lane whose pid file names a   *)
(* live process is not claimed; and one tick runs at a time.  Only runners *)
(* get the pids of runners.                                                *)
(*                                                                         *)
(* A completion time is modelled by the number of the run: runs of one     *)
(* lane complete in the order of their claims.                             *)
(***************************************************************************)
EXTENDS Integers

CONSTANTS
  Lanes,
  After,      \* lane -> the lanes it runs after
  Limit,      \* lane -> model_concurrency, 0 for a lane without a model
  Pids,
  Tick,       \* the scheduler as a sweeper of records
  MaxRuns,    \* bound: runs claimed
  MaxKills,   \* bound: kills of a runner or of the container
  MaxDeploys, \* bound: deploys
  None

Runs     == 1..MaxRuns
Sweepers == Runs \cup {Tick}
Slots    == 0..1
Closed   == {"succeeded", "failed"}

ASSUME LanesAssumption ==
  /\ After \in [Lanes -> SUBSET Lanes] /\ Limit \in [Lanes -> 0..2]
  /\ MaxRuns \in Nat /\ MaxKills \in Nat /\ MaxDeploys \in Nat
  /\ None \notin Lanes \cup Pids \cup Runs
  /\ Tick \notin Runs

VARIABLES
  jobs,       \* jobs.json: lane -> its entry
  pidfile,    \* lane -> pids/<job id>.pid
  slot,       \* slot index -> the run whose flock is on its lock file
  begun,      \* number of runs claimed so far
  lane, pid,  \* run -> its lane, its process id
  pc,         \* run -> where its runner is
  verdict,    \* run -> how its work ended
  record,     \* run -> status in runs/<lane>/<stamp>.json
  left,       \* run -> records of its lane that its sweep has not come to
  stage,      \* sweeper -> how far it is with the record it looks at
  look,       \* sweeper -> that record
  inputs,     \* history: run -> the completions it was claimed for
  eaten,      \* history: lane -> completions that were input of a success
  kills, deploys

proc   == <<pidfile, slot, begun, lane, pid, pc, verdict>>
sweep  == <<left, stage, look>>
ghosts == <<inputs, eaten>>
counts == <<kills, deploys>>
vars   == <<jobs, proc, record, sweep, ghosts, counts>>

-----------------------------------------------------------------------------
NoTokens == [u \in Lanes |-> 0]

\* A lane's entry as it is generated: no runtime field is in it.
Deployed == [success |-> "none", done |-> 0, claim |-> NoTokens, consumed |-> NoTokens]

Least(S)    == CHOOSE i \in S : \A j \in S : i <= j
Greatest(S) == CHOOSE i \in S : \A j \in S : i >= j

Alive(r)       == pc[r] \notin {"none", "gone"}
WorkerAlive(p) == \E r \in Runs : Alive(r) /\ pid[r] = p
Records(l)     == {r \in Runs : lane[r] = l /\ record[r] # "none"}

Init ==
  /\ jobs = [l \in Lanes |-> Deployed]
  /\ pidfile = [l \in Lanes |-> None] /\ slot = [i \in Slots |-> None]
  /\ begun = 0
  /\ lane = [r \in Runs |-> None] /\ pid = [r \in Runs |-> None]
  /\ pc = [r \in Runs |-> "none"]
  /\ verdict = [r \in Runs |-> "none"] /\ record = [r \in Runs |-> "none"]
  /\ left = [r \in Runs |-> {}] /\ stage = [s \in Sweepers |-> "next"]
  /\ look = [s \in Sweepers |-> None]
  /\ inputs = [r \in Runs |-> NoTokens] /\ eaten = [l \in Lanes |-> {}]
  /\ kills = 0 /\ deploys = 0

Goto(r, where) == pc' = [pc EXCEPT ![r] = where]

-----------------------------------------------------------------------------
(* Claiming a lane                                                         *)

\* _completed_token(): the completion of a lane whose last run succeeded.
CompletedToken(u) == IF jobs[u].success = "yes" THEN jobs[u].done ELSE 0

\* Mutant of AfterReady: what was consumed is not looked at.
AfterReadyStale(l) == \A u \in After[l] : CompletedToken(u) # 0

\* after_ready(): each lane it runs after has a completion not consumed yet.
AfterReady(l) ==
  \A u \in After[l] : CompletedToken(u) # 0 /\ CompletedToken(u) > jobs[l].consumed[u]

Claimed(l) == [u \in Lanes |-> IF u \in After[l] THEN CompletedToken(u) ELSE 0]

\* begin_claim(): last_run_success is cleared; without dependencies an old
\* after_claim stays where it is.
BeginClaim(l) ==
  [jobs[l] EXCEPT !.success = "none",
                  !.claim = IF After[l] = {} THEN @ ELSE Claimed(l)]

\* The scheduler claims a lane that is due and spawns its runner.
Claim(l, p) ==
  LET r == begun + 1 IN
  /\ r \in Runs /\ AfterReady(l)
  /\ pidfile[l] = None \/ ~WorkerAlive(pidfile[l])
  /\ ~WorkerAlive(p)
  /\ begun' = r
  /\ jobs' = [jobs EXCEPT ![l] = BeginClaim(l)]
  /\ lane' = [lane EXCEPT ![r] = l] /\ pid' = [pid EXCEPT ![r] = p]
  /\ pidfile' = [pidfile EXCEPT ![l] = p]
  /\ inputs' = [inputs EXCEPT ![r] = Claimed(l)]
  /\ left' = [left EXCEPT ![r] = Records(l)]
  /\ Goto(r, "sweep")
  /\ UNCHANGED <<slot, verdict, record, stage, look, eaten, counts>>

-----------------------------------------------------------------------------
(* Sweeping for orphans                                                    *)

Sweeping(s) == s \in Runs => pc[s] = "sweep"

Follow(s, how) == stage' = [stage EXCEPT ![s] = how]
Leave(s) == Follow(s, "next") /\ look' = [look EXCEPT ![s] = None]

\* _read_running(): the first read of a record.
ReadRunning(s, r) ==
  IF record[r] = "running" THEN Follow(s, "probe") /\ look' = [look EXCEPT ![s] = r]
                           ELSE UNCHANGED <<stage, look>>

\* reconcile_orphaned_runs(): a starting run goes through its lane's records.
LookAtOwn(r) ==
  /\ pc[r] = "sweep" /\ stage[r] = "next" /\ left[r] # {}
  /\ ReadRunning(r, Least(left[r]))
  /\ left' = [left EXCEPT ![r] = @ \ {Least(@)}]
  /\ UNCHANGED <<jobs, proc, record, ghosts, counts>>

\* Mutant of Newest: the first in the listing.
NewestFirst(l) == Least(Records(l))

Newest(l) == Greatest(Records(l))

\* reconcile_all_orphaned_runs(): a tick looks at the newest record of a lane,
\* and tick after tick it comes to each.
LookAtNewest(l) ==
  /\ stage[Tick] = "next" /\ Records(l) # {}
  /\ ReadRunning(Tick, Newest(l))
  /\ UNCHANGED <<jobs, proc, record, left, ghosts, counts>>

\* _close_if_orphaned(): is the worker there, and does the record, read once
\* more, still say `running'?
Probe(s) ==
  /\ Sweeping(s) /\ stage[s] = "probe"
  /\ IF WorkerAlive(pid[look[s]]) THEN Leave(s) ELSE Follow(s, "again") /\ UNCHANGED look
  /\ UNCHANGED <<jobs, proc, record, left, ghosts, counts>>

\* Mutant of ReadAgain: the record is closed as it was read first.
ReadAgainNot(s) ==
  /\ Sweeping(s) /\ stage[s] = "again"
  /\ Follow(s, "close")
  /\ UNCHANGED <<jobs, proc, record, left, look, ghosts, counts>>

ReadAgain(s) ==
  /\ Sweeping(s) /\ stage[s] = "again"
  /\ IF record[look[s]] = "running" THEN Follow(s, "close") /\ UNCHANGED look ELSE Leave(s)
  /\ UNCHANGED <<jobs, proc, record, left, ghosts, counts>>

CloseOrphan(s) ==
  /\ Sweeping(s) /\ stage[s] = "close"
  /\ record' = [record EXCEPT ![look[s]] = "failed"]
  /\ Leave(s)
  /\ UNCHANGED <<jobs, proc, left, ghosts, counts>>

-----------------------------------------------------------------------------
(* The run                                                                 *)

\* begin_run_record(), after its sweep.
Begin(r) ==
  /\ pc[r] = "sweep" /\ stage[r] = "next" /\ left[r] = {}
  /\ record' = [record EXCEPT ![r] = "running"]
  /\ Goto(r, IF Limit[lane[r]] = 0 THEN "work" ELSE "slot")
  /\ UNCHANGED <<jobs, pidfile, slot, begun, lane, pid, verdict, sweep, ghosts, counts>>

\* model_slot(): try the lock files of the model one after the other, until
\* one is free ...
TakeSlot(r, i) ==
  /\ pc[r] = "slot" /\ i < Limit[lane[r]] /\ slot[i] = None
  /\ slot' = [slot EXCEPT ![i] = r]
  /\ Goto(r, "work")
  /\ UNCHANGED <<jobs, pidfile, begun, lane, pid, verdict, record, sweep, ghosts, counts>>

\* ... or model_slot_wait_seconds() have gone by when the last one is not.
Starve(r) ==
  /\ pc[r] = "slot" /\ slot[Limit[lane[r]] - 1] # None
  /\ verdict' = [verdict EXCEPT ![r] = "no"]
  /\ Goto(r, "outcome")
  /\ UNCHANGED <<jobs, pidfile, slot, begun, lane, pid, record, sweep, ghosts, counts>>

Freed(R) == [i \in Slots |-> IF slot[i] \in R THEN None ELSE slot[i]]

\* The work ends, by itself or by the alarm of run_deadline().
Work(r, how) ==
  /\ pc[r] = "work"
  /\ verdict' = [verdict EXCEPT ![r] = how]
  /\ slot' = Freed({r})
  /\ Goto(r, "outcome")
  /\ UNCHANGED <<jobs, pidfile, begun, lane, pid, record, sweep, ghosts, counts>>

\* record_outcome(): what was claimed is consumed when the run succeeded.
Outcome(job, r) ==
  LET won == verdict[r] = "yes" IN
  [job EXCEPT !.success  = verdict[r],
              !.claim    = NoTokens,
              !.done     = IF won THEN r ELSE @,
              !.consumed = IF won /\ job.claim # NoTokens THEN job.claim ELSE @]

RecordOutcome(r) ==
  LET l == lane[r] IN
  /\ pc[r] = "outcome"
  /\ jobs' = [jobs EXCEPT ![l] = Outcome(@, r)]
  /\ eaten' = IF verdict[r] = "yes"
              THEN [eaten EXCEPT ![l] = @ \cup {<<u, inputs[r][u]>> : u \in After[l]}]
              ELSE eaten
  /\ Goto(r, "finish")
  /\ verdict' = [verdict EXCEPT ![r] = "none"] /\ inputs' = [inputs EXCEPT ![r] = NoTokens]
  /\ UNCHANGED <<pidfile, slot, begun, lane, pid, record, sweep, counts>>

\* Mutant of Status: last_run_success as it is.
StatusRaw(l) == jobs[l].success

Status(l) == IF jobs[l].success = "yes" THEN "succeeded" ELSE "failed"

\* finish_run_record(): the status is read from the lane's entry in the store.
FinishRecord(r) ==
  /\ pc[r] = "finish"
  /\ record' = [record EXCEPT ![r] = Status(lane[r])]
  /\ Goto(r, "unlink")
  /\ UNCHANGED <<jobs, pidfile, slot, begun, lane, pid, verdict, sweep, ghosts, counts>>

\* remove_if_owned().
RemoveIfOwned(r) ==
  /\ pc[r] = "unlink"
  /\ pidfile' = [pidfile EXCEPT ![lane[r]] = IF @ = pid[r] THEN None ELSE @]
  /\ Goto(r, "gone")
  /\ UNCHANGED <<jobs, slot, begun, lane, pid, verdict, record, sweep, ghosts, counts>>

-----------------------------------------------------------------------------
(* Kills and deploys                                                       *)

\* Runners are killed.  The kernel takes their flocks back; pid file, record
\* and claim stay.
Kill(R) ==
  /\ kills < MaxKills /\ \E r \in R : Alive(r)
  /\ pc' = [r \in Runs |-> IF r \in R /\ Alive(r) THEN "gone" ELSE pc[r]]
  /\ slot' = Freed(R)
  /\ kills' = kills + 1
  /\ UNCHANGED <<jobs, pidfile, begun, lane, pid, verdict, record, left, ghosts, deploys>>

KillOne(r) == Kill({r}) /\ UNCHANGED <<stage, look>>

\* The container is recreated: every runner dies, and the tick with them.
Recreate == Kill(Runs) /\ Leave(Tick)

\* write(): under the store's lock the generated jobs replace the store,
\* runtime fields and all.
Deploy ==
  /\ deploys < MaxDeploys
  /\ jobs' = [l \in Lanes |-> Deployed]
  /\ deploys' = deploys + 1
  /\ UNCHANGED <<proc, record, sweep, ghosts, kills>>

-----------------------------------------------------------------------------
SweepStep(s) == Probe(s) \/ ReadAgain(s) \/ CloseOrphan(s)

Step(r) ==
  \/ LookAtOwn(r) \/ SweepStep(r) \/ Begin(r)
  \/ (\E i \in Slots : TakeSlot(r, i)) \/ Starve(r)
  \/ \E how \in {"yes", "no"} : Work(r, how)
  \/ RecordOutcome(r) \/ FinishRecord(r) \/ RemoveIfOwned(r)

TickStep == SweepStep(Tick) \/ \E l \in Lanes : LookAtNewest(l)

Next ==
  \/ \E l \in Lanes, p \in Pids : Claim(l, p)
  \/ \E r \in Runs : Step(r) \/ KillOne(r)
  \/ TickStep
  \/ Recreate
  \/ Deploy

Spec == Init /\ [][Next]_vars

\* A runner goes on, its waits and its work have an end (run_deadline(),
\* model_slot_wait_seconds()), and the scheduler ticks.  Nothing makes a lane
\* start again.
FairSpec ==
  Spec /\ (\A r \in Runs : WF_vars(Step(r))) /\ WF_vars(TickStep)

-----------------------------------------------------------------------------
(* Properties                                                              *)

Entry == [success : {"none", "yes", "no"}, done : 0..MaxRuns,
          claim : [Lanes -> 0..MaxRuns], consumed : [Lanes -> 0..MaxRuns]]
PCs   == {"none", "sweep", "slot", "work", "outcome", "finish", "unlink", "gone"}

\* Types of the store, the runs and the sweeps.
TypeOK ==
  /\ jobs \in [Lanes -> Entry]
  /\ pidfile \in [Lanes -> Pids \cup {None}] /\ slot \in [Slots -> Runs \cup {None}]
  /\ begun \in 0..MaxRuns /\ pc \in [Runs -> PCs]
  /\ lane \in [Runs -> Lanes \cup {None}] /\ pid \in [Runs -> Pids \cup {None}]
  /\ verdict \in [Runs -> {"none", "yes", "no"}]
  /\ record \in [Runs -> {"none", "running"} \cup Closed]
  /\ left \in [Runs -> SUBSET Runs]
  /\ stage \in [Sweepers -> {"next", "probe", "again", "close"}]
  /\ look \in [Sweepers -> Runs \cup {None}]
  /\ inputs \in [Runs -> [Lanes -> 0..MaxRuns]]
  /\ eaten \in [Lanes -> SUBSET (Lanes \X (0..MaxRuns))]
  /\ kills \in 0..MaxKills /\ deploys \in 0..MaxDeploys

\* "A run that closed its own record between the first read and the probe keeps
\* its own outcome": no sweep, by a tick or by the next run, rewrites a record
\* that was closed.
OutcomesStand ==
  [][\A r \in Runs : record[r] \in Closed => record'[r] = record[r]]_vars

\* A lane starts only when all lanes it runs after are at rest with a success,
\* and on completions none of its successful runs has had before; and only what
\* a successful run had was it claimed for is ever marked as consumed.
AtRest(u) == \A q \in Runs : lane[q] = u /\ Alive(q) => pc[q] \in {"finish", "unlink"}
InputsExact ==
  /\ [](\A l, u \in Lanes : jobs[l].consumed[u] # 0 => <<u, jobs[l].consumed[u]>> \in eaten[l])
  /\ [][begun' # begun =>
          \A u \in After[lane'[begun']] :
            AtRest(u) /\ <<u, inputs'[begun'][u]>> \notin eaten[lane'[begun']]]_vars

\* The newest record of a lane does not stay `running': its run closes it, or
\* a tick does after the run was killed, whoever has the pid by then.
Settled(l) == Records(l) # {} => record[Greatest(Records(l))] # "running"

NewestSettles == \A l \in Lanes : []<>Settled(l)
=============================================================================
