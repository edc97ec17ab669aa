--------------------------- MODULE LaneRunsProofs ---------------------------
(* Machine-checked theorems about LaneRuns.                                *)
EXTENDS LaneRuns, WellFoundedInduction, TLAPS

USE DEF Runs, Sweepers, Closed, PCs

-----------------------------------------------------------------------------
(* Least and greatest runs                                                 *)

\* A set of natural numbers that is not empty has a least one.
LEMMA LeastNat ==
  ASSUME NEW S \in SUBSET Nat, S # {}
  PROVE  \E l \in S : \A m \in S : l <= m
<1> DEFINE Less == {ss \in Nat \X Nat : ss[1] < ss[2]}
<1>1. IsWellFoundedOn(Less, Nat)
  BY NatLessThanWellFounded DEF OpToRel
<1>2. PICK l \in S : \A m \in S : ~(<<m, l>> \in Less)
  <2> HIDE DEF Less
  <2> QED BY <1>1, WFMin
<1>3. ASSUME NEW m \in S PROVE l <= m
  <2>1. m \in Nat /\ l \in Nat /\ <<m, l>> \in Nat \X Nat /\ ~(<<m, l>> \in Less)
    BY <1>2
  <2> QED BY <2>1
<1> QED BY <1>3

\* Least finds the run a sweep begins with.
LEMMA LeastRun ==
  ASSUME NEW S \in SUBSET Runs, S # {}
  PROVE  Least(S) \in S
<1>1. \E l \in S : \A m \in S : l <= m
  BY LeastNat, LanesAssumption
<1> QED BY <1>1 DEF Least

\* Greatest finds the newest record: the one that is least before MaxRuns.
LEMMA GreatestRun ==
  ASSUME NEW S \in SUBSET Runs, S # {}
  PROVE  Greatest(S) \in S
<1> DEFINE Before == {MaxRuns - r : r \in S}
<1>1. Before \in SUBSET Nat /\ Before # {}
  <2>1. \A r \in Runs : MaxRuns - r \in Nat
    BY LanesAssumption
  <2> QED BY <2>1
<1>2. PICK b \in Before : \A m \in Before : b <= m
  <2> HIDE DEF Before
  <2> QED BY <1>1, LeastNat
<1>3. PICK g \in S : b = MaxRuns - g
  BY <1>2
<1>4. ASSUME NEW j \in S PROVE g >= j
  <2>1. b <= MaxRuns - j
    BY <1>2
  <2> QED BY <2>1, <1>3, LanesAssumption
<1> QED BY <1>4 DEF Greatest

-----------------------------------------------------------------------------
(* The inductive invariant                                                 *)

\* Runs begin in the order of their numbers, without a record; it is made when
\* the sweep is over, and it is `running' until the run closes it.
Written ==
  \A r \in Runs :
    /\ r > begun => pc[r] = "none"
    /\ pc[r] \in {"none", "sweep"} => record[r] = "none"
    /\ pc[r] \in {"slot", "work", "outcome", "finish"} => record[r] = "running"

\* A record that is looked at has been made; once its pid was seen to be gone
\* so is its run, and a second look found that it is not closed, unless by
\* another sweep meanwhile.
Looked ==
  \A s \in Sweepers :
    /\ stage[s] \in {"probe", "again", "close"} =>
         look[s] \in Runs /\ pc[look[s]] \notin {"none", "sweep"}
    /\ stage[s] \in {"again", "close"} => pc[look[s]] = "gone"
    /\ stage[s] = "close" => record[look[s]] \in {"running", "failed"}

IInv == TypeOK /\ Written /\ Looked

LEMMA TypeInit == Init => TypeOK
<1> SUFFICES ASSUME Init PROVE TypeOK
  OBVIOUS
<1>1. Deployed \in Entry
  BY LanesAssumption DEF Deployed, Entry, NoTokens
<1> QED BY <1>1, LanesAssumption DEF Init, TypeOK, NoTokens, Slots

-----------------------------------------------------------------------------
(* Type correctness                                                        *)

\* Entries of the store stay entries.
LEMMA EntryOf ==
  ASSUME TypeOK
  PROVE  /\ Deployed \in Entry
         /\ \A l \in Lanes : Claimed(l) \in [Lanes -> 0..MaxRuns] /\ BeginClaim(l) \in Entry
         /\ \A l \in Lanes, r \in Runs : Outcome(jobs[l], r) \in Entry
<1>1. NoTokens \in [Lanes -> 0..MaxRuns]
  BY LanesAssumption DEF NoTokens
<1>2. \A l \in Lanes : jobs[l] \in Entry
  BY DEF TypeOK
<1>3. \A u \in Lanes : CompletedToken(u) \in 0..MaxRuns
  BY <1>2, LanesAssumption DEF CompletedToken, Entry
<1>4. \A l \in Lanes : Claimed(l) \in [Lanes -> 0..MaxRuns]
  BY <1>3, LanesAssumption DEF Claimed
<1>5. ASSUME NEW l \in Lanes PROVE BeginClaim(l) \in Entry
  BY <1>2, <1>4 DEF BeginClaim, Entry
<1>6. ASSUME NEW l \in Lanes, NEW r \in Runs PROVE Outcome(jobs[l], r) \in Entry
  <2>1. verdict[r] \in {"none", "yes", "no"} /\ r \in 0..MaxRuns
    BY LanesAssumption DEF TypeOK
  <2> QED BY <1>1, <1>2, <2>1 DEF Outcome, Entry
<1>7. Deployed \in Entry
  BY <1>1, LanesAssumption DEF Deployed, Entry
<1> QED BY <1>4, <1>5, <1>6, <1>7

LEMMA TypeStep == TypeOK /\ [Next]_vars => TypeOK'
<1> SUFFICES ASSUME TypeOK, [Next]_vars PROVE TypeOK'
  OBVIOUS
<1> USE DEF TypeOK
<1>1. ASSUME NEW l \in Lanes, NEW p \in Pids, Claim(l, p) PROVE TypeOK'
  <2>1. BeginClaim(l) \in Entry /\ Claimed(l) \in [Lanes -> 0..MaxRuns]
    BY EntryOf
  <2>2. Records(l) \in SUBSET Runs
    BY DEF Records
  <2> DEFINE n == begun + 1
  <2>3. n \in Runs /\ begun' = n /\ begun' \in 0..MaxRuns
    BY <1>1, LanesAssumption DEF Claim
  <2>4. jobs' \in [Lanes -> Entry]
    BY <1>1, <2>1 DEF Claim
  <2> HIDE DEF n
  <2>5. /\ lane' = [lane EXCEPT ![n] = l] /\ pid' = [pid EXCEPT ![n] = p]
        /\ pidfile' = [pidfile EXCEPT ![l] = p] /\ pc' = [pc EXCEPT ![n] = "sweep"]
        /\ inputs' = [inputs EXCEPT ![n] = Claimed(l)]
        /\ left' = [left EXCEPT ![n] = Records(l)]
    BY <1>1 DEF Claim, Goto, n
  <2>6. /\ inputs' \in [Runs -> [Lanes -> 0..MaxRuns]] /\ left' \in [Runs -> SUBSET Runs]
        /\ pidfile' \in [Lanes -> Pids \cup {None}] /\ pc' \in [Runs -> PCs]
        /\ lane' \in [Runs -> Lanes \cup {None}] /\ pid' \in [Runs -> Pids \cup {None}]
    BY <2>1, <2>2, <2>3, <2>5
  <2> QED BY <1>1, <2>3, <2>4, <2>6 DEF Claim, counts
<1>2. ASSUME NEW r \in Runs, LookAtOwn(r) PROVE TypeOK'
  <2>1. Least(left[r]) \in Runs
    BY <1>2, LeastRun DEF LookAtOwn
  <2> QED BY <1>2, <2>1 DEF LookAtOwn, ReadRunning, Follow, proc, ghosts, counts
<1>3. ASSUME NEW l \in Lanes, LookAtNewest(l) PROVE TypeOK'
  <2>1. Greatest(Records(l)) \in Runs
    <3>1. Records(l) \in SUBSET Runs /\ Records(l) # {}
      BY <1>3 DEF LookAtNewest, Records
    <3> HIDE DEF Runs
    <3> QED BY <3>1, GreatestRun
  <2> QED BY <1>3, <2>1 DEF LookAtNewest, Newest, ReadRunning, Follow, proc, ghosts, counts
<1>4. ASSUME NEW s \in Sweepers, SweepStep(s) PROVE TypeOK'
  <2>1. CASE Probe(s)
    BY <2>1 DEF Probe, Leave, Follow, proc, ghosts, counts
  <2>2. CASE ReadAgain(s)
    BY <2>2 DEF ReadAgain, Leave, Follow, proc, ghosts, counts
  <2>3. CASE CloseOrphan(s)
    BY <2>3 DEF CloseOrphan, Leave, Follow, proc, ghosts, counts
  <2> QED BY <1>4, <2>1, <2>2, <2>3 DEF SweepStep
<1>5. ASSUME NEW r \in Runs, Begin(r) PROVE TypeOK'
  BY <1>5 DEF Begin, Goto, sweep, ghosts, counts
<1>6. ASSUME NEW r \in Runs, NEW i \in Slots, TakeSlot(r, i) PROVE TypeOK'
  BY <1>6 DEF TakeSlot, Goto, sweep, ghosts, counts
<1>7. ASSUME NEW r \in Runs, Starve(r) PROVE TypeOK'
  BY <1>7 DEF Starve, Goto, sweep, ghosts, counts
<1>8. ASSUME NEW r \in Runs, NEW how \in {"yes", "no"}, Work(r, how) PROVE TypeOK'
  BY <1>8 DEF Work, Freed, Goto, sweep, ghosts, counts
<1>9. ASSUME NEW r \in Runs, RecordOutcome(r) PROVE TypeOK'
  <2>1. jobs' \in [Lanes -> Entry]
    BY <1>9, EntryOf DEF RecordOutcome
  <2>2. NoTokens \in [Lanes -> 0..MaxRuns]
    BY LanesAssumption DEF NoTokens
  <2>3. \A l \in Lanes : {<<u, inputs[r][u]>> : u \in After[l]} \in SUBSET (Lanes \X (0..MaxRuns))
    BY LanesAssumption
  <2>4. eaten' \in [Lanes -> SUBSET (Lanes \X (0..MaxRuns))]
    BY <1>9, <2>3 DEF RecordOutcome
  <2> QED BY <1>9, <2>1, <2>2, <2>4 DEF RecordOutcome, Goto, sweep, counts
<1>10. ASSUME NEW r \in Runs, FinishRecord(r) PROVE TypeOK'
  BY <1>10 DEF FinishRecord, Status, Goto, sweep, ghosts, counts
<1>11. ASSUME NEW r \in Runs, RemoveIfOwned(r) PROVE TypeOK'
  BY <1>11 DEF RemoveIfOwned, Goto, sweep, ghosts, counts
<1>12. ASSUME NEW r \in Runs, KillOne(r) PROVE TypeOK'
  BY <1>12, LanesAssumption DEF KillOne, Kill, Freed, ghosts
<1>13. CASE Recreate
  BY <1>13, LanesAssumption DEF Recreate, Kill, Freed, Leave, Follow, ghosts
<1>14. CASE Deploy
  <2>1. jobs' \in [Lanes -> Entry]
    BY <1>14, EntryOf DEF Deploy
  <2>2. deploys' \in 0..MaxDeploys
    BY <1>14, LanesAssumption DEF Deploy
  <2> QED BY <1>14, <2>1, <2>2 DEF Deploy, proc, sweep, ghosts
<1>15. CASE UNCHANGED vars
  BY <1>15 DEF vars, proc, sweep, ghosts, counts
<1> QED
  BY <1>1, <1>2, <1>3, <1>4, <1>5, <1>6, <1>7, <1>8, <1>9, <1>10, <1>11, <1>12, <1>13, <1>14, <1>15
  DEF Next, Step, TickStep

\* Store, runs and sweeps keep their types.
THEOREM TypeCorrect == Spec => []TypeOK
<1> QED BY TypeInit, TypeStep, PTL DEF Spec

-----------------------------------------------------------------------------
(* Outcomes                                                                *)

LEMMA OrderInit == Init => Written /\ Looked
BY LanesAssumption DEF Init, Written, Looked

\* A claim makes a run that has not begun, with no record anybody looks at.
LEMMA OrderClaim ==
  ASSUME IInv, NEW l \in Lanes, NEW p \in Pids, Claim(l, p)
  PROVE  Written' /\ Looked'
<1> DEFINE n == begun + 1
<1>1. n \in Runs /\ begun \in Nat /\ begun' = n /\ pc[n] = "none" /\ record[n] = "none"
  BY LanesAssumption DEF IInv, TypeOK, Written, Claim
<1>2. record' = record /\ stage' = stage /\ look' = look
  BY DEF Claim
<1>3. pc' = [pc EXCEPT ![n] = "sweep"] /\ pc \in [Runs -> PCs]
  BY DEF Claim, Goto, IInv, TypeOK
<1> HIDE DEF n
<1>4. ASSUME NEW q \in Runs
      PROVE  /\ q > begun' => pc'[q] = "none"
             /\ pc'[q] \in {"none", "sweep"} => record'[q] = "none"
             /\ pc'[q] \in {"slot", "work", "outcome", "finish"} => record'[q] = "running"
  <2>1. q > n => q > begun /\ q # n
    BY <1>1, LanesAssumption DEF n
  <2> QED BY <2>1, <1>1, <1>2, <1>3 DEF IInv, Written
<1>5. Written'
  BY <1>4 DEF Written
<1>6. Looked'
  BY <1>1, <1>2, <1>3 DEF IInv, Looked
<1> QED BY <1>5, <1>6

\* A sweep comes to a record: if it looks at it, the run has made it.
LEMMA OrderLook ==
  ASSUME IInv, NEW s \in Sweepers, NEW r \in Runs, ReadRunning(s, r),
         UNCHANGED <<pc, record, begun>>
  PROVE  Written' /\ Looked'
<1>1. Written'
  BY DEF IInv, Written
<1>2. stage \in [Sweepers -> {"next", "probe", "again", "close"}]
      /\ look \in [Sweepers -> Runs \cup {None}]
  BY DEF IInv, TypeOK
<1>3. CASE record[r] = "running"
  <2>1. pc[r] \notin {"none", "sweep"}
    BY <1>3 DEF IInv, Written
  <2>2. stage' = [stage EXCEPT ![s] = "probe"] /\ look' = [look EXCEPT ![s] = r]
    BY <1>3 DEF ReadRunning, Follow
  <2> QED BY <1>1, <1>2, <2>1, <2>2 DEF IInv, Looked
<1>4. CASE record[r] # "running"
  BY <1>1, <1>4 DEF ReadRunning, IInv, Looked
<1> QED BY <1>3, <1>4

\* The steps of a look: the probe sees that the run is gone, the second read
\* that nobody closed the record, and only then it is closed.
LEMMA OrderSweep ==
  ASSUME IInv, NEW s \in Sweepers, SweepStep(s)
  PROVE  Written' /\ Looked'
<1>1. stage \in [Sweepers -> {"next", "probe", "again", "close"}]
      /\ look \in [Sweepers -> Runs \cup {None}] /\ pc \in [Runs -> PCs]
      /\ record \in [Runs -> {"none", "running", "succeeded", "failed"}]
  BY DEF IInv, TypeOK
<1>2. CASE Probe(s)
  <2>1. Written'
    BY <1>2 DEF Probe, proc, IInv, Written
  <2>2. look[s] \in Runs /\ pc[look[s]] \notin {"none", "sweep"}
    BY <1>2 DEF Probe, IInv, Looked
  <2>3. CASE WorkerAlive(pid[look[s]])
    BY <1>1, <1>2, <2>1, <2>3 DEF Probe, Leave, Follow, proc, IInv, Looked
  <2>4. CASE ~WorkerAlive(pid[look[s]])
    <3>1. pc[look[s]] = "gone"
      BY <2>2, <2>4 DEF WorkerAlive, Alive
    <3> QED BY <1>1, <1>2, <2>1, <2>2, <2>4, <3>1 DEF Probe, Follow, proc, IInv, Looked
  <2> QED BY <2>3, <2>4
<1>3. CASE ReadAgain(s)
  BY <1>1, <1>3 DEF ReadAgain, Leave, Follow, proc, IInv, Written, Looked
<1>4. CASE CloseOrphan(s)
  <2>1. look[s] \in Runs /\ pc[look[s]] = "gone"
    BY <1>4 DEF CloseOrphan, IInv, Looked
  <2>2. record' = [record EXCEPT ![look[s]] = "failed"]
        /\ stage' = [stage EXCEPT ![s] = "next"] /\ look' = [look EXCEPT ![s] = None]
        /\ pc' = pc /\ begun' = begun
    BY <1>4 DEF CloseOrphan, Leave, Follow, proc
  <2>3. Written'
    BY <1>1, <2>1, <2>2 DEF IInv, Written
  <2>4. Looked'
    BY <1>1, <2>1, <2>2 DEF IInv, Looked
  <2> QED BY <2>3, <2>4
<1> QED BY <1>2, <1>3, <1>4 DEF SweepStep

\* A run goes on and makes its record.
LEMMA OrderBegin ==
  ASSUME IInv, NEW r \in Runs, Begin(r)
  PROVE  Written' /\ Looked'
<1>1. pc \in [Runs -> PCs] /\ record \in [Runs -> {"none", "running", "succeeded", "failed"}]
  BY DEF IInv, TypeOK
<1>2. PICK to \in {"work", "slot"} : pc' = [pc EXCEPT ![r] = to]
  BY DEF Begin, Goto
<1>3. /\ pc[r] = "sweep" /\ record' = [record EXCEPT ![r] = "running"]
      /\ begun' = begun /\ stage' = stage /\ look' = look
  BY DEF Begin, sweep
<1> QED BY <1>1, <1>2, <1>3 DEF IInv, Written, Looked

\* A run goes on and leaves its record as it is.
LEMMA OrderWork ==
  ASSUME IInv, NEW r \in Runs, UNCHANGED <<record, stage, look, begun>>,
         NEW to \in {"work", "outcome", "finish", "gone"}, pc' = [pc EXCEPT ![r] = to],
         \/ pc[r] \in {"slot", "work", "outcome"}
         \/ pc[r] = "unlink" /\ to = "gone"
  PROVE  Written' /\ Looked'
<1>1. pc \in [Runs -> PCs]
  BY DEF IInv, TypeOK
<1> QED BY <1>1 DEF IInv, Written, Looked

\* Killed runs leave their records as they are.
LEMMA OrderKill ==
  ASSUME IInv, NEW R \in SUBSET Runs, Kill(R), \/ UNCHANGED <<stage, look>> \/ Leave(Tick)
  PROVE  Written' /\ Looked'
<1>1. pc \in [Runs -> PCs] /\ stage \in [Sweepers -> {"next", "probe", "again", "close"}]
      /\ look \in [Sweepers -> Runs \cup {None}]
  BY DEF IInv, TypeOK
<1>2. record' = record /\ begun' = begun
  BY DEF Kill
<1>3. \A q \in Runs : pc'[q] = pc[q] \/ (pc'[q] = "gone" /\ pc[q] # "none")
  <2>1. pc' = [q \in Runs |-> IF q \in R /\ pc[q] \notin {"none", "gone"} THEN "gone" ELSE pc[q]]
    BY DEF Kill, Alive
  <2> QED BY <2>1
<1>4. Written'
  BY <1>2, <1>3 DEF IInv, Written
<1>5. \A s \in Sweepers : (stage'[s] = stage[s] /\ look'[s] = look[s]) \/ stage'[s] = "next"
  BY <1>1 DEF Leave, Follow
<1>6. Looked'
  BY <1>2, <1>3, <1>5 DEF IInv, Looked
<1> QED BY <1>4, <1>6

LEMMA OrderStep == IInv /\ [Next]_vars => Written' /\ Looked'
<1> SUFFICES ASSUME IInv, [Next]_vars PROVE Written' /\ Looked'
  OBVIOUS
<1>1. ASSUME NEW l \in Lanes, NEW p \in Pids, Claim(l, p) PROVE Written' /\ Looked'
  BY <1>1, OrderClaim
<1>2. ASSUME NEW r \in Runs, LookAtOwn(r) PROVE Written' /\ Looked'
  <2>1. left[r] \in SUBSET Runs /\ left[r] # {}
    BY <1>2 DEF LookAtOwn, IInv, TypeOK
  <2>2. PICK q \in Runs : q = Least(left[r])
    BY <2>1, LeastRun
  <2> QED BY <1>2, <2>2, OrderLook DEF LookAtOwn, proc
<1>3. ASSUME NEW l \in Lanes, LookAtNewest(l) PROVE Written' /\ Looked'
  <2>1. Records(l) \in SUBSET Runs /\ Records(l) # {}
    BY <1>3 DEF LookAtNewest, Records
  <2>2. PICK q \in Runs : q = Greatest(Records(l))
    <3> HIDE DEF Runs
    <3> QED BY <2>1, GreatestRun
  <2> QED BY <1>3, <2>2, OrderLook DEF LookAtNewest, Newest, proc
<1>4. ASSUME NEW s \in Sweepers, SweepStep(s) PROVE Written' /\ Looked'
  BY <1>4, OrderSweep
<1>5. ASSUME NEW r \in Runs, Begin(r) PROVE Written' /\ Looked'
  BY <1>5, OrderBegin
<1>6. ASSUME NEW r \in Runs, NEW i \in Slots, TakeSlot(r, i) PROVE Written' /\ Looked'
  BY <1>6, OrderWork DEF TakeSlot, Goto, sweep
<1>7. ASSUME NEW r \in Runs, Starve(r) PROVE Written' /\ Looked'
  BY <1>7, OrderWork DEF Starve, Goto, sweep
<1>8. ASSUME NEW r \in Runs, NEW how \in {"yes", "no"}, Work(r, how) PROVE Written' /\ Looked'
  BY <1>8, OrderWork DEF Work, Goto, sweep
<1>9. ASSUME NEW r \in Runs, RecordOutcome(r) PROVE Written' /\ Looked'
  BY <1>9, OrderWork DEF RecordOutcome, Goto, sweep
<1>10. ASSUME NEW r \in Runs, FinishRecord(r) PROVE Written' /\ Looked'
  <2>1. pc \in [Runs -> PCs] /\ record \in [Runs -> {"none", "running", "succeeded", "failed"}]
    BY DEF IInv, TypeOK
  <2>2. PICK to \in Closed : record' = [record EXCEPT ![r] = to]
    BY <1>10 DEF FinishRecord, Status
  <2> QED BY <1>10, <2>1, <2>2 DEF FinishRecord, Goto, sweep, IInv, Written, Looked
<1>11. ASSUME NEW r \in Runs, RemoveIfOwned(r) PROVE Written' /\ Looked'
  BY <1>11, OrderWork DEF RemoveIfOwned, Goto, sweep
<1>12. ASSUME NEW r \in Runs, KillOne(r) PROVE Written' /\ Looked'
  BY <1>12, OrderKill DEF KillOne
<1>13. CASE Recreate
  BY <1>13, OrderKill DEF Recreate
<1>14. CASE Deploy
  BY <1>14 DEF Deploy, proc, sweep, IInv, Written, Looked
<1>15. CASE UNCHANGED vars
  BY <1>15 DEF vars, proc, sweep, IInv, Written, Looked
<1> QED
  BY <1>1, <1>2, <1>3, <1>4, <1>5, <1>6, <1>7, <1>8, <1>9, <1>10, <1>11, <1>12, <1>13, <1>14, <1>15
  DEF Next, Step, TickStep

LEMMA Invariant == Spec => []IInv
<1> QED BY TypeInit, TypeStep, OrderInit, OrderStep, PTL DEF Spec, IInv

\* No step rewrites a closed record: who begins one finds none, who finishes
\* one finds it running, and a sweep closes what it has just found running and
\* left by a run that is gone.
LEMMA OutcomeStep ==
  ASSUME IInv, [Next]_vars, NEW q \in Runs, record[q] \in Closed
  PROVE  record'[q] = record[q]
<1>1. record \in [Runs -> {"none", "running", "succeeded", "failed"}]
  BY DEF IInv, TypeOK
<1>2. ASSUME NEW s \in Sweepers, CloseOrphan(s) PROVE record'[q] = record[q]
  <2>1. look[s] \in Runs /\ record[look[s]] \in {"running", "failed"}
    BY <1>2 DEF CloseOrphan, IInv, Looked
  <2> QED BY <1>1, <1>2, <2>1 DEF CloseOrphan
<1>3. ASSUME NEW r \in Runs, Begin(r) PROVE record'[q] = record[q]
  <2>1. record[r] = "none"
    BY <1>3 DEF Begin, IInv, Written
  <2> QED BY <1>1, <1>3, <2>1 DEF Begin
<1>4. ASSUME NEW r \in Runs, FinishRecord(r) PROVE record'[q] = record[q]
  <2>1. record[r] = "running"
    BY <1>4 DEF FinishRecord, IInv, Written
  <2> QED BY <1>1, <1>4, <2>1 DEF FinishRecord
<1>5. CASE record' = record
  BY <1>5
<1> QED
  BY <1>2, <1>3, <1>4, <1>5
  DEF Next, Step, TickStep, SweepStep, Claim, LookAtOwn, LookAtNewest, Probe, ReadAgain, TakeSlot,
      Starve, Work, RecordOutcome, RemoveIfOwned, KillOne, Recreate, Kill, Deploy, vars

\* A run that closed its own record keeps its own outcome, whatever sweeps.
THEOREM OutcomesAreKept == Spec => OutcomesStand
<1>1. IInv /\ [Next]_vars => [\A r \in Runs : record[r] \in Closed => record'[r] = record[r]]_vars
  BY OutcomeStep
<1> QED BY <1>1, Invariant, PTL DEF Spec, OutcomesStand

-----------------------------------------------------------------------------
(* Claims and completions                                                  *)

Busy(r) == pc[r] \in {"sweep", "slot", "work", "outcome"}
Past(n) == n \in Runs /\ pc[n] \in {"finish", "unlink", "gone"}

\* A pid is that of one live runner, the pid file of a lane names it, and a
\* lane whose last run succeeded has none at work.
Owners ==
  \A r \in Runs : Alive(r) =>
    /\ lane[r] \in Lanes /\ pid[r] \in Pids /\ pidfile[lane[r]] = pid[r]
    /\ \A q \in Runs : Alive(q) /\ pid[q] = pid[r] => q = r
    /\ jobs[lane[r]].success = "yes" => pc[r] \in {"finish", "unlink"}

\* Completions are of runs that have recorded their outcome.
Completed ==
  /\ \A u \in Lanes : jobs[u].done # 0 => Past(jobs[u].done)
  /\ \A u \in Lanes : jobs[u].success = "yes" => jobs[u].done # 0
  /\ \A l \in Lanes : \A e \in eaten[l] : Past(e[2])

\* A run at work has its inputs in after_claim; when a deploy has dropped them
\* there, it has also dropped the success they were the completions of.
Claims ==
  \A r \in Runs, l \in Lanes : Busy(r) /\ lane[r] = l =>
    /\ \A u \in After[l] : Past(inputs[r][u])
    /\ \A u \in Lanes \ After[l] : inputs[r][u] = 0
    /\ jobs[l].claim # NoTokens =>
         jobs[l].claim = inputs[r] /\ \A u \in After[l] : jobs[l].consumed[u] <= inputs[r][u]
    /\ jobs[l].claim = NoTokens =>
         \A u \in After[l] : jobs[u].success = "yes" => jobs[u].done # inputs[r][u]

\* What is consumed was input of a success, and a completion that was input
\* of one does not exceed what is consumed.
Consumed ==
  \A l \in Lanes :
    /\ After[l] = {} => jobs[l].claim = NoTokens
    /\ \A u \in Lanes : jobs[l].consumed[u] # 0 => <<u, jobs[l].consumed[u]>> \in eaten[l]
    /\ \A u \in After[l] :
         jobs[u].success = "yes" /\ <<u, jobs[u].done>> \in eaten[l] =>
           jobs[u].done <= jobs[l].consumed[u]

CInv == Owners /\ Completed /\ Claims /\ Consumed

LEMMA ClaimsInit == Init => CInv
BY LanesAssumption DEF Init, CInv, Owners, Completed, Claims, Consumed, Alive, Busy, Past,
   Deployed, NoTokens

\* A step that leaves store, pids and histories alone, and takes runs forward.
LEMMA ClaimsQuiet ==
  ASSUME TypeOK, CInv, UNCHANGED <<jobs, lane, pid, pidfile, inputs, eaten>>,
         \A q \in Runs :
           \/ pc'[q] = pc[q]
           \/ pc[q] \notin {"none", "gone"} /\ pc'[q] = "gone"
           \/ Busy(q) /\ pc'[q] \in {"sweep", "slot", "work", "outcome"}
           \/ pc[q] = "finish" /\ pc'[q] = "unlink"
  PROVE  CInv'
<1>1. \A q \in Runs :
        /\ pc'[q] \notin {"none", "gone"} => pc[q] \notin {"none", "gone"}
        /\ pc'[q] \in {"sweep", "slot", "work", "outcome"} => Busy(q)
        /\ pc[q] \in {"finish", "unlink"} => pc'[q] \in {"finish", "unlink", "gone"}
        /\ pc[q] = "gone" => pc'[q] = "gone"
  BY DEF Busy
<1>2. Owners'
  BY <1>1 DEF CInv, Owners, Alive
<1>3. Completed'
  BY <1>1 DEF CInv, Completed, Past
<1>4. Claims'
  BY <1>1 DEF CInv, Claims, Busy, Past
<1>5. Consumed'
  BY DEF CInv, Consumed
<1> QED BY <1>2, <1>3, <1>4, <1>5 DEF CInv

LEMMA ClaimsClaim ==
  ASSUME IInv, CInv, NEW k \in Lanes, NEW p \in Pids, Claim(k, p)
  PROVE  /\ CInv'
         /\ \A u \in After[k] : AtRest(u) /\ <<u, Claimed(k)[u]>> \notin eaten[k]
<1> DEFINE n == begun + 1
<1>1. n \in Runs /\ pc[n] = "none"
  BY LanesAssumption DEF IInv, TypeOK, Written, Claim
<1>2. /\ lane' = [lane EXCEPT ![n] = k] /\ pid' = [pid EXCEPT ![n] = p]
      /\ pidfile' = [pidfile EXCEPT ![k] = p] /\ pc' = [pc EXCEPT ![n] = "sweep"]
      /\ inputs' = [inputs EXCEPT ![n] = Claimed(k)] /\ eaten' = eaten
  BY DEF Claim, Goto
<1>3. /\ lane \in [Runs -> Lanes \cup {None}] /\ pid \in [Runs -> Pids \cup {None}]
      /\ pidfile \in [Lanes -> Pids \cup {None}] /\ pc \in [Runs -> PCs]
      /\ inputs \in [Runs -> [Lanes -> 0..MaxRuns]]
      /\ \A l \in Lanes : jobs[l] \in Entry
      /\ After[k] \in SUBSET Lanes
  BY LanesAssumption DEF IInv, TypeOK
<1> HIDE DEF n
\* The entries.
<1>4. /\ \A l \in Lanes \ {k} : jobs'[l] = jobs[l]
      /\ jobs'[k].success = "none" /\ jobs'[k].done = jobs[k].done
      /\ jobs'[k].consumed = jobs[k].consumed
      /\ After[k] = {} => jobs'[k].claim = jobs[k].claim
      /\ After[k] # {} => jobs'[k].claim = Claimed(k)
  <2>1. jobs' = [jobs EXCEPT ![k] = BeginClaim(k)] /\ jobs \in [Lanes -> Entry]
    BY DEF Claim, IInv, TypeOK
  <2>2. jobs'[k] = BeginClaim(k) /\ \A l \in Lanes \ {k} : jobs'[l] = jobs[l]
    BY <2>1
  <2> QED BY <2>2, <1>3 DEF BeginClaim, Entry
\* The inputs.
<1>5. ASSUME NEW u \in After[k]
      PROVE  /\ u \in Lanes /\ jobs[u].success = "yes" /\ Claimed(k)[u] = jobs[u].done
             /\ Claimed(k)[u] > jobs[k].consumed[u] /\ Past(Claimed(k)[u])
  <2>1. u \in Lanes /\ AfterReady(k)
    BY <1>3 DEF Claim
  <2>2. jobs[u].success = "yes" /\ Claimed(k)[u] = jobs[u].done
        /\ jobs[u].done > jobs[k].consumed[u]
    BY <2>1 DEF AfterReady, Claimed, CompletedToken
  <2> QED BY <2>1, <2>2 DEF CInv, Completed
<1>6. \A u \in Lanes \ After[k] : Claimed(k)[u] = 0
  BY DEF Claimed
<1>7. After[k] # {} => Claimed(k) # NoTokens
  <2>1. ASSUME NEW u \in After[k] PROVE Claimed(k)[u] # NoTokens[u]
    BY <1>5, LanesAssumption DEF Past, NoTokens
  <2> QED BY <2>1
\* Nobody is alive in the lane, or under the pid.
<1>8. \A r \in Runs : Alive(r) => lane[r] # k /\ pid[r] # p
  <2>1. ASSUME NEW r \in Runs, Alive(r) PROVE lane[r] # k /\ pid[r] # p
    <3>1. ~WorkerAlive(p) /\ (pidfile[k] = None \/ ~WorkerAlive(pidfile[k]))
      BY DEF Claim
    <3>2. pid[r] # p
      BY <3>1, <2>1 DEF WorkerAlive
    <3>3. pid[r] # pidfile[k]
      BY <3>1, <2>1, LanesAssumption DEF WorkerAlive, CInv, Owners
    <3> QED BY <3>2, <3>3, <2>1 DEF CInv, Owners
  <2> QED BY <2>1
<1>9. Owners'
  <2>1. ASSUME NEW r \in Runs, pc'[r] \notin {"none", "gone"}
        PROVE  /\ lane'[r] \in Lanes /\ pid'[r] \in Pids /\ pidfile'[lane'[r]] = pid'[r]
               /\ \A q \in Runs : pc'[q] \notin {"none", "gone"} /\ pid'[q] = pid'[r] => q = r
               /\ jobs'[lane'[r]].success = "yes" => pc'[r] \in {"finish", "unlink"}
    <3>1. CASE r = n
      BY <3>1, <1>1, <1>2, <1>3, <1>4, <1>8 DEF Alive
    <3>2. CASE r # n
      <4>1. Alive(r) /\ lane'[r] = lane[r] /\ pid'[r] = pid[r] /\ pc'[r] = pc[r]
        BY <2>1, <3>2, <1>2, <1>3 DEF Alive
      <4>2. lane[r] # k /\ pid[r] # p /\ lane[r] \in Lanes /\ pid[r] \in Pids
            /\ pidfile[lane[r]] = pid[r]
        BY <4>1, <1>8 DEF CInv, Owners
      <4>3. ASSUME NEW q \in Runs, pc'[q] \notin {"none", "gone"}, pid'[q] = pid'[r] PROVE q = r
        <5>1. q # n
          BY <4>1, <4>2, <4>3, <1>1, <1>2, <1>3
        <5>2. Alive(q) /\ pid[q] = pid[r]
          BY <5>1, <4>1, <4>3, <1>2, <1>3 DEF Alive
        <5> QED BY <5>2, <4>1 DEF CInv, Owners
      <4>4. jobs'[lane'[r]].success = "yes" => pc'[r] \in {"finish", "unlink"}
        BY <4>1, <4>2, <1>4 DEF CInv, Owners
      <4> QED BY <4>1, <4>2, <4>3, <4>4, <1>2, <1>3
    <3> QED BY <3>1, <3>2
  <2> QED BY <2>1 DEF Owners, Alive
\* What is past stays past.
<1>10. \A m : Past(m) => m # n /\ m \in Runs /\ pc'[m] \in {"finish", "unlink", "gone"}
  BY <1>1, <1>2, <1>3 DEF Past
<1>11. Completed'
  <2>1. ASSUME NEW u \in Lanes
        PROVE  /\ jobs'[u].done # 0 => Past(jobs'[u].done)
               /\ jobs'[u].success = "yes" => jobs'[u].done # 0
    BY <1>4 DEF CInv, Completed
  <2>2. ASSUME NEW l \in Lanes, NEW e \in eaten[l] PROVE Past(e[2])
    BY DEF CInv, Completed
  <2> QED BY <2>1, <2>2, <1>2, <1>10 DEF Completed, Past
<1>12. Claims'
  <2>1. ASSUME NEW r \in Runs, NEW l \in Lanes, pc'[r] \in {"sweep", "slot", "work", "outcome"},
               lane'[r] = l
        PROVE  /\ \A u \in After[l] : Past(inputs'[r][u])
               /\ \A u \in Lanes \ After[l] : inputs'[r][u] = 0
               /\ jobs'[l].claim # NoTokens =>
                    /\ jobs'[l].claim = inputs'[r]
                    /\ \A u \in After[l] : jobs'[l].consumed[u] <= inputs'[r][u]
               /\ jobs'[l].claim = NoTokens =>
                    \A u \in After[l] : jobs'[u].success = "yes" => jobs'[u].done # inputs'[r][u]
    <3>1. CASE r = n
      <4>1. l = k /\ inputs'[r] = Claimed(k)
        BY <3>1, <2>1, <1>1, <1>2, <1>3
      <4>2. \A u \in After[l] : jobs[k].consumed[u] <= Claimed(k)[u]
        <5>1. ASSUME NEW u \in After[k] PROVE jobs[k].consumed[u] <= Claimed(k)[u]
          <6>1. jobs[k].consumed[u] \in 0..MaxRuns /\ Claimed(k)[u] \in 1..MaxRuns
            BY <1>3, <1>5 DEF Entry, Past
          <6> QED BY <6>1, <1>5, LanesAssumption
        <5> QED BY <5>1, <4>1
      <4>3. CASE After[k] = {}
        BY <4>1, <4>3, <1>4, <1>6 DEF CInv, Consumed
      <4>4. CASE After[k] # {}
        BY <4>1, <4>2, <4>4, <1>4, <1>5, <1>6, <1>7
      <4> QED BY <4>3, <4>4
    <3>2. CASE r # n
      <4>1. Busy(r) /\ lane[r] = l /\ inputs'[r] = inputs[r] /\ Alive(r)
        BY <3>2, <2>1, <1>2, <1>3 DEF Busy, Alive
      <4>2. l # k /\ jobs'[l] = jobs[l]
        BY <4>1, <1>4, <1>8
      <4>3. \A u \in After[l] : jobs'[u].success = "yes" => jobs'[u] = jobs[u]
        BY <1>4, LanesAssumption
      <4> QED BY <4>1, <4>2, <4>3 DEF CInv, Claims
    <3> QED BY <3>1, <3>2
  <2>2. \A m : Past(m) => m \in Runs /\ pc'[m] \in {"finish", "unlink", "gone"}
    BY <1>10
  <2> QED BY <2>1, <2>2 DEF Claims, Busy, Past
<1>13. Consumed'
  <2>1. ASSUME NEW l \in Lanes
        PROVE  /\ After[l] = {} => jobs'[l].claim = NoTokens
               /\ \A u \in Lanes : jobs'[l].consumed[u] # 0 => <<u, jobs'[l].consumed[u]>> \in eaten[l]
               /\ \A u \in After[l] :
                    jobs'[u].success = "yes" /\ <<u, jobs'[u].done>> \in eaten[l] =>
                      jobs'[u].done <= jobs'[l].consumed[u]
    <3>1. jobs'[l].consumed = jobs[l].consumed /\ (After[l] = {} => jobs'[l].claim = jobs[l].claim)
      BY <1>4
    <3>2. \A u \in After[l] : jobs'[u].success = "yes" => jobs'[u] = jobs[u]
      BY <1>4, LanesAssumption
    <3> QED BY <3>1, <3>2 DEF CInv, Consumed
  <2> QED BY <2>1, <1>2 DEF Consumed
<1>14. ASSUME NEW u \in After[k] PROVE AtRest(u) /\ <<u, Claimed(k)[u]>> \notin eaten[k]
  <2>1. AtRest(u)
    BY <1>5 DEF AtRest, CInv, Owners
  <2>2. jobs[u].done \in 0..MaxRuns /\ jobs[k].consumed[u] \in 0..MaxRuns
    BY <1>3, <1>5 DEF Entry
  <2>3. ~(jobs[u].done <= jobs[k].consumed[u])
    BY <2>2, <1>5, LanesAssumption
  <2> QED BY <2>1, <2>3, <1>5 DEF CInv, Consumed
<1> QED BY <1>9, <1>11, <1>12, <1>13, <1>14 DEF CInv

LEMMA ClaimsOutcome ==
  ASSUME IInv, CInv, NEW r \in Runs, RecordOutcome(r)
  PROVE  CInv'
<1> DEFINE k == lane[r]
<1>1. pc[r] = "outcome" /\ Busy(r) /\ Alive(r) /\ ~Past(r)
  BY DEF RecordOutcome, Busy, Alive, Past
<1>2. k \in Lanes /\ r # 0 /\ (\A q \in Runs : Alive(q) /\ lane[q] = k => q = r)
  BY <1>1, LanesAssumption DEF CInv, Owners
<1>3. /\ pc' = [pc EXCEPT ![r] = "finish"] /\ inputs' = [inputs EXCEPT ![r] = NoTokens]
      /\ lane' = lane /\ pid' = pid /\ pidfile' = pidfile
  BY DEF RecordOutcome, Goto
<1>4. /\ pc \in [Runs -> PCs] /\ inputs \in [Runs -> [Lanes -> 0..MaxRuns]]
      /\ \A l \in Lanes : jobs[l] \in Entry
      /\ After[k] \in SUBSET Lanes
      /\ eaten \in [Lanes -> SUBSET (Lanes \X (0..MaxRuns))]
  BY <1>2, LanesAssumption DEF IInv, TypeOK
<1>5. /\ \A l \in Lanes \ {k} : jobs'[l] = jobs[l] /\ eaten'[l] = eaten[l]
      /\ jobs'[k] = Outcome(jobs[k], r)
      /\ verdict[r] = "yes" =>
           eaten'[k] = eaten[k] \cup {<<u, inputs[r][u]>> : u \in After[k]}
      /\ verdict[r] # "yes" => eaten'[k] = eaten[k]
  <2>1. jobs \in [Lanes -> Entry] /\ jobs' = [jobs EXCEPT ![k] = Outcome(@, r)]
    BY DEF RecordOutcome, IInv, TypeOK
  <2>2. eaten' = IF verdict[r] = "yes"
                 THEN [eaten EXCEPT ![k] = @ \cup {<<u, inputs[r][u]>> : u \in After[k]}]
                 ELSE eaten
    BY DEF RecordOutcome
  <2> HIDE DEF k
  <2> QED BY <2>1, <2>2, <1>2, <1>4
<1>6. /\ \A u \in After[k] : Past(inputs[r][u])
      /\ \A u \in Lanes \ After[k] : inputs[r][u] = 0
      /\ jobs[k].claim # NoTokens =>
           jobs[k].claim = inputs[r] /\ \A u \in After[k] : jobs[k].consumed[u] <= inputs[r][u]
      /\ jobs[k].claim = NoTokens =>
           \A u \in After[k] : jobs[u].success = "yes" => jobs[u].done # inputs[r][u]
  BY <1>1, <1>2 DEF CInv, Claims
<1> HIDE DEF k
<1>7. /\ jobs'[k].claim = NoTokens /\ jobs'[k].success = verdict[r]
      /\ verdict[r] = "yes" =>
           /\ jobs'[k].done = r
           /\ jobs[k].claim # NoTokens => jobs'[k].consumed = inputs[r]
           /\ jobs[k].claim = NoTokens => jobs'[k].consumed = jobs[k].consumed
      /\ verdict[r] # "yes" =>
           jobs'[k].done = jobs[k].done /\ jobs'[k].consumed = jobs[k].consumed
  BY <1>2, <1>4, <1>5, <1>6 DEF Outcome, Entry
\* What is past stays past, and now the run is.
<1>8. /\ \A m : Past(m) => m # r /\ m \in Runs /\ pc'[m] \in {"finish", "unlink", "gone"}
      /\ pc'[r] = "finish"
  BY <1>1, <1>3, <1>4 DEF Past
<1>9. Owners'
  <2>1. ASSUME NEW q \in Runs, pc'[q] \notin {"none", "gone"}
        PROVE  jobs'[lane[q]].success = "yes" => pc'[q] \in {"finish", "unlink"}
    <3>1. Alive(q)
      BY <2>1, <1>1, <1>3, <1>4 DEF Alive
    <3>2. CASE q = r
      BY <3>2, <1>8
    <3>3. CASE q # r
      <4>1. lane[q] \in Lanes \ {k} /\ pc'[q] = pc[q]
        BY <3>1, <3>3, <1>2, <1>3, <1>4 DEF CInv, Owners
      <4> QED BY <3>1, <4>1, <1>5 DEF CInv, Owners
    <3> QED BY <3>2, <3>3
  <2>2. \A q \in Runs : pc'[q] \notin {"none", "gone"} => Alive(q)
    BY <1>1, <1>3, <1>4 DEF Alive
  <2> QED BY <2>1, <2>2, <1>3 DEF CInv, Owners, Alive
<1>10. Completed'
  <2>1. ASSUME NEW u \in Lanes
        PROVE  /\ jobs'[u].done # 0 => Past(jobs'[u].done) \/ jobs'[u].done = r
               /\ jobs'[u].success = "yes" => jobs'[u].done # 0
    BY <1>2, <1>5, <1>7 DEF CInv, Completed
  <2>2. ASSUME NEW l \in Lanes, NEW e \in eaten'[l] PROVE Past(e[2])
    <3>1. CASE e \in eaten[l]
      BY <3>1 DEF CInv, Completed
    <3>2. CASE e \notin eaten[l]
      <4>1. PICK u \in After[k] : e = <<u, inputs[r][u]>>
        BY <3>2, <2>2, <1>5
      <4> QED BY <4>1, <1>6
    <3> QED BY <3>1, <3>2
  <2> QED BY <2>1, <2>2, <1>8 DEF Completed, Past
<1>11. Claims'
  <2>1. ASSUME NEW q \in Runs, NEW l \in Lanes, pc'[q] \in {"sweep", "slot", "work", "outcome"},
               lane[q] = l
        PROVE  /\ \A u \in After[l] : Past(inputs'[q][u])
               /\ \A u \in Lanes \ After[l] : inputs'[q][u] = 0
               /\ jobs'[l].claim # NoTokens =>
                    /\ jobs'[l].claim = inputs'[q]
                    /\ \A u \in After[l] : jobs'[l].consumed[u] <= inputs'[q][u]
               /\ jobs'[l].claim = NoTokens =>
                    \A u \in After[l] : jobs'[u].success = "yes" => jobs'[u].done # inputs'[q][u]
    <3>1. q # r /\ Busy(q) /\ Alive(q) /\ inputs'[q] = inputs[q]
      BY <2>1, <1>3, <1>4, <1>8 DEF Busy, Alive
    <3>2. l # k /\ jobs'[l] = jobs[l]
      BY <2>1, <3>1, <1>2, <1>5
    <3>3. /\ \A u \in After[l] : Past(inputs[q][u])
          /\ \A u \in Lanes \ After[l] : inputs[q][u] = 0
          /\ jobs[l].claim # NoTokens =>
               jobs[l].claim = inputs[q] /\ \A u \in After[l] : jobs[l].consumed[u] <= inputs[q][u]
          /\ jobs[l].claim = NoTokens =>
               \A u \in After[l] : jobs[u].success = "yes" => jobs[u].done # inputs[q][u]
      BY <2>1, <3>1 DEF CInv, Claims
    <3>4. ASSUME jobs[l].claim = NoTokens, NEW u \in After[l], jobs'[u].success = "yes"
          PROVE  jobs'[u].done # inputs[q][u]
      <4>1. u \in Lanes
        BY LanesAssumption
      <4>2. CASE u = k
        BY <4>2, <3>3, <3>4, <1>1, <1>7
      <4>3. CASE u # k
        BY <4>1, <4>3, <3>3, <3>4, <1>5
      <4> QED BY <4>2, <4>3
    <3> QED BY <3>1, <3>2, <3>3, <3>4
  <2>2. \A m : Past(m) => m \in Runs /\ pc'[m] \in {"finish", "unlink", "gone"}
    BY <1>8
  <2> QED BY <2>1, <2>2, <1>3 DEF Claims, Busy, Past
<1>12. Consumed'
  <2>1. ASSUME NEW l \in Lanes
        PROVE  After[l] = {} => jobs'[l].claim = NoTokens
    BY <1>5, <1>7 DEF CInv, Consumed
  <2>2. ASSUME NEW l \in Lanes, NEW u \in Lanes, jobs'[l].consumed[u] # 0
        PROVE  <<u, jobs'[l].consumed[u]>> \in eaten'[l]
    <3>1. CASE jobs'[l].consumed = jobs[l].consumed
      BY <2>2, <3>1, <1>5 DEF CInv, Consumed
    <3>2. CASE jobs'[l].consumed # jobs[l].consumed
      <4>1. l = k /\ verdict[r] = "yes" /\ jobs'[k].consumed = inputs[r]
        BY <3>2, <1>5, <1>7
      <4>2. u \in After[k]
        BY <2>2, <4>1, <1>6
      <4> QED BY <4>1, <4>2, <1>5
    <3> QED BY <3>1, <3>2
  <2>3. ASSUME NEW l \in Lanes, NEW u \in After[l], jobs'[u].success = "yes",
               <<u, jobs'[u].done>> \in eaten'[l]
        PROVE  jobs'[u].done <= jobs'[l].consumed[u]
    <3>1. u \in Lanes
      BY LanesAssumption
    <3>2. u # k
      <4>1. ASSUME u = k PROVE FALSE
        <5>1. verdict[r] = "yes" /\ jobs'[u].done = r
          BY <2>3, <4>1, <1>7
        <5>2. <<u, r>> \notin eaten[l]
          BY <1>1 DEF CInv, Completed
        <5>3. \A w \in After[k] : <<w, inputs[r][w]>> # <<u, r>>
          BY <1>1, <1>6
        <5> QED BY <2>3, <5>1, <5>2, <5>3, <1>5
      <4> QED BY <4>1
    <3>3. jobs'[u] = jobs[u] /\ jobs[u].success = "yes"
      BY <2>3, <3>1, <3>2, <1>5
    <3>4. CASE <<u, jobs[u].done>> \in eaten[l]
      <4>1. jobs[u].done <= jobs[l].consumed[u]
        BY <3>3, <3>4 DEF CInv, Consumed
      <4>2. CASE jobs'[l].consumed = jobs[l].consumed
        BY <3>3, <4>1, <4>2
      <4>3. CASE jobs'[l].consumed # jobs[l].consumed
        <5>1. l = k /\ jobs[k].claim # NoTokens /\ jobs'[k].consumed = inputs[r]
          BY <4>3, <1>5, <1>7
        <5>2. jobs[k].consumed[u] <= inputs[r][u]
          BY <5>1, <1>6
        <5>3. jobs[u].done \in Int /\ jobs[k].consumed[u] \in Int /\ inputs[r][u] \in Int
          <6>1. jobs[u] \in Entry /\ jobs[k] \in Entry /\ inputs[r] \in [Lanes -> 0..MaxRuns]
            BY <3>1, <1>2, <1>4
          <6>2. jobs[u].done \in 0..MaxRuns /\ jobs[k].consumed \in [Lanes -> 0..MaxRuns]
            BY <6>1 DEF Entry
          <6> QED BY <6>1, <6>2, <3>1, LanesAssumption
        <5> QED BY <3>3, <4>1, <5>1, <5>2, <5>3
      <4> QED BY <4>2, <4>3
    <3>5. CASE <<u, jobs[u].done>> \notin eaten[l]
      <4>1. l = k /\ verdict[r] = "yes" /\ jobs[u].done = inputs[r][u]
        <5>1. l = k /\ verdict[r] = "yes"
          BY <2>3, <3>3, <3>5, <1>5
        <5>2. PICK w \in After[k] : <<u, jobs[u].done>> = <<w, inputs[r][w]>>
          BY <2>3, <3>3, <3>5, <5>1, <1>5
        <5> QED BY <5>1, <5>2
      <4>2. jobs'[k].consumed = inputs[r]
        BY <3>3, <4>1, <1>6, <1>7
      <4>3. inputs[r][u] \in Int
        BY <3>1, <1>4
      <4> QED BY <3>3, <4>1, <4>2, <4>3
    <3> QED BY <3>4, <3>5
  <2> QED BY <2>1, <2>2, <2>3 DEF Consumed
<1> QED BY <1>9, <1>10, <1>11, <1>12 DEF CInv

LEMMA ClaimsDeploy ==
  ASSUME IInv, CInv, Deploy
  PROVE  CInv'
<1>1. \A l \in Lanes : /\ jobs'[l].success = "none" /\ jobs'[l].done = 0
                         /\ jobs'[l].claim = NoTokens /\ \A u \in Lanes : jobs'[l].consumed[u] = 0
  BY DEF Deploy, Deployed, NoTokens
<1>2. UNCHANGED <<lane, pid, pidfile, pc, inputs, eaten>> /\ After \in [Lanes -> SUBSET Lanes]
  BY LanesAssumption DEF Deploy, proc, ghosts
<1>3. Owners'
  BY <1>1, <1>2 DEF CInv, Owners, Alive
<1>4. Completed'
  BY <1>1, <1>2 DEF CInv, Completed, Past
<1>5. Claims'
  BY <1>1, <1>2 DEF CInv, Claims, Busy, Past
<1>6. Consumed'
  BY <1>1, <1>2 DEF CInv, Consumed
<1> QED BY <1>3, <1>4, <1>5, <1>6 DEF CInv

\* The pid file of a lane is removed by its runner as it goes.
LEMMA ClaimsUnlink ==
  ASSUME IInv, CInv, NEW r \in Runs, RemoveIfOwned(r)
  PROVE  CInv'
<1>1. /\ pc[r] = "unlink" /\ pc' = [pc EXCEPT ![r] = "gone"] /\ pc \in [Runs -> PCs]
      /\ UNCHANGED <<jobs, lane, pid, inputs, eaten>>
  BY DEF RemoveIfOwned, Goto, ghosts, IInv, TypeOK
<1>2. \A l \in Lanes : l # lane[r] => pidfile'[l] = pidfile[l]
  BY DEF RemoveIfOwned, IInv, TypeOK
<1>3. \A q \in Runs : pc'[q] \notin {"none", "gone"} => Alive(q) /\ q # r /\ pc'[q] = pc[q]
  BY <1>1 DEF Alive
<1>4. \A q \in Runs : pc'[q] \notin {"none", "gone"} => lane[q] # lane[r]
  BY <1>1, <1>3 DEF CInv, Owners, Alive
<1>5. Owners'
  BY <1>1, <1>2, <1>3, <1>4 DEF CInv, Owners, Alive
<1>6. Completed'
  BY <1>1 DEF CInv, Completed, Past
<1>7. Claims'
  BY <1>1 DEF CInv, Claims, Busy, Past
<1>8. Consumed'
  BY <1>1 DEF CInv, Consumed
<1> QED BY <1>5, <1>6, <1>7, <1>8 DEF CInv

LEMMA ClaimsStep == IInv /\ CInv /\ [Next]_vars => CInv'
<1> SUFFICES ASSUME IInv, CInv, [Next]_vars PROVE CInv'
  OBVIOUS
<1>0. TypeOK /\ pc \in [Runs -> PCs]
  BY DEF IInv, TypeOK
<1>1. ASSUME NEW l \in Lanes, NEW p \in Pids, Claim(l, p) PROVE CInv'
  BY <1>1, ClaimsClaim
<1>2. ASSUME NEW r \in Runs, LookAtOwn(r) PROVE CInv'
  BY <1>0, <1>2, ClaimsQuiet DEF LookAtOwn, proc, ghosts
<1>3. ASSUME NEW l \in Lanes, LookAtNewest(l) PROVE CInv'
  BY <1>0, <1>3, ClaimsQuiet DEF LookAtNewest, proc, ghosts
<1>4. ASSUME NEW s \in Sweepers, SweepStep(s) PROVE CInv'
  BY <1>0, <1>4, ClaimsQuiet DEF SweepStep, Probe, ReadAgain, CloseOrphan, proc, ghosts
<1>5. ASSUME NEW r \in Runs, NEW to \in {"slot", "work", "outcome"}, Busy(r),
             pc' = [pc EXCEPT ![r] = to],
             UNCHANGED <<jobs, lane, pid, pidfile, inputs, eaten>>
      PROVE  CInv'
  <2>1. \A q \in Runs : pc'[q] = pc[q]
                        \/ (Busy(q) /\ pc'[q] \in {"sweep", "slot", "work", "outcome"})
    BY <1>0, <1>5
  <2> QED BY <1>0, <1>5, <2>1, ClaimsQuiet
<1>6. ASSUME NEW r \in Runs, Begin(r) PROVE CInv'
  BY <1>5, <1>6 DEF Begin, Goto, Busy, ghosts
<1>7. ASSUME NEW r \in Runs, NEW i \in Slots, TakeSlot(r, i) PROVE CInv'
  BY <1>5, <1>7 DEF TakeSlot, Goto, Busy, ghosts
<1>8. ASSUME NEW r \in Runs, Starve(r) PROVE CInv'
  BY <1>5, <1>8 DEF Starve, Goto, Busy, ghosts
<1>9. ASSUME NEW r \in Runs, NEW how \in {"yes", "no"}, Work(r, how) PROVE CInv'
  BY <1>5, <1>9 DEF Work, Goto, Busy, ghosts
<1>10. ASSUME NEW r \in Runs, RecordOutcome(r) PROVE CInv'
  BY <1>10, ClaimsOutcome
<1>11. ASSUME NEW r \in Runs, FinishRecord(r) PROVE CInv'
  <2>1. \A q \in Runs : pc'[q] = pc[q] \/ (pc[q] = "finish" /\ pc'[q] = "unlink")
    BY <1>0, <1>11 DEF FinishRecord, Goto
  <2> QED BY <1>0, <1>11, <2>1, ClaimsQuiet DEF FinishRecord, ghosts
<1>12. ASSUME NEW r \in Runs, RemoveIfOwned(r) PROVE CInv'
  BY <1>12, ClaimsUnlink
<1>13. ASSUME NEW R \in SUBSET Runs, Kill(R) PROVE CInv'
  <2>1. pc' = [q \in Runs |-> IF q \in R /\ pc[q] \notin {"none", "gone"} THEN "gone" ELSE pc[q]]
    BY <1>13 DEF Kill, Alive
  <2>2. \A q \in Runs : pc'[q] = pc[q] \/ (pc[q] \notin {"none", "gone"} /\ pc'[q] = "gone")
    BY <2>1
  <2> QED BY <1>0, <1>13, <2>2, ClaimsQuiet DEF Kill, ghosts
<1>14. CASE Deploy
  BY <1>14, ClaimsDeploy
<1>15. CASE UNCHANGED vars
  BY <1>0, <1>15, ClaimsQuiet DEF vars, proc, ghosts
<1> QED
  BY <1>1, <1>2, <1>3, <1>4, <1>6, <1>7, <1>8, <1>9, <1>10, <1>11, <1>12, <1>13, <1>14, <1>15
  DEF Next, Step, TickStep, KillOne, Recreate

\* A claim is the only step that begins a run.
LEMMA ClaimExact ==
  ASSUME IInv, CInv, [Next]_vars, begun' # begun, NEW u \in After[lane'[begun']]
  PROVE  AtRest(u) /\ <<u, inputs'[begun'][u]>> \notin eaten[lane'[begun']]
<1>1. PICK k \in Lanes, p \in Pids : Claim(k, p)
  <2>1. begun' = begun \/ \E k \in Lanes, p \in Pids : Claim(k, p)
    BY DEF Next, Step, TickStep, SweepStep, LookAtOwn, LookAtNewest, Probe, ReadAgain, CloseOrphan,
       Begin, TakeSlot, Starve, Work, RecordOutcome, FinishRecord, RemoveIfOwned, KillOne, Recreate,
       Kill, Deploy, vars, proc
  <2> QED BY <2>1
<1>2. begun' \in Runs /\ lane'[begun'] = k /\ inputs'[begun'] = Claimed(k)
  BY <1>1 DEF Claim, IInv, TypeOK
<1> QED BY <1>1, <1>2, ClaimsClaim

\* Over kills, failures, deploys and pids given out again: a lane begins only
\* on successes of the lanes it runs after that none of its own has used, while
\* they rest, and marks only what it was claimed for.
THEOREM InputsAreExact == Spec => InputsExact
<1>1. Spec => []CInv
  BY ClaimsInit, ClaimsStep, Invariant, PTL DEF Spec
<1>2. CInv => \A l, u \in Lanes : jobs[l].consumed[u] # 0 => <<u, jobs[l].consumed[u]>> \in eaten[l]
  BY DEF CInv, Consumed
<1>3. IInv /\ CInv /\ [Next]_vars =>
        [begun' # begun =>
           \A u \in After[lane'[begun']] :
             AtRest(u) /\ <<u, inputs'[begun'][u]>> \notin eaten[lane'[begun']]]_vars
  BY ClaimExact
<1> QED BY <1>1, <1>2, <1>3, Invariant, PTL DEF Spec, InputsExact

=============================================================================
