-------------------------- MODULE ReviewDecisions --------------------------
(***************************************************************************)
(* Human review of one page (write_services/review.py), next to the write  *)
(* tools that edit it (write_services/transactions.py).                    *)
(*                                                                         *)
(* A reviewer opens the page in the Cockpit or names it to the CLI, and    *)
(* sends a decision together with the version and hash it was read at.     *)
(* The decision goes to two files, the page and the ledger record of the   *)
(* request, under .okengine/review.lock.  The write tools run under the    *)
(* corpus fence.  Neither side takes the other's lock.  (A machine check   *)
(* that comes from an agent is a tool call and holds the fence too; the    *)
(* ones here come over HTTP.)                                              *)
(*                                                                         *)
(* A content hash covers the whole page, so two pages have the same hash   *)
(* when they are equal here.  A request is named by the page it was made   *)
(* for and its reasons: those given by a tool's flags, or, when a decision *)
(* needs one, those read from the page.  A tool's flag is always among its *)
(* reasons, so the two never coincide.  Records are numbered in the order  *)
(* of their requested_at.                                                  *)
(***************************************************************************)
EXTENDS Integers, Sequences, SequencesExt, FiniteSets

CONSTANTS
  Reviewers,  \* calls to the review service or `framework review'
  Tools,      \* calls to the write tools
  Jobs,       \* what reviewers ask for
  MaxCalls,   \* bound: calls by reviewers
  MaxEdits,   \* bound: edits by tools
  MaxFaults,  \* bound: kills and failed replaces
  None

\* _REVIEW_DECISIONS: the state a decision leads to, and whether the page
\* remains in quarantine.
Outcome == [approve         |-> [state |-> "approved",          flag |-> FALSE],
            request_changes |-> [state |-> "changes-requested", flag |-> TRUE],
            reject          |-> [state |-> "rejected",          flag |-> TRUE],
            dismiss         |-> [state |-> "dismissed",         flag |-> FALSE],
            defer           |-> [state |-> "open",              flag |-> TRUE]]
Decisions == DOMAIN Outcome

ASSUME ReviewAssumption ==
  /\ Jobs \subseteq Decisions \cup {"assign", "machine"}
  /\ MaxCalls \in Nat /\ MaxEdits \in Nat /\ MaxFaults \in Nat
  /\ None \notin Reviewers \cup Tools

VARIABLES
  page,       \* text, version and review projection
  ledger,     \* the records of the page's requests
  lock,       \* holder of review.lock, or None
  fence,      \* holder of the corpus fence, or None
  call,       \* reviewer -> its call
  tool,       \* tool -> its call
  plan,       \* what a reconciliation is still going to write, or None
  read,       \* history: texts sent back with an approval or a dismissal
  torn,       \* history: requests whose page was published and record was not
  calls, edits, faults

counts == <<calls, edits, faults>>
ghosts == <<read, torn>>
vars   == <<page, ledger, lock, fence, call, tool, plan, ghosts, counts>>

-----------------------------------------------------------------------------
(* The ledger                                                              *)

\* The record of the request about p for the given reasons, or 0.
Find(p, reasons) ==
  LET found == {i \in DOMAIN ledger : ledger[i].of = p /\ ledger[i].reasons = reasons}
  IN  IF found = {} THEN 0 ELSE CHOOSE i \in found : TRUE

\* _ensure_review_request(): the existing record, or a new open one.
NewRecord(p, reasons) ==
  [of |-> p, reasons |-> reasons, state |-> "open", history |-> <<>>, checks |-> 0]
Request(p, reasons) == IF Find(p, reasons) = 0 THEN Len(ledger) + 1 ELSE Find(p, reasons)
Ensured(p, reasons) ==
  IF Find(p, reasons) = 0 THEN Append(ledger, NewRecord(p, reasons)) ELSE ledger

-----------------------------------------------------------------------------
Idle == [pc |-> "idle"]

\* A page that was flagged, or is of a type that always needs review.
Init ==
  /\ \E flag \in BOOLEAN :
       page = [text |-> 0, version |-> 1, flag |-> flag, state |-> "none", rid |-> 0]
  /\ ledger = <<>> /\ lock = None /\ fence = None /\ plan = None
  /\ call = [r \in Reviewers |-> Idle]
  /\ tool = [t \in Tools |-> Idle]
  /\ read = {} /\ torn = {}
  /\ calls = 0 /\ edits = 0 /\ faults = 0

At(r, l)  == call[r].pc = l
Faulty    == faults < MaxFaults /\ faults' = faults + 1
Return(r) == call' = [call EXCEPT ![r] = Idle] /\ lock' = IF lock = r THEN None ELSE lock

-----------------------------------------------------------------------------
(* Reviewers                                                               *)

\* _review_record_for(): the newest record of this very page, or 0.
Current == LET found == {i \in DOMAIN ledger : ledger[i].of = page}
           IN  IF found = {} THEN 0 ELSE CHOOSE i \in found : \A j \in found : j <= i

\* _review_detail() fills the Cockpit's panel with the page's version and hash
\* and the id of its record; the CLI reads the page and sends no id.
Open(r) ==
  /\ At(r, "idle") /\ calls < MaxCalls
  /\ \E job \in Jobs, given \in {0, Current} :
       /\ call' = [call EXCEPT ![r] = [pc |-> "sent", job |-> job, seen |-> page, given |-> given]]
       /\ read' = IF job \in {"approve", "dismiss"} THEN read \cup {page.text} ELSE read
  /\ calls' = calls + 1
  /\ UNCHANGED <<page, ledger, lock, fence, tool, plan, torn, edits, faults>>

\* LOCK_EX on review.lock; a machine check comes with no version or hash.
Enter(r) ==
  /\ At(r, "sent") /\ lock = None
  /\ lock' = r
  /\ call' = [call EXCEPT ![r].pc = IF call[r].job = "machine" THEN "ensure" ELSE "check"]
  /\ UNCHANGED <<page, ledger, fence, tool, plan, ghosts, counts>>

\* 409 unless the page is the one that was opened.
Check(r) ==
  /\ At(r, "check")
  /\ IF page = call[r].seen
       THEN call' = [call EXCEPT ![r].pc = "ensure"] /\ UNCHANGED lock
       ELSE Return(r)
  /\ UNCHANGED <<page, ledger, fence, tool, plan, ghosts, counts>>

\* A decided request takes no more decisions, and no assignment.
Closed(job) == CASE job \in Decisions -> {"approved", "dismissed"}
                 [] job = "assign"    -> {"approved", "rejected", "dismissed"}
                 [] OTHER             -> {}

\* The request is looked up for the page as it is by now.  409 when it is
\* closed or is not the one that was sent; a new record stays.
Ensure(r) ==
  /\ At(r, "ensure")
  /\ ledger' = Ensured(page, "page")
  /\ LET id  == Request(page, "page")
         c   == call[r]
         rec == ledger'[id]
     IN IF (c.job # "machine" /\ c.given \notin {0, id}) \/ rec.state \in Closed(c.job)
          THEN Return(r)
          ELSE /\ call' = [call EXCEPT ![r] = [pc |-> IF c.job \in Decisions THEN "page" ELSE "record",
                     job |-> c.job, seen |-> c.seen, rid |-> id, rec |-> rec, old |-> page]]
               /\ UNCHANGED lock
  /\ UNCHANGED <<page, fence, tool, plan, ghosts, counts>>

\* Every refusal after that (422) leaves the page and the records alone.
Refuse(r) ==
  /\ At(r, "page")
  /\ Return(r)
  /\ UNCHANGED <<page, ledger, fence, tool, plan, ghosts, counts>>

\* The page that was checked, with the decision's projection, over whatever
\* is there.
PublishPage(r) ==
  /\ At(r, "page")
  /\ LET c == call[r] IN
       page' = [text |-> c.seen.text, version |-> c.seen.version + 1, rid |-> c.rid,
                flag |-> Outcome[c.job].flag, state |-> Outcome[c.job].state]
  /\ call' = [call EXCEPT ![r].pc = "record"]
  /\ UNCHANGED <<ledger, lock, fence, tool, plan, ghosts, counts>>

\* Mutant of Noted: the decision replaces what was recorded before it.
NotedAfresh(rec, job) ==
  IF job = "machine" THEN [rec EXCEPT !.checks = @ + 1]
  ELSE [rec EXCEPT !.state = IF job = "assign" THEN "in-review" ELSE Outcome[job].state,
                   !.history = <<job>>]

\* What a call makes of the record it loaded.
Noted(rec, job) ==
  IF job = "machine" THEN [rec EXCEPT !.checks = @ + 1]
  ELSE [rec EXCEPT !.state = IF job = "assign" THEN "in-review" ELSE Outcome[job].state,
                   !.history = Append(@, job)]

PublishRecord(r) ==
  /\ At(r, "record")
  /\ ledger' = [ledger EXCEPT ![call[r].rid] = Noted(call[r].rec, call[r].job)]
  /\ Return(r)
  /\ UNCHANGED <<page, fence, tool, plan, ghosts, counts>>

\* Mutant of Restored: the page is left as it was published.
RestoredNot(r) == page

\* _restore_review_outputs(): the old page goes back over the new one.
Restored(r) == IF call[r].job \in Decisions /\ At(r, "record") THEN call[r].old ELSE page

\* One of the replaces fails.
Fail(r) ==
  /\ call[r].pc \in {"page", "record"} /\ Faulty
  /\ page' = Restored(r)
  /\ Return(r)
  /\ UNCHANGED <<ledger, fence, tool, plan, ghosts, calls, edits>>

Kill(r) ==
  /\ ~At(r, "idle") /\ Faulty
  /\ torn' = IF At(r, "record") /\ call[r].job \in Decisions THEN torn \cup {call[r].rid} ELSE torn
  /\ Return(r)
  /\ UNCHANGED <<page, ledger, fence, tool, plan, read, calls, edits>>

-----------------------------------------------------------------------------
(* Write tools                                                             *)

\* A tool call waits for the fence and reads the page.
ToolRead(t) ==
  /\ tool[t].pc = "idle" /\ edits < MaxEdits /\ fence = None
  /\ fence' = t /\ edits' = edits + 1
  /\ tool' = [tool EXCEPT ![t] = [pc |-> "write", seen |-> page]]
  /\ UNCHANGED <<page, ledger, lock, call, plan, ghosts, calls, faults>>

Leave(t) == tool' = [tool EXCEPT ![t] = Idle] /\ fence' = None

\* Mutant of Governed: the projection survives an edit.
GovernedNot(p, flagged) == [p EXCEPT !.flag = p.flag \/ flagged]

\* Mutant of Governed: the page keeps the request it named.
GovernedHalf(p, flagged) ==
  [p EXCEPT !.state = "none", !.flag = p.flag \/ p.state # "none" \/ flagged]

\* _apply_review_governance(): an edit drops the projection, and what was
\* decided or flagged before is flagged.
Governed(p, flagged) ==
  [p EXCEPT !.state = "none", !.rid = 0, !.flag = p.flag \/ p.state # "none" \/ flagged]

\* _update(), from the page it read; _queue_review() follows when the edit
\* raised a flag of its own.
ToolWrite(t) ==
  /\ tool[t].pc = "write"
  /\ LET p == tool[t].seen IN
       \E other \in BOOLEAN :
         LET flagged == other \/ p.state # "none" IN
         /\ page' = [Governed(p, flagged) EXCEPT !.text = edits, !.version = p.version + 1]
         /\ IF flagged
              THEN tool' = [tool EXCEPT ![t] = [pc |-> "queue"]] /\ UNCHANGED fence
              ELSE Leave(t)
  /\ UNCHANGED <<ledger, lock, call, plan, ghosts, counts>>

ToolQueue(t) ==
  /\ tool[t].pc = "queue"
  /\ ledger' = Ensured(page, "flags")
  /\ Leave(t)
  /\ UNCHANGED <<page, lock, call, plan, ghosts, counts>>

\* Refused by one of the checks, or killed.
ToolEnds(t) ==
  /\ tool[t].pc # "idle"
  /\ \/ tool[t].pc = "write" /\ UNCHANGED faults
     \/ tool[t].pc = "queue" /\ Faulty
  /\ Leave(t)
  /\ UNCHANGED <<page, ledger, lock, call, plan, ghosts, calls, edits>>

-----------------------------------------------------------------------------
(* framework review --reconcile --apply, which takes neither lock          *)

\* The open records are read, then the page, and what is to be closed is
\* decided: all of them when the page needs no review, else all but the newest.
OpenRecords == {i \in DOMAIN ledger : ledger[i].state = "open"}
Reconcile ==
  /\ plan = None
  /\ LET stale == {i \in OpenRecords : ~page.flag \/ \E j \in OpenRecords : i < j} IN
       /\ stale # {}
       /\ plan' = [i \in stale |-> ledger[i]]
  /\ UNCHANGED <<page, ledger, lock, fence, call, tool, ghosts, counts>>

\* The record that was read goes back with one more event.
CloseRecord ==
  /\ plan # None
  /\ \E i \in DOMAIN plan :
       /\ \A j \in DOMAIN plan : i <= j
       /\ ledger' = [ledger EXCEPT ![i] = [plan[i] EXCEPT !.state = "dismissed",
                                                          !.history = Append(@, "reconcile")]]
       /\ plan' = IF DOMAIN plan = {i} THEN None ELSE [j \in DOMAIN plan \ {i} |-> plan[j]]
  /\ UNCHANGED <<page, lock, fence, call, tool, ghosts, counts>>

-----------------------------------------------------------------------------
Reviewing(r) ==
  \/ Open(r) \/ Enter(r) \/ Check(r) \/ Ensure(r) \/ Refuse(r)
  \/ PublishPage(r) \/ PublishRecord(r) \/ Fail(r) \/ Kill(r)

Editing(t) == ToolRead(t) \/ ToolWrite(t) \/ ToolQueue(t) \/ ToolEnds(t)

Next ==
  \/ \E r \in Reviewers : Reviewing(r)
  \/ \E t \in Tools : Editing(t)
  \/ Reconcile \/ CloseRecord

Spec == Init /\ [][Next]_vars

-----------------------------------------------------------------------------
(* Properties                                                              *)

States == {"open", "in-review"} \cup {Outcome[d].state : d \in Decisions}

\* The page, the records and the calls keep their shape, and a page that shows
\* a review names its request.
TypeOK ==
  /\ page.text \in 0..MaxEdits /\ page.version \in Nat /\ page.flag \in BOOLEAN
  /\ page.state \in States \cup {"none"} /\ page.rid \in 0..Len(ledger)
  /\ (page.state = "none") <=> (page.rid = 0)
  /\ \A i \in DOMAIN ledger : ledger[i].state \in States /\ ledger[i].checks \in 0..MaxCalls
  /\ lock \in Reviewers \cup {None} /\ fence \in Tools \cup {None}
  /\ \A r \in Reviewers : call[r].pc \in {"idle", "sent", "check", "ensure", "page", "record"}
  /\ \A t \in Tools : tool[t].pc \in {"idle", "write", "queue"}
  /\ calls \in 0..MaxCalls /\ edits \in 0..MaxEdits /\ faults \in 0..MaxFaults
  /\ torn \subseteq DOMAIN ledger /\ read \subseteq 0..MaxEdits

\* A page that is shown as approved or dismissed says what some reviewer had read
\* and sent back with an approval or a dismissal, whoever wrote in between.
DecidedTextWasRead == page.state \in {"approved", "dismissed"} => page.text \in read

\* A decision the page shows is what the ledger records for the request it names,
\* unless the decision is still on its way, its process was killed between the
\* two replaces, or a reconciliation has closed the request over it.  A failed
\* replace leaves nothing behind.
Publishing(i) == \E r \in Reviewers : At(r, "record") /\ call[r].rid = i
Reconciled(i) == ledger[i].history # <<>> /\ Last(ledger[i].history) = "reconcile"
LedgerBacksPage ==
  page.state \in {"none", "open"} \/ page.rid \in torn \/ Publishing(page.rid)
    \/ ledger[page.rid].state = page.state \/ Reconciled(page.rid)

\* "History is appended, never replaced, so each closure is auditable": so it is
\* with every call of the review service and of the tools.  The reconciliation
\* takes no lock: it drops what was decided after it had read the record, and a
\* call that had loaded the record drops the closure.
Overwritten(i) ==
  \/ CloseRecord /\ i \in DOMAIN plan /\ plan[i].history # ledger[i].history
  \/ Reconciled(i) /\ \E r \in Reviewers : PublishRecord(r) /\ call[r].rec.history # ledger[i].history
HistoryGrows ==
  \A i \in DOMAIN ledger : /\ i \in DOMAIN ledger'
                           /\ IsPrefix(ledger[i].history, ledger'[i].history) \/ Overwritten(i)
HistoryOnlyGrows == [][HistoryGrows]_vars

\* "Ordinary entity updates cannot [...] clear an existing flag."
UpdatesKeepFlag ==
  [][(\E t \in Tools : ToolWrite(t)) => (page.flag => page'.flag)]_vars
=============================================================================
