----------------------- MODULE ReviewDecisionsProofs -----------------------
(* Machine-checked theorems about ReviewDecisions.                         *)
EXTENDS ReviewDecisions, FiniteSetTheorems, TLAPS

-----------------------------------------------------------------------------
(* Types                                                                   *)

Events == Decisions \cup {"assign", "machine", "reconcile"}

PageSet == [text : Nat, version : Nat, flag : BOOLEAN, state : States \cup {"none"}, rid : Nat]
Rec     == [of : PageSet, reasons : {"page", "flags"}, state : States, history : Seq(Events),
            checks : Nat]

\* A call before its request was looked up, and after.
IsSent(c) ==
  /\ c = [pc |-> c.pc, job |-> c.job, seen |-> c.seen, given |-> c.given]
  /\ c.pc \in {"sent", "check", "ensure"} /\ c.job \in Jobs /\ c.seen \in PageSet
Booked == [pc : {"page", "record"}, job : Jobs, seen : PageSet, rid : Nat, rec : Rec, old : PageSet]

\* A page names a request exactly when it shows a review.
Named(p, n) == p.rid \in 0..n /\ (p.state = "none" <=> p.rid = 0)

Calls ==
  /\ DOMAIN call = Reviewers
  /\ \A r \in Reviewers : call[r] = Idle \/ IsSent(call[r]) \/ call[r] \in Booked
  /\ \A r \in Reviewers : call[r] \in Booked =>
       /\ call[r].rid \in 1..Len(ledger) /\ Named(call[r].old, Len(ledger))
       /\ call[r].pc = "page" => call[r].job \in Decisions

Typed ==
  /\ page \in PageSet /\ ledger \in Seq(Rec) /\ Named(page, Len(ledger)) /\ Calls
  /\ DOMAIN tool = Tools
  /\ \A t \in Tools : tool[t].pc = "write" => tool[t].seen \in PageSet
  /\ plan # None => \A i \in DOMAIN plan : i \in 1..Len(ledger) /\ plan[i] \in Rec
  /\ edits \in Nat

\* What the decisions lead to.
LEMMA Outcomes ==
  /\ Decisions = {"approve", "request_changes", "reject", "dismiss", "defer"}
  /\ States = {"open", "in-review", "approved", "changes-requested", "rejected", "dismissed"}
  /\ \A d \in Decisions :
       /\ Outcome[d].flag \in BOOLEAN /\ Outcome[d].state \in States
       /\ Outcome[d].state \in {"approved", "dismissed"} => d \in {"approve", "dismiss"}
<1>1. Decisions = {"approve", "request_changes", "reject", "dismiss", "defer"}
  BY DEF Decisions, Outcome
<1>2. /\ Outcome["approve"] = [state |-> "approved", flag |-> FALSE]
      /\ Outcome["request_changes"] = [state |-> "changes-requested", flag |-> TRUE]
      /\ Outcome["reject"] = [state |-> "rejected", flag |-> TRUE]
      /\ Outcome["dismiss"] = [state |-> "dismissed", flag |-> FALSE]
      /\ Outcome["defer"] = [state |-> "open", flag |-> TRUE]
  BY DEF Outcome
<1>3. States = {"open", "in-review", "approved", "changes-requested", "rejected", "dismissed"}
  BY <1>1, <1>2 DEF States
<1>4. ASSUME NEW d \in Decisions
      PROVE  /\ Outcome[d].flag \in BOOLEAN /\ Outcome[d].state \in States
             /\ Outcome[d].state \in {"approved", "dismissed"} => d \in {"approve", "dismiss"}
  <2>1. CASE d = "approve" BY <2>1, <1>2, <1>3
  <2>2. CASE d = "request_changes" BY <2>2, <1>2, <1>3
  <2>3. CASE d = "reject" BY <2>3, <1>2, <1>3
  <2>4. CASE d = "dismiss" BY <2>4, <1>2, <1>3
  <2>5. CASE d = "defer" BY <2>5, <1>2, <1>3
  <2> QED BY <2>1, <2>2, <2>3, <2>4, <2>5, <1>1
<1> QED BY <1>1, <1>3, <1>4

\* Looking a request up finds one for this page, or appends it.
LEMMA EnsuredIs ==
  ASSUME Typed, NEW reasons \in {"page", "flags"}
  PROVE  /\ Ensured(page, reasons) \in Seq(Rec)
         /\ Len(Ensured(page, reasons)) >= Len(ledger)
         /\ \A i \in 1..Len(ledger) : Ensured(page, reasons)[i] = ledger[i]
         /\ Request(page, reasons) \in 1..Len(Ensured(page, reasons))
         /\ Ensured(page, reasons)[Request(page, reasons)].of = page
         /\ \A i \in 1..Len(Ensured(page, reasons)) :
              i > Len(ledger) => Ensured(page, reasons)[i] = NewRecord(page, reasons)
<1> DEFINE found == {i \in DOMAIN ledger : ledger[i].of = page /\ ledger[i].reasons = reasons}
<1>1. ledger \in Seq(Rec) /\ DOMAIN ledger = 1..Len(ledger) /\ Len(ledger) \in Nat
  BY DEF Typed
<1>2. NewRecord(page, reasons) \in Rec /\ NewRecord(page, reasons).of = page
  BY Outcomes DEF Typed, NewRecord, Rec
<1>3. CASE found = {}
  <2>1. Find(page, reasons) = 0
    BY <1>3 DEF Find
  <2>2. Ensured(page, reasons) = Append(ledger, NewRecord(page, reasons))
        /\ Request(page, reasons) = Len(ledger) + 1
    BY <2>1 DEF Ensured, Request
  <2> QED BY <1>1, <1>2, <2>2
<1>4. CASE found # {}
  <2>1. Find(page, reasons) \in found
    <3>1. Find(page, reasons) = CHOOSE i \in found : TRUE
      BY <1>4 DEF Find
    <3> QED BY <1>4, <3>1
  <2>2. Find(page, reasons) # 0
    BY <1>1, <2>1
  <2>3. Ensured(page, reasons) = ledger /\ Request(page, reasons) = Find(page, reasons)
    BY <2>2 DEF Ensured, Request
  <2> QED BY <1>1, <2>1, <2>3
<1> QED BY <1>3, <1>4

LEMMA TypedInit == Init => Typed
<1> SUFFICES ASSUME Init PROVE Typed
  OBVIOUS
<1>1. page \in PageSet /\ page.rid = 0 /\ page.state = "none"
  BY DEF Init, PageSet
<1>2. ledger \in Seq(Rec) /\ Len(ledger) = 0
  BY DEF Init
<1>3. "none" \notin States /\ \A r \in Reviewers : call[r] = Idle
  BY Outcomes DEF Init
<1>4. Idle \notin Booked
  BY DEF Idle, Booked
<1> QED BY <1>1, <1>2, <1>3, <1>4 DEF Init, Typed, Calls, Named, Idle

\* A step of one call.
LEMMA CallsStep ==
  ASSUME Typed, NEW r \in Reviewers, NEW c, call' = [call EXCEPT ![r] = c],
         Len(ledger) <= Len(ledger'), ledger' \in Seq(Rec),
         \/ c = Idle
         \/ IsSent(c)
         \/ /\ c \in Booked /\ c.rid \in 1..Len(ledger') /\ c.old.rid \in 0..Len(ledger')
            /\ (c.old.state = "none" <=> c.old.rid = 0)
            /\ c.pc = "page" => c.job \in Decisions
  PROVE  Calls'
<1>1. DOMAIN call' = Reviewers /\ call'[r] = c /\ \A q \in Reviewers \ {r} : call'[q] = call[q]
  BY DEF Typed, Calls
<1>2. Idle \notin Booked /\ \A d : IsSent(d) => d \notin Booked
  BY DEF Idle, Booked, IsSent
<1>3. Len(ledger) \in Nat /\ Len(ledger') \in Nat
  BY DEF Typed
<1>4. ASSUME NEW q \in Reviewers
      PROVE  /\ call'[q] = Idle \/ IsSent(call'[q]) \/ call'[q] \in Booked
             /\ call'[q] \in Booked =>
                  /\ call'[q].rid \in 1..Len(ledger') /\ Named(call'[q].old, Len(ledger'))
                  /\ call'[q].pc = "page" => call'[q].job \in Decisions
  <2>1. CASE q = r
    BY <2>1, <1>1, <1>2, <1>3 DEF Named
  <2>2. CASE q # r
    <3>1. call'[q] = call[q]
      BY <2>2, <1>1
    <3> QED BY <3>1, <1>3 DEF Typed, Calls, Named
  <2> QED BY <2>1, <2>2
<1> QED BY <1>1, <1>4 DEF Calls, IsSent

\* The ledger grows, and the calls stay as they are.
LEMMA CallsKept ==
  ASSUME Typed, UNCHANGED call, Len(ledger) <= Len(ledger'), ledger' \in Seq(Rec)
  PROVE  Calls'
<1>1. Len(ledger) \in Nat /\ Len(ledger') \in Nat
  BY DEF Typed
<1> QED BY <1>1 DEF Typed, Calls, Named, IsSent

\* A step that leaves the ledger alone, or page and ledger.
LEMMA SameLedger ==
  ASSUME Typed, UNCHANGED ledger
  PROVE  Len(ledger) <= Len(ledger') /\ ledger' \in Seq(Rec) /\ Len(ledger') = Len(ledger)
<1>1. Len(ledger) \in Nat /\ ledger \in Seq(Rec)
  BY DEF Typed
<1> QED BY <1>1

LEMMA SamePage ==
  ASSUME Typed, UNCHANGED <<page, ledger>>
  PROVE  /\ Len(ledger) <= Len(ledger') /\ ledger' \in Seq(Rec)
         /\ page' \in PageSet /\ Named(page', Len(ledger'))
BY SameLedger DEF Typed

\* A step of a reviewer's call.
LEMMA TypedCall ==
  ASSUME Typed, NEW r \in Reviewers, NEW c, call' = [call EXCEPT ![r] = c],
         UNCHANGED <<tool, plan, edits>>, page' \in PageSet, Named(page', Len(ledger')),
         Len(ledger) <= Len(ledger'), ledger' \in Seq(Rec),
         \/ c = Idle
         \/ IsSent(c)
         \/ /\ c \in Booked /\ c.rid \in 1..Len(ledger') /\ Named(c.old, Len(ledger'))
            /\ c.pc = "page" => c.job \in Decisions
  PROVE  Typed'
<1>1. Calls'
  BY CallsStep DEF Named
<1>2. Len(ledger) \in Nat /\ Len(ledger') \in Nat
  BY DEF Typed
<1> QED BY <1>1, <1>2 DEF Typed

\* A step of a tool.
LEMMA TypedTool ==
  ASSUME Typed, NEW t \in Tools, NEW c, tool' = [tool EXCEPT ![t] = c],
         c.pc = "write" => c.seen \in PageSet,
         UNCHANGED <<call, plan>>, page' \in PageSet, Named(page', Len(ledger')), edits' \in Nat,
         Len(ledger) <= Len(ledger'), ledger' \in Seq(Rec)
  PROVE  Typed'
<1>1. Calls'
  BY CallsKept
<1>2. Len(ledger) \in Nat /\ Len(ledger') \in Nat
  BY DEF Typed
<1>3. DOMAIN tool' = Tools /\ \A u \in Tools : tool'[u].pc = "write" => tool'[u].seen \in PageSet
  BY DEF Typed
<1> QED BY <1>1, <1>2, <1>3 DEF Typed

LEMMA TypedStep == Typed /\ [Next]_vars => Typed'
<1> SUFFICES ASSUME Typed, [Next]_vars PROVE Typed'
  OBVIOUS
<1>0. /\ Len(ledger) \in Nat /\ ledger \in Seq(Rec) /\ DOMAIN ledger = 1..Len(ledger)
      /\ Idle.pc = "idle" /\ page \in PageSet /\ Named(page, Len(ledger)) /\ edits \in Nat
  BY DEF Typed, Idle
<1>1. ASSUME NEW r \in Reviewers, Open(r) PROVE Typed'
  <2>1. PICK job \in Jobs, given \in {0, Current} :
          call' = [call EXCEPT ![r] = [pc |-> "sent", job |-> job, seen |-> page, given |-> given]]
    BY <1>1 DEF Open, counts
  <2>2. IsSent([pc |-> "sent", job |-> job, seen |-> page, given |-> given])
    BY <1>0 DEF IsSent
  <2>3. UNCHANGED <<tool, plan, edits, page, ledger>>
    BY <1>1 DEF Open, counts
  <2> QED BY <2>1, <2>2, <2>3, SamePage, TypedCall
<1>2. ASSUME NEW r \in Reviewers, Enter(r) \/ Check(r) \/ Refuse(r) \/ Kill(r) PROVE Typed'
  <2>1. UNCHANGED <<tool, plan, edits, page, ledger>>
    BY <1>2 DEF Enter, Check, Refuse, Kill, counts
  <2>2. CASE call' = [call EXCEPT ![r] = Idle]
    BY <2>1, <2>2, SamePage, TypedCall
  <2>3. ASSUME NEW to \in {"check", "ensure"}, call' = [call EXCEPT ![r].pc = to],
               call[r].pc \in {"sent", "check"}
        PROVE  Typed'
    <3>1. IsSent(call[r])
      BY <2>3, <1>0 DEF Typed, Calls, Booked
    <3>2. IsSent([call[r] EXCEPT !.pc = to])
      BY <3>1 DEF IsSent
    <3>3. call' = [call EXCEPT ![r] = [call[r] EXCEPT !.pc = to]]
      BY <2>3
    <3> QED BY <2>1, <3>2, <3>3, SamePage, TypedCall
  <2> QED BY <2>2, <2>3, <1>2 DEF Enter, Check, Refuse, Kill, Return, At
<1>3. ASSUME NEW r \in Reviewers, Ensure(r) PROVE Typed'
  <2> DEFINE id == Request(page, "page")
             c  == [pc |-> IF call[r].job \in Decisions THEN "page" ELSE "record",
                    job |-> call[r].job, seen |-> call[r].seen, rid |-> id,
                    rec |-> ledger'[id], old |-> page]
  <2>1. ledger' = Ensured(page, "page") /\ ledger' \in Seq(Rec) /\ Len(ledger') >= Len(ledger)
        /\ id \in 1..Len(ledger')
    BY <1>3, EnsuredIs DEF Ensure
  <2>2. IsSent(call[r])
    BY <1>3, <1>0 DEF Ensure, At, Typed, Calls, Booked
  <2>3. call' = [call EXCEPT ![r] = Idle] \/ call' = [call EXCEPT ![r] = c]
    BY <1>3 DEF Ensure, Return
  <2>4. c \in Booked /\ (c.pc = "page" => c.job \in Decisions)
    BY <2>1, <2>2, <1>0 DEF Booked, IsSent
  <2>5. Len(ledger') \in Nat
    BY <2>1
  <2>6. c.rid \in 1..Len(ledger') /\ Named(c.old, Len(ledger')) /\ Named(page, Len(ledger'))
    BY <2>1, <2>5, <1>0 DEF Named
  <2>7. UNCHANGED <<tool, plan, edits, page>>
    BY <1>3 DEF Ensure, counts
  <2> HIDE DEF c
  <2> QED BY <2>1, <2>3, <2>4, <2>5, <2>6, <2>7, <1>0, TypedCall
<1>4. ASSUME NEW r \in Reviewers, PublishPage(r) PROVE Typed'
  <2>1. call[r] \in Booked /\ call[r].pc = "page"
    BY <1>4, <1>0 DEF PublishPage, At, Typed, Calls, IsSent
  <2>2. call[r].job \in Decisions /\ call[r].rid \in 1..Len(ledger)
        /\ Named(call[r].old, Len(ledger)) /\ call[r].seen \in PageSet
    BY <2>1 DEF Typed, Calls, Booked
  <2>3. page' \in PageSet /\ Named(page', Len(ledger))
    <3>1. Outcome[call[r].job].flag \in BOOLEAN /\ Outcome[call[r].job].state \in States
          /\ "none" \notin States
      BY <2>2, Outcomes
    <3>2. page' = [text |-> call[r].seen.text, version |-> call[r].seen.version + 1,
                    rid |-> call[r].rid, flag |-> Outcome[call[r].job].flag,
                    state |-> Outcome[call[r].job].state]
      BY <1>4 DEF PublishPage
    <3>3. call[r].seen.text \in Nat /\ call[r].seen.version + 1 \in Nat
      BY <2>2 DEF PageSet
    <3>4. call[r].rid \in Nat /\ call[r].rid # 0 /\ call[r].rid \in 0..Len(ledger)
      BY <2>2, <1>0
    <3> HIDE DEF Outcome
    <3> QED BY <3>1, <3>2, <3>3, <3>4 DEF PageSet, Named
  <2>4. [call[r] EXCEPT !.pc = "record"] \in Booked
        /\ [call[r] EXCEPT !.pc = "record"].rid = call[r].rid
        /\ [call[r] EXCEPT !.pc = "record"].old = call[r].old
        /\ [call[r] EXCEPT !.pc = "record"].pc = "record"
    BY <2>1 DEF Booked
  <2>5. call' = [call EXCEPT ![r] = [call[r] EXCEPT !.pc = "record"]]
        /\ UNCHANGED <<tool, plan, edits, ledger>>
    BY <1>4 DEF PublishPage, counts
  <2>6. Named(page', Len(ledger')) /\ call[r].rid \in 1..Len(ledger') /\ Named(call[r].old, Len(ledger'))
    BY <2>2, <2>3, <2>5, SameLedger
  <2> QED BY <2>3, <2>4, <2>5, <2>6, SameLedger, TypedCall
<1>5. ASSUME NEW r \in Reviewers, PublishRecord(r) PROVE Typed'
  <2>1. call[r] \in Booked /\ call[r].pc = "record"
    BY <1>5, <1>0 DEF PublishRecord, At, Typed, Calls, IsSent
  <2>2. Noted(call[r].rec, call[r].job) \in Rec
    <3>1. call[r].rec \in Rec /\ call[r].job \in Jobs
      BY <2>1 DEF Booked
    <3>2. call[r].job \in Events /\ (call[r].job \in Decisions \/ call[r].job \in {"assign", "machine"})
      BY <3>1, ReviewAssumption DEF Events
    <3>3. CASE call[r].job = "machine"
      BY <3>1, <3>3 DEF Noted, Rec
    <3>4. CASE call[r].job # "machine"
      <4> DEFINE to == IF call[r].job = "assign" THEN "in-review" ELSE Outcome[call[r].job].state
      <4>1. to \in States
        BY <3>2, <3>4, Outcomes
      <4>2. Append(call[r].rec.history, call[r].job) \in Seq(Events)
        BY <3>1, <3>2 DEF Rec
      <4>3. Noted(call[r].rec, call[r].job)
              = [call[r].rec EXCEPT !.state = to, !.history = Append(@, call[r].job)]
        BY <3>4 DEF Noted
      <4> HIDE DEF to
      <4> QED BY <3>1, <4>1, <4>2, <4>3 DEF Rec
    <3> QED BY <3>3, <3>4
  <2>3. ledger' \in Seq(Rec) /\ Len(ledger') = Len(ledger)
    <3>1. ledger' = [ledger EXCEPT ![call[r].rid] = Noted(call[r].rec, call[r].job)]
      BY <1>5 DEF PublishRecord
    <3>2. call[r].rid \in 1..Len(ledger)
      BY <2>1 DEF Typed, Calls
    <3> QED BY <2>2, <3>1, <3>2, <1>0
  <2>4. call' = [call EXCEPT ![r] = Idle] /\ UNCHANGED <<tool, plan, edits, page>>
    BY <1>5 DEF PublishRecord, Return, counts
  <2>5. Named(page', Len(ledger')) /\ page' \in PageSet /\ Len(ledger) <= Len(ledger')
    BY <2>3, <2>4, <1>0
  <2> QED BY <2>3, <2>4, <2>5, TypedCall
<1>6. ASSUME NEW r \in Reviewers, Fail(r) PROVE Typed'
  <2>1. call[r] \in Booked
    BY <1>6, <1>0 DEF Fail, Typed, Calls, IsSent
  <2>2. call[r].old \in PageSet /\ Named(call[r].old, Len(ledger))
    BY <2>1 DEF Typed, Calls, Booked
  <2>3. page' \in PageSet /\ Named(page', Len(ledger))
    BY <2>2, <1>0, <1>6 DEF Fail, Restored
  <2>4. call' = [call EXCEPT ![r] = Idle] /\ UNCHANGED <<tool, plan, edits, ledger>>
    BY <1>6 DEF Fail, Return, counts
  <2>5. Named(page', Len(ledger'))
    BY <2>3, <2>4, SameLedger
  <2> QED BY <2>3, <2>4, <2>5, SameLedger, TypedCall
<1>7. ASSUME NEW t \in Tools, ToolRead(t) \/ ToolEnds(t) PROVE Typed'
  <2>1. \E c : tool' = [tool EXCEPT ![t] = c] /\ (c.pc = "write" => c.seen \in PageSet)
    <3>1. tool' = [tool EXCEPT ![t] = [pc |-> "write", seen |-> page]]
          \/ tool' = [tool EXCEPT ![t] = Idle]
      BY <1>7 DEF ToolRead, ToolEnds, Leave
    <3> QED BY <3>1, <1>0
  <2>2. UNCHANGED <<page, ledger, call, plan>> /\ edits' \in Nat
    BY <1>7, <1>0 DEF ToolRead, ToolEnds, counts
  <2> QED BY <2>1, <2>2, SamePage, TypedTool
<1>8. ASSUME NEW t \in Tools, ToolWrite(t) PROVE Typed'
  <2>1. \E c : tool' = [tool EXCEPT ![t] = c] /\ (c.pc = "write" => c.seen \in PageSet)
    <3>1. tool' = [tool EXCEPT ![t] = [pc |-> "queue"]] \/ tool' = [tool EXCEPT ![t] = Idle]
      BY <1>8 DEF ToolWrite, Leave
    <3> QED BY <3>1, <1>0
  <2>2. page' \in PageSet /\ page'.rid = 0 /\ page'.state = "none"
    <3>1. tool[t].seen \in PageSet
      BY <1>8 DEF ToolWrite, Typed
    <3>2. PICK f \in BOOLEAN :
            page' = [Governed(tool[t].seen, f) EXCEPT !.text = edits,
                                                      !.version = tool[t].seen.version + 1]
      <4>1. (tool[t].seen.state # "none") \in BOOLEAN
        OBVIOUS
      <4> QED BY <4>1, <1>8 DEF ToolWrite
    <3>3. Governed(tool[t].seen, f) \in PageSet /\ Governed(tool[t].seen, f).rid = 0
          /\ Governed(tool[t].seen, f).state = "none"
      BY <3>1 DEF Governed, PageSet
    <3>4. ASSUME NEW g \in PageSet, g.rid = 0, g.state = "none", NEW v \in Nat
          PROVE  /\ [g EXCEPT !.text = edits, !.version = v] \in PageSet
                 /\ [g EXCEPT !.text = edits, !.version = v].rid = 0
                 /\ [g EXCEPT !.text = edits, !.version = v].state = "none"
      BY <3>4, <1>0 DEF PageSet
    <3>5. tool[t].seen.version + 1 \in Nat
      BY <3>1 DEF PageSet
    <3> QED BY <3>2, <3>3, <3>4, <3>5
  <2>3. UNCHANGED <<ledger, call, plan, edits>>
    BY <1>8 DEF ToolWrite, counts
  <2>4. Named(page', Len(ledger'))
    BY <2>2, <2>3, SameLedger, <1>0 DEF Named
  <2>5. edits' \in Nat
    BY <2>3, <1>0
  <2> QED BY <2>1, <2>2, <2>3, <2>4, <2>5, SameLedger, TypedTool
<1>9. ASSUME NEW t \in Tools, ToolQueue(t) PROVE Typed'
  <2>1. ledger' \in Seq(Rec) /\ Len(ledger') >= Len(ledger)
    BY <1>9, EnsuredIs DEF ToolQueue
  <2>2. tool' = [tool EXCEPT ![t] = Idle] /\ UNCHANGED <<page, call, plan, edits>>
    BY <1>9 DEF ToolQueue, Leave, counts
  <2>3. Len(ledger') \in Nat
    BY <2>1
  <2>4. Named(page, Len(ledger'))
    BY <2>1, <2>3, <1>0 DEF Named
  <2> QED BY <2>1, <2>2, <2>4, <1>0, TypedTool
<1>10. CASE Reconcile
  <2>1. \A i \in DOMAIN plan' : i \in 1..Len(ledger) /\ plan'[i] \in Rec
    BY <1>10, <1>0 DEF Reconcile, OpenRecords
  <2>2. UNCHANGED <<page, ledger, call, tool, edits>>
    BY <1>10 DEF Reconcile, counts
  <2>3. Calls'
    BY <2>2, <1>0, CallsKept
  <2> QED BY <2>1, <2>2, <2>3 DEF Typed
<1>11. CASE CloseRecord
  <2>1. PICK i \in DOMAIN plan :
          /\ ledger' = [ledger EXCEPT ![i] = [plan[i] EXCEPT !.state = "dismissed",
                                                             !.history = Append(@, "reconcile")]]
          /\ plan' = IF DOMAIN plan = {i} THEN None ELSE [j \in DOMAIN plan \ {i} |-> plan[j]]
    BY <1>11 DEF CloseRecord
  <2>2. i \in 1..Len(ledger) /\ plan[i] \in Rec /\ plan # None
    BY <1>11 DEF CloseRecord, Typed
  <2>3. [plan[i] EXCEPT !.state = "dismissed", !.history = Append(@, "reconcile")] \in Rec
    <3>1. "dismissed" \in States /\ "reconcile" \in Events
      BY Outcomes DEF Events
    <3>2. Append(plan[i].history, "reconcile") \in Seq(Events)
      BY <2>2, <3>1 DEF Rec
    <3> QED BY <2>2, <3>1, <3>2 DEF Rec
  <2>4. ledger' \in Seq(Rec) /\ Len(ledger') = Len(ledger)
    BY <2>1, <2>2, <2>3, <1>0
  <2>5. plan' # None => \A j \in DOMAIN plan' : j \in DOMAIN plan /\ plan'[j] = plan[j]
    BY <2>1
  <2>6. UNCHANGED <<page, call, tool, edits>>
    BY <1>11 DEF CloseRecord, counts
  <2>7. Calls'
    BY <2>4, <2>6, <1>0, CallsKept
  <2>8. plan' # None => \A j \in DOMAIN plan' : j \in 1..Len(ledger') /\ plan'[j] \in Rec
    BY <2>2, <2>4, <2>5 DEF Typed
  <2> QED BY <2>4, <2>6, <2>7, <2>8 DEF Typed
<1>12. CASE UNCHANGED vars
  <2>1. UNCHANGED <<page, ledger, call, tool, plan, edits>>
    BY <1>12 DEF vars, counts
  <2>2. Calls'
    BY <2>1, <1>0, CallsKept
  <2> QED BY <2>1, <2>2 DEF Typed
<1> QED
  BY <1>1, <1>2, <1>3, <1>4, <1>5, <1>6, <1>7, <1>8, <1>9, <1>10, <1>11, <1>12
  DEF Next, Reviewing, Editing

-----------------------------------------------------------------------------
(* What was read                                                           *)

Settling == {"approved", "dismissed"}
Read(p)  == p.state \in Settling => p.text \in read

\* The page, and what a failing decision puts back, say what was read; so does
\* the page a call that approves or dismisses was sent for.
Quoted ==
  /\ Read(page)
  /\ \A r \in Reviewers :
       /\ call[r].pc # "idle" /\ call[r].job \in {"approve", "dismiss"} => call[r].seen.text \in read
       /\ call[r].pc \in {"page", "record"} => Read(call[r].old)

LEMMA QuotedStep == Typed /\ Quoted /\ [Next]_vars => Quoted'
<1> SUFFICES ASSUME Typed, Quoted, [Next]_vars PROVE Quoted'
  OBVIOUS
<1>0. DOMAIN call = Reviewers /\ Idle.pc = "idle"
  BY DEF Typed, Calls, Idle
\* A step of a call, with what was read before still known.
<1>a. ASSUME NEW r \in Reviewers, NEW c, call' = [call EXCEPT ![r] = c], read \subseteq read',
             page'.state \in Settling => page'.text \in read',
             c.pc # "idle" /\ c.job \in {"approve", "dismiss"} => c.seen.text \in read',
             c.pc \in {"page", "record"} => (c.old.state \in Settling => c.old.text \in read')
      PROVE  Quoted'
  <2>1. ASSUME NEW q \in Reviewers
        PROVE  /\ call'[q].pc # "idle" /\ call'[q].job \in {"approve", "dismiss"} =>
                    call'[q].seen.text \in read'
               /\ call'[q].pc \in {"page", "record"} =>
                    (call'[q].old.state \in Settling => call'[q].old.text \in read')
    <3>1. CASE q = r
      <4>1. call'[q] = c
        BY <3>1, <1>a, <1>0
      <4> QED BY <4>1, <1>a
    <3>2. CASE q # r
      <4>1. call'[q] = call[q]
        BY <3>2, <1>a, <1>0
      <4> QED BY <4>1, <1>a DEF Quoted, Read
    <3> QED BY <3>1, <3>2
  <2> QED BY <2>1, <1>a DEF Quoted, Read
\* A step that leaves calls and page alone.
<1>b. ASSUME UNCHANGED <<call, read>>, page'.state \in Settling => page'.text \in read PROVE Quoted'
  BY <1>b DEF Quoted, Read
<1>1. ASSUME NEW r \in Reviewers, Open(r) PROVE Quoted'
  <2>1. PICK job \in Jobs, given \in {0, Current} :
          /\ call' = [call EXCEPT ![r] = [pc |-> "sent", job |-> job, seen |-> page, given |-> given]]
          /\ read' = IF job \in {"approve", "dismiss"} THEN read \cup {page.text} ELSE read
    BY <1>1 DEF Open
  <2>2. read \subseteq read' /\ page' = page
    BY <2>1, <1>1 DEF Open
  <2>3. page'.state \in Settling => page'.text \in read'
    BY <2>2 DEF Quoted, Read
  <2> QED BY <2>1, <2>2, <2>3, <1>a
<1>2. ASSUME NEW r \in Reviewers, Enter(r) \/ Check(r) \/ Refuse(r) \/ Kill(r) \/ PublishRecord(r)
      PROVE  Quoted'
  <2>1. UNCHANGED <<page, read>>
    BY <1>2 DEF Enter, Check, Refuse, Kill, PublishRecord, ghosts
  <2>2. page'.state \in Settling => page'.text \in read'
    BY <2>1 DEF Quoted, Read
  <2>3. CASE call' = [call EXCEPT ![r] = Idle]
    BY <2>1, <2>2, <2>3, <1>0, <1>a
  <2>4. ASSUME NEW to \in {"check", "ensure"}, call' = [call EXCEPT ![r].pc = to],
               call[r].pc \in {"sent", "check"}
        PROVE  Quoted'
    <3> DEFINE c == [call[r] EXCEPT !.pc = to]
    <3>1. IsSent(call[r])
      BY <2>4, <1>0 DEF Typed, Calls, Booked
    <3>2. c.pc = to /\ c.job = call[r].job /\ c.seen = call[r].seen
      BY <3>1 DEF IsSent
    <3>3. c.job \in {"approve", "dismiss"} => c.seen.text \in read'
      BY <2>1, <2>4, <3>2 DEF Quoted
    <3>4. call' = [call EXCEPT ![r] = c]
      BY <2>4
    <3> HIDE DEF c
    <3> QED BY <2>1, <2>2, <3>2, <3>3, <3>4, <1>a
  <2> QED BY <2>3, <2>4, <1>2 DEF Enter, Check, Refuse, Kill, PublishRecord, Return, At
<1>3. ASSUME NEW r \in Reviewers, Ensure(r) PROVE Quoted'
  <2> DEFINE c == [pc |-> IF call[r].job \in Decisions THEN "page" ELSE "record",
                   job |-> call[r].job, seen |-> call[r].seen, rid |-> Request(page, "page"),
                   rec |-> ledger'[Request(page, "page")], old |-> page]
  <2>1. call' = [call EXCEPT ![r] = Idle] \/ call' = [call EXCEPT ![r] = c]
    BY <1>3 DEF Ensure, Return
  <2>2. UNCHANGED <<page, read>> /\ call[r].pc = "ensure"
    BY <1>3 DEF Ensure, ghosts, At
  <2>3. c.job \in {"approve", "dismiss"} => c.seen.text \in read'
    BY <2>2 DEF Quoted
  <2>4. (page'.state \in Settling => page'.text \in read')
        /\ (c.old.state \in Settling => c.old.text \in read')
    BY <2>2 DEF Quoted, Read
  <2>5. read \subseteq read'
    BY <2>2
  <2> HIDE DEF c
  <2> QED BY <2>1, <2>3, <2>4, <2>5, <1>0, <1>a
<1>4. ASSUME NEW r \in Reviewers, PublishPage(r) PROVE Quoted'
  <2> DEFINE c == [call[r] EXCEPT !.pc = "record"]
  <2>1. call[r] \in Booked /\ call[r].pc = "page" /\ call[r].job \in Decisions
    BY <1>4, <1>0 DEF PublishPage, At, Typed, Calls, IsSent
  <2>2. c.pc = "record" /\ c.job = call[r].job /\ c.seen = call[r].seen /\ c.old = call[r].old
    BY <2>1 DEF Booked
  <2>3. page'.text = call[r].seen.text /\ page'.state = Outcome[call[r].job].state /\ read' = read
    BY <1>4 DEF PublishPage, ghosts
  <2>4. page'.state \in Settling => page'.text \in read'
    <3>1. page'.state \in Settling => call[r].job \in {"approve", "dismiss"}
      BY <2>1, <2>3, Outcomes DEF Settling
    <3> QED BY <2>1, <2>3, <3>1 DEF Quoted
  <2>5. /\ c.job \in {"approve", "dismiss"} => c.seen.text \in read'
        /\ c.old.state \in Settling => c.old.text \in read'
    BY <2>1, <2>2, <2>3 DEF Quoted, Read
  <2>6. call' = [call EXCEPT ![r] = c]
    BY <1>4 DEF PublishPage
  <2> HIDE DEF c
  <2> QED BY <2>3, <2>4, <2>5, <2>6, <1>a
<1>5. ASSUME NEW r \in Reviewers, Fail(r) PROVE Quoted'
  <2>1. page' = call[r].old \/ page' = page
    BY <1>5 DEF Fail, Restored
  <2>2. call' = [call EXCEPT ![r] = Idle] /\ read' = read /\ call[r].pc \in {"page", "record"}
    BY <1>5 DEF Fail, Return, ghosts
  <2>3. page'.state \in Settling => page'.text \in read'
    BY <2>1, <2>2 DEF Quoted, Read
  <2> QED BY <2>2, <2>3, <1>0, <1>a
<1>6. ASSUME NEW t \in Tools, ToolRead(t) \/ ToolQueue(t) \/ ToolEnds(t) PROVE Quoted'
  BY <1>6, <1>b DEF ToolRead, ToolQueue, ToolEnds, ghosts, Quoted, Read
<1>7. ASSUME NEW t \in Tools, ToolWrite(t) PROVE Quoted'
  <2>1. page'.state = "none"
    <3>1. tool[t].seen \in PageSet
      BY <1>7 DEF ToolWrite, Typed
    <3> QED BY <3>1, <1>7 DEF ToolWrite, Governed, PageSet
  <2> QED BY <2>1, <1>7, <1>b DEF ToolWrite, ghosts, Settling
<1>8. CASE Reconcile \/ CloseRecord \/ UNCHANGED vars
  BY <1>8, <1>b DEF Reconcile, CloseRecord, vars, ghosts, Quoted, Read
<1> QED
  BY <1>1, <1>2, <1>3, <1>4, <1>5, <1>6, <1>7, <1>8 DEF Next, Reviewing, Editing

\* For any reviewers, tools, kills and failures, with or without a
\* reconciliation beside them: a page is never shown as approved or dismissed
\* with a text that whoever did so had not read.
THEOREM DecidedAsRead == Spec => []DecidedTextWasRead
<1>1. Init => Typed /\ Quoted
  BY TypedInit DEF Init, Quoted, Read, Settling, Idle
<1>2. Typed /\ Quoted /\ [Next]_vars => Typed' /\ Quoted'
  BY TypedStep, QuotedStep
<1>3. Quoted => DecidedTextWasRead
  BY DEF Quoted, Read, Settling, DecidedTextWasRead
<1> QED BY <1>1, <1>2, <1>3, PTL DEF Spec

-----------------------------------------------------------------------------
(* Page and ledger                                                         *)

\* Behind Enter a call has review.lock.
Locked == {"check", "ensure", "page", "record"}
Alone  == \A r \in Reviewers : call[r].pc \in Locked => lock = r

\* A decision in p is the one in the record it names, was torn from it, or was
\* closed over.
Backed(p) == \/ p.state \in {"none", "open"} \/ p.rid \in torn
             \/ ledger[p.rid].state = p.state \/ Reconciled(p.rid)

\* A record is made for a page that names an earlier one.
Earlier == \A i \in 1..Len(ledger) : ledger[i].of.rid < i

\* What a reconciliation has read is about the same page by now.
Planned == plan # None => \A i \in DOMAIN plan : plan[i].of = ledger[i].of

\* What a call has loaded is still in the ledger, or a reconciliation has closed
\* it since; the page names its request only once it has published its own
\* decision there.
Fresh(r) ==
  /\ call[r].rec = ledger[call[r].rid] \/ Reconciled(call[r].rid)
  /\ call[r].rec.of = ledger[call[r].rid].of
  /\ Backed(call[r].old) /\ call[r].old.rid # call[r].rid
  /\ call[r].pc = "page" \/ call[r].job \notin Decisions => page.rid # call[r].rid
  /\ call[r].pc = "record" /\ call[r].job \in Decisions =>
       page.rid # call[r].rid \/ page.state = Outcome[call[r].job].state

Books ==
  /\ Alone /\ Earlier /\ Planned /\ LedgerBacksPage
  /\ \A r \in Reviewers : call[r].pc \in {"page", "record"} => Fresh(r)

\* Where the call of a reviewer is tells its shape.
LEMMA CallAt ==
  ASSUME Typed, NEW r \in Reviewers
  PROVE  /\ call[r].pc \in {"page", "record"} => call[r] \in Booked
         /\ call[r].pc \in {"sent", "check", "ensure"} => IsSent(call[r])
         /\ call[r].pc \in {"idle", "sent", "check", "ensure", "page", "record"}
BY DEF Typed, Calls, Idle, IsSent, Booked

\* Steps of a reviewer outside page and ledger.
LEMMA BooksCall ==
  ASSUME Typed, Books, NEW r \in Reviewers, NEW c, call' = [call EXCEPT ![r] = c],
         c.pc \notin {"page", "record"},
         UNCHANGED <<page, ledger, plan>>, torn \subseteq torn',
         lock' = lock \/ lock = None \/ lock = r,
         c.pc \in Locked => lock' = r,
         call[r].pc = "record" /\ page.rid = call[r].rid => call[r].rid \in torn'
  PROVE  Books'
<1>0. DOMAIN call = Reviewers /\ None \notin Reviewers
  BY ReviewAssumption DEF Typed, Calls
<1>1. \A q \in Reviewers \ {r} : call'[q] = call[q]
  BY <1>0
<1>2. call'[r] = c
  BY <1>0
<1>3. Alone'
  BY <1>0, <1>1, <1>2 DEF Books, Alone
<1>4. Earlier' /\ Planned'
  BY <1>1, <1>2 DEF Books, Earlier, Planned
<1>5. LedgerBacksPage'
  BY <1>1 DEF Books, LedgerBacksPage, Publishing, At, Reconciled
<1>6. \A q \in Reviewers : call'[q].pc \in {"page", "record"} => Fresh(q)'
  BY <1>1, <1>2 DEF Books, Fresh, Backed, Reconciled
<1> QED BY <1>3, <1>4, <1>5, <1>6 DEF Books

LEMMA BooksEnsure ==
  ASSUME Typed, Books, NEW r \in Reviewers, Ensure(r)
  PROVE  Books'
<1> DEFINE id == Request(page, "page")
           c  == [pc |-> IF call[r].job \in Decisions THEN "page" ELSE "record",
                  job |-> call[r].job, seen |-> call[r].seen, rid |-> id,
                  rec |-> ledger'[id], old |-> page]
<1>0. DOMAIN call = Reviewers /\ None \notin Reviewers /\ call[r].pc = "ensure" /\ Idle.pc = "idle"
      /\ Len(ledger) \in Nat /\ page.rid \in 0..Len(ledger) /\ (page.state = "none" <=> page.rid = 0)
  BY ReviewAssumption DEF Typed, Calls, Ensure, At, Idle, Named
<1>1. /\ ledger' = Ensured(page, "page") /\ Len(ledger') \in Nat
      /\ Len(ledger') >= Len(ledger) /\ (\A i \in 1..Len(ledger) : ledger'[i] = ledger[i])
      /\ id \in 1..Len(ledger') /\ ledger'[id].of = page
      /\ \A i \in 1..Len(ledger') : i > Len(ledger) => ledger'[i] = NewRecord(page, "page")
  BY EnsuredIs DEF Ensure
<1>2. \/ call' = [call EXCEPT ![r] = Idle] /\ lock' = (IF lock = r THEN None ELSE lock)
      \/ call' = [call EXCEPT ![r] = c] /\ lock' = lock
  BY DEF Ensure, Return
<1>3. UNCHANGED <<page, plan, torn>>
  BY DEF Ensure, ghosts
<1>4. lock = r /\ \A q \in Reviewers \ {r} : call[q].pc \notin Locked /\ call'[q] = call[q]
  BY <1>0, <1>2 DEF Books, Alone, Locked
<1>5. call'[r] = Idle \/ (call'[r] = c /\ lock' = r)
  BY <1>0, <1>2, <1>4
<1>6. Alone'
  BY <1>0, <1>4, <1>5 DEF Alone, Locked
<1>7. Earlier'
  <2>1. NewRecord(page, "page").of = page
    BY DEF NewRecord
  <2> QED BY <1>0, <1>1, <2>1 DEF Earlier, Books
<1>8. Planned'
  BY <1>0, <1>1, <1>3 DEF Planned, Books, Typed
<1>9. Backed(page)
  BY <1>0, <1>4 DEF Books, LedgerBacksPage, Backed, Publishing, At, Locked
<1>10. Backed(page)'
  BY <1>0, <1>1, <1>3, <1>9 DEF Backed, Reconciled
<1>11. LedgerBacksPage'
  BY <1>10 DEF Backed, LedgerBacksPage
<1>12. page.rid < id
  BY <1>0, <1>1, <1>7 DEF Earlier
<1>13. call'[r].pc \in {"page", "record"} => Fresh(r)'
  <2>1. CASE call'[r] = Idle
    BY <2>1, <1>0
  <2>2. CASE call'[r] = c
    <3>1. call'[r].rid = id /\ call'[r].rec = ledger'[id] /\ call'[r].old = page
      BY <2>2
    <3>2. page'.rid # id /\ page.rid # id
      BY <1>0, <1>1, <1>3, <1>12
    <3>3. Backed(call[r].old)'
      BY <3>1, <1>3, <1>10 DEF Backed
    <3> QED BY <3>1, <3>2, <3>3 DEF Fresh
  <2> QED BY <2>1, <2>2, <1>5
<1>14. \A q \in Reviewers : call'[q].pc \in {"page", "record"} => Fresh(q)'
  BY <1>4, <1>13 DEF Locked
<1> QED BY <1>6, <1>7, <1>8, <1>11, <1>14 DEF Books

\* The holder of the lock is the only one behind Enter.
LEMMA Holder ==
  ASSUME Typed, Books, NEW r \in Reviewers, call[r].pc \in {"page", "record"}
  PROVE  /\ lock = r /\ (\A q \in Reviewers \ {r} : call[q].pc \notin Locked)
         /\ Fresh(r) /\ call[r] \in Booked /\ call[r].rid \in 1..Len(ledger)
         /\ Len(ledger) \in Nat /\ page.rid \in 0..Len(ledger)
         /\ page.state = "none" <=> page.rid = 0
         /\ DOMAIN call = Reviewers
<1>1. lock = r /\ Fresh(r)
  BY DEF Books, Alone, Locked
<1>2. \A q \in Reviewers \ {r} : call[q].pc \notin Locked
  BY <1>1 DEF Books, Alone
<1>3. call[r] \in Booked
  BY CallAt
<1> QED BY <1>1, <1>2, <1>3 DEF Typed, Calls, Named

LEMMA BooksPage ==
  ASSUME Typed, Books, NEW r \in Reviewers, PublishPage(r)
  PROVE  Books'
<1> DEFINE c == [call[r] EXCEPT !.pc = "record"]
<1>1. call[r].pc = "page" /\ lock = r /\ Fresh(r) /\ call[r] \in Booked /\ DOMAIN call = Reviewers
      /\ (\A q \in Reviewers \ {r} : call[q].pc \notin Locked)
  BY Holder DEF PublishPage, At
<1>2. c.pc = "record" /\ c.job = call[r].job /\ c.rid = call[r].rid /\ c.rec = call[r].rec
      /\ c.old = call[r].old
  BY <1>1 DEF Booked
<1>3. call' = [call EXCEPT ![r] = c] /\ UNCHANGED <<ledger, lock, plan, torn>>
      /\ page'.rid = call[r].rid /\ page'.state = Outcome[call[r].job].state
  BY DEF PublishPage, ghosts
<1> HIDE DEF c
<1>4. call'[r] = c /\ \A q \in Reviewers \ {r} : call'[q] = call[q] /\ call'[q].pc \notin Locked
  BY <1>1, <1>3
<1>5. call[r].job \in Decisions
  BY <1>1 DEF Typed, Calls
<1>6. Alone' /\ Earlier' /\ Planned'
  BY <1>1, <1>3, <1>4 DEF Books, Alone, Earlier, Planned
<1>7. LedgerBacksPage'
  BY <1>2, <1>3, <1>4 DEF LedgerBacksPage, Publishing, At
<1>8. Fresh(r)'
  BY <1>1, <1>2, <1>3, <1>4, <1>5 DEF Fresh, Backed, Reconciled
<1> QED BY <1>4, <1>6, <1>7, <1>8 DEF Books, Locked

LEMMA BooksRecord ==
  ASSUME Typed, Books, NEW r \in Reviewers, PublishRecord(r)
  PROVE  Books'
<1>1. /\ call[r].pc = "record" /\ lock = r /\ Fresh(r) /\ call[r] \in Booked
      /\ call[r].rid \in 1..Len(ledger) /\ Len(ledger) \in Nat /\ page.rid \in 0..Len(ledger)
      /\ (page.state = "none" <=> page.rid = 0)
      /\ DOMAIN call = Reviewers /\ Idle.pc = "idle" /\ None \notin Reviewers
      /\ \A q \in Reviewers \ {r} : call[q].pc \notin Locked
  BY Holder, ReviewAssumption DEF PublishRecord, At, Idle
<1>2. /\ ledger' = [ledger EXCEPT ![call[r].rid] = Noted(call[r].rec, call[r].job)]
      /\ call' = [call EXCEPT ![r] = Idle] /\ lock' = None /\ UNCHANGED <<page, plan, torn>>
  BY <1>1 DEF PublishRecord, Return, ghosts
<1>3. \A q \in Reviewers : call'[q].pc \notin Locked
  BY <1>1, <1>2 DEF Locked
<1>4. /\ Noted(call[r].rec, call[r].job).of = ledger[call[r].rid].of
      /\ call[r].job \in Decisions =>
           Noted(call[r].rec, call[r].job).state = Outcome[call[r].job].state
  <2>1. call[r].rec \in Rec /\ call[r].rec.of = ledger[call[r].rid].of
    BY <1>1 DEF Booked, Fresh
  <2>2. "machine" \notin Decisions /\ "assign" \notin Decisions
    BY Outcomes
  <2> QED BY <2>1, <2>2 DEF Noted, Rec
<1>5. /\ ledger'[call[r].rid] = Noted(call[r].rec, call[r].job) /\ Len(ledger') = Len(ledger)
      /\ \A i \in 1..Len(ledger) : i # call[r].rid => ledger'[i] = ledger[i]
  BY <1>1, <1>2 DEF Typed
<1>6. Alone' /\ Planned'
  <2>1. \A i \in 1..Len(ledger) : ledger'[i].of = ledger[i].of
    BY <1>4, <1>5
  <2>2. plan # None => \A i \in DOMAIN plan : i \in 1..Len(ledger)
    BY DEF Typed
  <2> QED BY <2>1, <2>2, <1>2, <1>3 DEF Alone, Planned, Books
<1>7. Earlier'
  BY <1>1, <1>4, <1>5 DEF Books, Earlier
<1>8. LedgerBacksPage'
  <2>1. CASE page.state \in {"none", "open"} \/ page.rid \in torn
    BY <2>1, <1>2 DEF LedgerBacksPage
  <2>2. CASE page.state \notin {"none", "open"} /\ page.rid \notin torn /\ page.rid = call[r].rid
    BY <2>2, <1>1, <1>2, <1>4, <1>5 DEF Fresh, LedgerBacksPage
  <2>3. CASE page.state \notin {"none", "open"} /\ page.rid \notin torn /\ page.rid # call[r].rid
    <3>1. ~Publishing(page.rid)
      BY <2>3, <1>1 DEF Publishing, At, Locked
    <3>2. ledger[page.rid].state = page.state \/ Reconciled(page.rid)
      BY <2>3, <3>1 DEF Books, LedgerBacksPage
    <3>3. page.rid \in 1..Len(ledger)
      BY <2>3, <1>1
    <3>4. page' = page /\ ledger'[page.rid] = ledger[page.rid]
      BY <2>3, <3>3, <1>2, <1>5
    <3> QED BY <3>2, <3>4 DEF LedgerBacksPage, Reconciled
  <2> QED BY <2>1, <2>2, <2>3
<1> QED BY <1>3, <1>6, <1>7, <1>8 DEF Books, Locked

LEMMA BooksFail ==
  ASSUME Typed, Books, NEW r \in Reviewers, Fail(r)
  PROVE  Books'
<1>1. /\ call[r].pc \in {"page", "record"} /\ lock = r /\ Fresh(r)
      /\ DOMAIN call = Reviewers /\ Idle.pc = "idle" /\ None \notin Reviewers
      /\ \A q \in Reviewers \ {r} : call[q].pc \notin Locked
  BY Holder, ReviewAssumption DEF Fail, Idle
<1>2. /\ page' = Restored(r) /\ call' = [call EXCEPT ![r] = Idle] /\ lock' = None
      /\ UNCHANGED <<ledger, plan, torn>>
  BY <1>1 DEF Fail, Return, ghosts
<1>3. \A q \in Reviewers : call'[q].pc \notin Locked
  BY <1>1, <1>2 DEF Locked
<1>4. Alone' /\ Planned' /\ Earlier'
  BY <1>1, <1>2, <1>3 DEF Alone, Planned, Earlier, Books
<1>5. Backed(page')
  <2>1. CASE call[r].pc = "record" /\ call[r].job \in Decisions
    BY <2>1, <1>1, <1>2 DEF Restored, At, Fresh
  <2>2. CASE ~(call[r].pc = "record" /\ call[r].job \in Decisions)
    <3>1. ~Publishing(page.rid)
      BY <2>2, <1>1 DEF Publishing, At, Locked, Fresh
    <3>2. page' = page
      BY <2>2, <1>2 DEF Restored, At
    <3> QED BY <3>1, <3>2 DEF Books, LedgerBacksPage, Backed
  <2> QED BY <2>1, <2>2
<1>6. LedgerBacksPage'
  BY <1>2, <1>5 DEF Backed, LedgerBacksPage, Reconciled
<1> QED BY <1>3, <1>4, <1>6 DEF Books, Locked

LEMMA BooksTool ==
  ASSUME Typed, Books, NEW t \in Tools, Editing(t)
  PROVE  Books'
<1>0. /\ DOMAIN ledger = 1..Len(ledger) /\ Len(ledger) \in Nat /\ page.rid \in 0..Len(ledger)
      /\ (page.state = "none" <=> page.rid = 0) /\ DOMAIN call = Reviewers
  BY DEF Typed, Calls, Named
<1>1. CASE ToolRead(t) \/ ToolEnds(t)
  <2>1. UNCHANGED <<page, ledger, lock, call, plan, torn>>
    BY <1>1 DEF ToolRead, ToolEnds, ghosts
  <2> QED BY <2>1 DEF Books, Alone, Earlier, Planned, LedgerBacksPage, Publishing, At, Fresh, Backed, Reconciled
<1>2. CASE ToolWrite(t)
  <2>1. page'.state = "none" /\ page'.rid = 0
    <3>1. tool[t].seen \in PageSet
      BY <1>2 DEF ToolWrite, Typed
    <3> QED BY <3>1, <1>2 DEF ToolWrite, Governed, PageSet
  <2>2. UNCHANGED <<ledger, lock, call, plan, torn>>
    BY <1>2 DEF ToolWrite, ghosts
  <2>3. ASSUME NEW q \in Reviewers, call[q].pc \in {"page", "record"} PROVE Fresh(q)'
    <3>1. call[q].rid # 0 /\ Fresh(q)
      BY <2>3, Holder
    <3> QED BY <3>1, <2>1, <2>2 DEF Fresh, Backed, Reconciled
  <2>4. Alone' /\ Earlier' /\ Planned'
    BY <2>2 DEF Books, Alone, Earlier, Planned
  <2> QED BY <2>1, <2>2, <2>3, <2>4 DEF Books, LedgerBacksPage
<1>3. CASE ToolQueue(t)
  <2>1. UNCHANGED <<page, lock, call, plan, torn>> /\ ledger' = Ensured(page, "flags")
    BY <1>3 DEF ToolQueue, ghosts
  <2>2. /\ Len(ledger') >= Len(ledger) /\ Len(ledger') \in Nat
        /\ \A i \in 1..Len(ledger) : ledger'[i] = ledger[i]
        /\ \A i \in 1..Len(ledger') : i > Len(ledger) => ledger'[i].of = page
    BY <2>1, EnsuredIs DEF NewRecord
  <2>3. Alone' /\ Earlier'
    BY <2>1, <2>2, <1>0 DEF Books, Alone, Earlier
  <2>4. Planned'
    BY <2>1, <2>2 DEF Books, Planned, Typed
  <2>5. ASSUME NEW q \in Reviewers, call[q].pc \in {"page", "record"} PROVE Fresh(q)'
    <3>1. call[q].rid \in 1..Len(ledger) /\ Fresh(q) /\ Named(call[q].old, Len(ledger))
      BY <2>5, Holder DEF Typed, Calls
    <3>2. call[q].old.state # "none" => call[q].old.rid \in 1..Len(ledger)
      BY <3>1, <1>0 DEF Named
    <3> QED BY <3>1, <3>2, <2>1, <2>2 DEF Fresh, Backed, Reconciled
  <2>6. LedgerBacksPage'
    <3>1. page.state # "none" => page.rid \in 1..Len(ledger)
      BY <1>0
    <3> QED BY <3>1, <2>1, <2>2 DEF Books, LedgerBacksPage, Publishing, At, Reconciled
  <2> QED BY <2>1, <2>3, <2>4, <2>5, <2>6 DEF Books
<1> QED BY <1>1, <1>2, <1>3 DEF Editing

\* A reconciliation writes what it has read, whoever has written since, and
\* leaves the record closed by it.
LEMMA Closing ==
  ASSUME Typed, CloseRecord
  PROVE  \E i \in DOMAIN plan :
           /\ i \in 1..Len(ledger) /\ plan[i] \in Rec /\ plan # None
           /\ Len(ledger') = Len(ledger) /\ \A j \in 1..Len(ledger) : j # i => ledger'[j] = ledger[j]
           /\ ledger'[i].of = plan[i].of /\ Reconciled(i)'
           /\ ledger'[i].history = Append(plan[i].history, "reconcile")
           /\ plan' # None => \A j \in DOMAIN plan' : j \in DOMAIN plan /\ j # i /\ plan'[j] = plan[j]
           /\ UNCHANGED <<page, lock, call, torn>>
<1>1. PICK i \in DOMAIN plan :
        /\ \A j \in DOMAIN plan : i <= j
        /\ ledger' = [ledger EXCEPT ![i] = [plan[i] EXCEPT !.state = "dismissed",
                                                           !.history = Append(@, "reconcile")]]
        /\ plan' = IF DOMAIN plan = {i} THEN None ELSE [j \in DOMAIN plan \ {i} |-> plan[j]]
  BY Zenon DEF CloseRecord
<1> DEFINE rec == [plan[i] EXCEPT !.state = "dismissed", !.history = Append(@, "reconcile")]
<1>2. i \in 1..Len(ledger) /\ plan[i] \in Rec /\ ledger \in Seq(Rec) /\ plan # None
  BY DEF CloseRecord, Typed
<1>3. rec.of = plan[i].of /\ rec.history = Append(plan[i].history, "reconcile")
      /\ plan[i].history \in Seq(Events)
  BY <1>2 DEF Rec
<1>4. ledger' = [ledger EXCEPT ![i] = rec]
  BY <1>1
<1> HIDE DEF rec
<1>5. Len(ledger') = Len(ledger) /\ ledger'[i] = rec /\ \A j \in 1..Len(ledger) : j # i => ledger'[j] = ledger[j]
  BY <1>2, <1>4
<1>6. rec.history # <<>> /\ Last(rec.history) = "reconcile"
  <2>1. "reconcile" \in Events
    BY DEF Events
  <2> QED BY <1>3, <2>1 DEF Last
<1>7. plan' # None => \A j \in DOMAIN plan' : j \in DOMAIN plan /\ j # i /\ plan'[j] = plan[j]
  BY <1>1
<1>8. UNCHANGED <<page, lock, call, torn>>
  BY DEF CloseRecord, ghosts
<1>9. Reconciled(i)'
  BY <1>5, <1>6 DEF Reconciled
<1> QED BY <1>2, <1>3, <1>5, <1>7, <1>8, <1>9

LEMMA BooksReconcile ==
  ASSUME Typed, Books, Reconcile \/ CloseRecord
  PROVE  Books'
<1>0. /\ DOMAIN ledger = 1..Len(ledger) /\ Len(ledger) \in Nat /\ page.rid \in 0..Len(ledger)
      /\ (page.state = "none" <=> page.rid = 0)
  BY DEF Typed, Named
<1>3. CASE Reconcile
  <2>1. UNCHANGED <<ledger, page, lock, call, torn>> /\ plan' = [i \in DOMAIN plan' |-> ledger[i]]
    BY <1>3 DEF Reconcile, ghosts
  <2>2. Planned'
    BY <2>1 DEF Planned
  <2> QED BY <2>1, <2>2 DEF Books, Alone, Earlier, LedgerBacksPage, Publishing, At, Fresh, Backed, Reconciled
<1>4. CASE CloseRecord
  <2>1. PICK i \in DOMAIN plan :
           /\ i \in 1..Len(ledger) /\ plan[i] \in Rec /\ plan # None
           /\ Len(ledger') = Len(ledger) /\ \A j \in 1..Len(ledger) : j # i => ledger'[j] = ledger[j]
           /\ ledger'[i].of = plan[i].of /\ Reconciled(i)'
           /\ ledger'[i].history = Append(plan[i].history, "reconcile")
           /\ plan' # None => \A j \in DOMAIN plan' : j \in DOMAIN plan /\ j # i /\ plan'[j] = plan[j]
           /\ UNCHANGED <<page, lock, call, torn>>
    BY <1>4, Closing
  <2>2. \A j \in 1..Len(ledger) : ledger'[j].of = ledger[j].of
    BY <2>1 DEF Books, Planned
  <2>3. \A j \in 1..Len(ledger) : j = i \/ (ledger'[j] = ledger[j] /\ (Reconciled(j)' <=> Reconciled(j)))
    BY <2>1 DEF Reconciled
  <2>4. Alone' /\ Earlier'
    BY <2>1, <2>2 DEF Books, Alone, Earlier
  <2>5. Planned'
    <3>1. plan' # None => \A j \in DOMAIN plan' : j \in 1..Len(ledger) /\ plan'[j].of = ledger[j].of
      BY <2>1, <1>4 DEF Typed, Books, Planned
    <3> QED BY <3>1, <2>2 DEF Planned
  <2>6. \A j \in 1..Len(ledger) : Reconciled(j) => Reconciled(j)'
    BY <2>1, <2>3
  <2>7. LedgerBacksPage'
    BY <1>0, <2>1, <2>3 DEF Books, LedgerBacksPage, Publishing, At
  <2>8. ASSUME NEW q \in Reviewers, call[q].pc \in {"page", "record"} PROVE Fresh(q)'
    <3>1. call[q].rid \in 1..Len(ledger) /\ Fresh(q) /\ Named(call[q].old, Len(ledger))
      BY <2>8, Holder DEF Typed, Calls
    <3>2. call[q].old.state # "none" => call[q].old.rid \in 1..Len(ledger)
      BY <3>1, <1>0 DEF Named
    <3>3. Backed(call[q].old)'
      BY <3>1, <3>2, <2>1, <2>3 DEF Fresh, Backed
    <3>4. call[q].rec = ledger'[call[q].rid] \/ Reconciled(call[q].rid)'
      BY <3>1, <2>1, <2>3 DEF Fresh
    <3> QED BY <3>1, <3>3, <3>4, <2>1, <2>2 DEF Fresh
  <2> QED BY <2>1, <2>4, <2>5, <2>7, <2>8 DEF Books
<1> QED BY <1>3, <1>4

LEMMA BooksStep == Typed /\ Books /\ [Next]_vars => Books'
<1> SUFFICES ASSUME Typed, Books, [Next]_vars PROVE Books'
  OBVIOUS
<1>0. Idle.pc = "idle" /\ DOMAIN call = Reviewers
  BY DEF Idle, Typed, Calls
<1>1. ASSUME NEW r \in Reviewers, Open(r) PROVE Books'
  <2>1. PICK job \in Jobs, given \in {0, Current} :
          call' = [call EXCEPT ![r] = [pc |-> "sent", job |-> job, seen |-> page, given |-> given]]
    BY <1>1 DEF Open
  <2>2. UNCHANGED <<page, ledger, plan, torn, lock>> /\ call[r].pc = "idle"
    BY <1>1 DEF Open, At
  <2> QED BY <2>1, <2>2, BooksCall DEF Locked
<1>2. ASSUME NEW r \in Reviewers, Enter(r) PROVE Books'
  <2>1. IsSent(call[r]) /\ call[r].pc = "sent"
    BY <1>2, CallAt DEF Enter, At, Books, Planned
  <2>2. PICK to \in {"check", "ensure"} : call' = [call EXCEPT ![r] = [call[r] EXCEPT !.pc = to]]
    BY <1>2 DEF Enter
  <2>3. [call[r] EXCEPT !.pc = to].pc = to
    BY <2>1 DEF IsSent
  <2>4. UNCHANGED <<page, ledger, plan, torn>> /\ lock = None /\ lock' = r
    BY <1>2 DEF Enter, ghosts
  <2> QED BY <2>1, <2>2, <2>3, <2>4, BooksCall DEF Locked
<1>3. ASSUME NEW r \in Reviewers, Check(r) PROVE Books'
  <2>1. IsSent(call[r]) /\ call[r].pc = "check" /\ lock = r
    BY <1>3, CallAt DEF Check, At, Books, Planned, Alone, Locked
  <2>2. UNCHANGED <<page, ledger, plan, torn>>
    BY <1>3 DEF Check, ghosts
  <2>3. CASE call' = [call EXCEPT ![r] = [call[r] EXCEPT !.pc = "ensure"]] /\ lock' = lock
    <3>1. [call[r] EXCEPT !.pc = "ensure"].pc = "ensure"
      BY <2>1 DEF IsSent
    <3> QED BY <2>1, <2>2, <2>3, <3>1, BooksCall DEF Locked
  <2>4. CASE call' = [call EXCEPT ![r] = Idle]
    BY <2>1, <2>2, <2>4, <1>0, BooksCall DEF Locked
  <2> QED BY <1>3, <2>3, <2>4 DEF Check, Return
<1>4. ASSUME NEW r \in Reviewers, Refuse(r) \/ Kill(r) PROVE Books'
  <2>1. UNCHANGED <<page, ledger, plan>> /\ torn \subseteq torn' /\ call' = [call EXCEPT ![r] = Idle]
    BY <1>4 DEF Refuse, Kill, ghosts, Return
  <2>2. lock' = lock \/ lock = r
    BY <1>4 DEF Refuse, Kill, Return
  <2>3. call[r].pc = "record" /\ page.rid = call[r].rid => call[r].rid \in torn'
    <3>1. call[r].pc = "record" => Fresh(r)
      BY DEF Books
    <3> QED BY <3>1, <1>4 DEF Fresh, Refuse, Kill, At
  <2> QED BY <2>1, <2>2, <2>3, <1>0, BooksCall DEF Locked
<1>5. ASSUME NEW r \in Reviewers, Ensure(r) PROVE Books'
  BY <1>5, BooksEnsure
<1>6. ASSUME NEW r \in Reviewers, PublishPage(r) \/ PublishRecord(r) \/ Fail(r) PROVE Books'
  BY <1>6, BooksPage, BooksRecord, BooksFail
<1>7. ASSUME NEW t \in Tools, Editing(t) PROVE Books'
  BY <1>7, BooksTool
<1>8. CASE Reconcile \/ CloseRecord
  BY <1>8, BooksReconcile
<1>9. CASE UNCHANGED vars
  BY <1>9 DEF vars, ghosts, Books, Alone, Earlier, Planned, LedgerBacksPage, Publishing, At, Fresh,
              Backed, Reconciled
<1> QED BY <1>1, <1>2, <1>3, <1>4, <1>5, <1>6, <1>7, <1>8, <1>9 DEF Next, Reviewing

LEMMA BooksKept == Spec => [](Typed /\ Books)
<1>1. Init => Typed /\ Books
  <2> SUFFICES ASSUME Init PROVE Books
    BY TypedInit
  <2>1. Len(ledger) = 0 /\ plan = None /\ page.state = "none" /\ \A r \in Reviewers : call[r].pc = "idle"
    BY DEF Init, Idle
  <2> QED BY <2>1 DEF Books, Alone, Locked, Earlier, Planned, LedgerBacksPage
<1>2. Typed /\ Books /\ [Next]_vars => Typed' /\ Books'
  BY TypedStep, BooksStep
<1> QED BY <1>1, <1>2, PTL DEF Spec

\* A decision shown on a page is in the ledger's record, but for one on its way,
\* one whose process was killed between the two replaces and one a reconciliation
\* closed; failed replaces, tools and retries included.
THEOREM LedgerBacks == Spec => []LedgerBacksPage
<1>1. Typed /\ Books => LedgerBacksPage
  BY DEF Books
<1> QED BY <1>1, BooksKept, PTL

-----------------------------------------------------------------------------
(* Histories                                                               *)

LEMMA PrefixSelf ==
  ASSUME NEW s \in Seq(Events)
  PROVE  IsPrefix(s, s)
BY DEF IsPrefix

LEMMA PrefixAppend ==
  ASSUME NEW s \in Seq(Events), NEW e \in Events
  PROVE  IsPrefix(s, Append(s, e))
<1>1. Len(s) \in Nat /\ Len(Append(s, e)) = Len(s) + 1
  OBVIOUS
<1>2. \A i \in 1..Len(s) : Append(s, e)[i] = s[i]
  OBVIOUS
<1>3. SubSeq(s, 1, Len(s)) = SubSeq(Append(s, e), 1, Len(s))
  BY <1>1, <1>2
<1> QED BY <1>1, <1>3 DEF IsPrefix

\* The only steps that touch a record write back what they had read with at most
\* one event more.
LEMMA HistoryStep ==
  ASSUME Typed, Books, [Next]_vars
  PROVE  HistoryGrows
<1> DEFINE Grows(j) == \/ IsPrefix(ledger[j].history, ledger'[j].history)
                       \/ Overwritten(j)
<1> HIDE DEF Grows
<1>0. /\ ledger \in Seq(Rec) /\ DOMAIN ledger = 1..Len(ledger) /\ Len(ledger) \in Nat
      /\ \A i \in 1..Len(ledger) : ledger[i] \in Rec
  BY DEF Typed
\* One record gets a history that continues its own, or that overwrites it.
<1>a. ASSUME NEW i \in 1..Len(ledger), NEW h,
             Len(ledger') = Len(ledger), DOMAIN ledger' = 1..Len(ledger'), ledger'[i].history = h,
             \A j \in 1..Len(ledger) : j # i => ledger'[j] = ledger[j],
             h = ledger[i].history \/ (\E e \in Events : h = Append(ledger[i].history, e))
               \/ Overwritten(i)
      PROVE  HistoryGrows
  <2>1. ASSUME NEW j \in 1..Len(ledger) PROVE j \in DOMAIN ledger' /\ Grows(j)
    <3>1. ledger[j].history \in Seq(Events)
      BY <1>0 DEF Rec
    <3>2. CASE j = i
      BY <3>1, <3>2, <1>a, <1>0, PrefixSelf, PrefixAppend DEF Grows
    <3>3. CASE j # i
      BY <3>1, <3>3, <1>a, <1>0, PrefixSelf DEF Grows
    <3> QED BY <3>2, <3>3
  <2> QED BY <2>1, <1>0 DEF HistoryGrows, Grows
\* The ledger only grows.
<1>b. ASSUME Len(ledger') >= Len(ledger), DOMAIN ledger' = 1..Len(ledger'), Len(ledger') \in Nat,
             \A i \in 1..Len(ledger) : ledger'[i] = ledger[i]
      PROVE  HistoryGrows
  <2>1. ASSUME NEW j \in 1..Len(ledger) PROVE j \in DOMAIN ledger' /\ Grows(j)
    <3>1. ledger[j].history \in Seq(Events)
      BY <1>0 DEF Rec
    <3> QED BY <3>1, <1>0, <1>b, PrefixSelf DEF Grows
  <2> QED BY <2>1, <1>0 DEF HistoryGrows, Grows
<1>1. ASSUME NEW r \in Reviewers, PublishRecord(r) PROVE HistoryGrows
  <2> DEFINE rec == Noted(call[r].rec, call[r].job)
             i   == call[r].rid
  <2>1. call[r] \in Booked /\ i \in 1..Len(ledger) /\ Fresh(r)
    BY <1>1, Holder DEF PublishRecord, At
  <2>2. ledger' = [ledger EXCEPT ![i] = rec]
    BY <1>1 DEF PublishRecord
  <2>3. call[r].rec \in Rec /\ call[r].job \in Events
    BY <2>1, ReviewAssumption DEF Booked, Events
  <2>4. rec.history = call[r].rec.history \/ rec.history = Append(call[r].rec.history, call[r].job)
    BY <2>3 DEF Noted, Rec
  <2>5. call[r].rec.history = ledger[i].history \/ Overwritten(i)
    BY <2>1, <1>1 DEF Fresh, Overwritten
  <2> HIDE DEF rec, i
  <2>6. /\ Len(ledger') = Len(ledger) /\ DOMAIN ledger' = 1..Len(ledger') /\ ledger'[i] = rec
        /\ \A j \in 1..Len(ledger) : j # i => ledger'[j] = ledger[j]
    BY <2>1, <2>2, <1>0
  <2>7. rec.history = ledger[i].history \/ (\E e \in Events : rec.history = Append(ledger[i].history, e))
          \/ Overwritten(i)
    BY <2>3, <2>4, <2>5
  <2> QED BY <2>1, <2>6, <2>7, <1>a
<1>2. CASE CloseRecord
  <2>1. PICK i \in DOMAIN plan :
           /\ i \in 1..Len(ledger) /\ plan[i] \in Rec /\ plan # None
           /\ Len(ledger') = Len(ledger) /\ \A j \in 1..Len(ledger) : j # i => ledger'[j] = ledger[j]
           /\ ledger'[i].of = plan[i].of /\ Reconciled(i)'
           /\ ledger'[i].history = Append(plan[i].history, "reconcile")
           /\ plan' # None => \A j \in DOMAIN plan' : j \in DOMAIN plan /\ j # i /\ plan'[j] = plan[j]
           /\ UNCHANGED <<page, lock, call, torn>>
    BY <1>2, Closing
  <2>2. plan[i].history = ledger[i].history \/ Overwritten(i)
    BY <2>1, <1>2 DEF Overwritten
  <2>3. "reconcile" \in Events
    BY DEF Events
  <2>4. DOMAIN ledger' = 1..Len(ledger')
    BY <1>2, <1>0, <2>1 DEF CloseRecord
  <2> QED BY <2>1, <2>2, <2>3, <2>4, <1>a
<1>3. CASE ledger' = Ensured(page, "page") \/ ledger' = Ensured(page, "flags")
  <2>1. /\ ledger' \in Seq(Rec) /\ Len(ledger') >= Len(ledger)
        /\ \A i \in 1..Len(ledger) : ledger'[i] = ledger[i]
    BY <1>3, EnsuredIs
  <2> QED BY <2>1, <1>b
<1>4. CASE ledger' = ledger
  BY <1>4, <1>0, <1>b
<1> QED
  BY <1>1, <1>2, <1>3, <1>4
  DEF Next, Reviewing, Editing, Open, Enter, Check, Ensure, Refuse, PublishPage, Fail, Kill,
      ToolRead, ToolWrite, ToolQueue, ToolEnds, Reconcile, vars

\* "History is appended, never replaced": no call, killed or not, drops an event
\* that another one recorded, and none is lost but to a reconciliation that read
\* the record before it, or a closure to a call that had loaded the record before.
THEOREM HistoriesGrow == Spec => HistoryOnlyGrows
<1>1. Typed /\ Books /\ [Next]_vars => [HistoryGrows]_vars
  BY HistoryStep
<1> QED BY <1>1, BooksKept, PTL DEF Spec, HistoryOnlyGrows


-----------------------------------------------------------------------------
(* Bounds                                                                  *)

Old(p) == p.text \in 0..edits

\* Texts are numbers of edits made so far.
Limits ==
  /\ calls \in 0..MaxCalls /\ edits \in 0..MaxEdits /\ faults \in 0..MaxFaults
  /\ lock \in Reviewers \cup {None} /\ fence \in Tools \cup {None}
  /\ Old(page) /\ read \subseteq 0..edits /\ torn \subseteq 1..Len(ledger)
  /\ \A r \in Reviewers :
       /\ call[r].pc # "idle" => Old(call[r].seen)
       /\ call[r].pc \in {"page", "record"} => Old(call[r].old)
  /\ \A t \in Tools : /\ tool[t].pc \in {"idle", "write", "queue"}
                      /\ tool[t].pc = "write" => Old(tool[t].seen)

LEMMA LimitsInit == Init => Limits
BY ReviewAssumption DEF Init, Limits, Old, Idle

\* A step of a reviewer's call.
LEMMA LimitsCall ==
  ASSUME Typed, Limits, Typed', NEW r \in Reviewers, NEW c, call' = [call EXCEPT ![r] = c],
         c.pc # "idle" => c.seen.text \in 0..edits,
         c.pc \in {"page", "record"} => c.old.text \in 0..edits,
         page'.text \in 0..edits, read' \subseteq 0..edits, torn' \subseteq 1..Len(ledger),
         Len(ledger) <= Len(ledger'), UNCHANGED <<fence, tool, edits>>,
         lock' \in {lock, r, None}, calls' \in 0..MaxCalls, faults' \in 0..MaxFaults
  PROVE  Limits'
<1>1. \A q \in Reviewers : call'[q] = IF q = r THEN c ELSE call[q]
  BY DEF Typed, Calls
<1>2. torn' \subseteq 1..Len(ledger')
  BY DEF Typed
<1> QED BY <1>1, <1>2 DEF Limits, Old

LEMMA LimitsStep == Typed /\ Typed' /\ Limits /\ [Next]_vars => Limits'
<1> SUFFICES ASSUME Typed, Typed', Limits, [Next]_vars PROVE Limits'
  OBVIOUS
<1>0. /\ DOMAIN call = Reviewers /\ DOMAIN tool = Tools /\ Idle.pc = "idle" /\ Len(ledger) \in Nat
      /\ Len(ledger') \in Nat
      /\ MaxCalls \in Nat /\ MaxEdits \in Nat /\ MaxFaults \in Nat
      /\ calls \in 0..MaxCalls /\ edits \in 0..MaxEdits /\ faults \in 0..MaxFaults
      /\ page.text \in 0..edits /\ read \subseteq 0..edits /\ torn \subseteq 1..Len(ledger)
  BY ReviewAssumption DEF Typed, Calls, Idle, Limits, Old
<1>1. ASSUME NEW r \in Reviewers, Open(r) PROVE Limits'
  <2>1. PICK job \in Jobs, given \in {0, Current} :
          /\ call' = [call EXCEPT ![r] = [pc |-> "sent", job |-> job, seen |-> page, given |-> given]]
          /\ read' = IF job \in {"approve", "dismiss"} THEN read \cup {page.text} ELSE read
    BY <1>1 DEF Open
  <2>2. read' \subseteq 0..edits
    BY <2>1, <1>0
  <2>3. UNCHANGED <<page, ledger, lock, fence, tool, torn, edits, faults>> /\ calls' \in 0..MaxCalls
    BY <1>0, <1>1 DEF Open
  <2>4. Len(ledger) <= Len(ledger')
    BY <2>3, <1>0
  <2> QED BY <2>1, <2>2, <2>3, <2>4, <1>0, LimitsCall
<1>2. ASSUME NEW r \in Reviewers, Enter(r) \/ Check(r) \/ Refuse(r) \/ PublishPage(r) PROVE Limits'
  <2>1. /\ UNCHANGED <<ledger, fence, tool, ghosts, counts>> /\ lock' \in {lock, r, None}
        /\ read' = read /\ torn' = torn /\ calls' = calls /\ faults' = faults /\ edits' = edits
    BY <1>2 DEF Enter, Check, Refuse, PublishPage, Return, ghosts, counts
  <2>2. Len(ledger) <= Len(ledger')
    BY <2>1, <1>0
  <2>3. call[r].pc # "idle"
    BY <1>2 DEF Enter, Check, Refuse, PublishPage, At
  <2>4. page'.text \in 0..edits
    <3>1. CASE PublishPage(r)
      BY <3>1, <2>3 DEF PublishPage, Limits, Old
    <3>2. CASE UNCHANGED page
      BY <3>2, <1>0
    <3> QED BY <3>1, <3>2, <1>2 DEF Enter, Check, Refuse
  <2>5. CASE call' = [call EXCEPT ![r] = Idle]
    BY <2>1, <2>2, <2>4, <2>5, <1>0, LimitsCall
  <2>6. ASSUME NEW to \in {"check", "ensure", "record"}, call' = [call EXCEPT ![r].pc = to],
               to = "record" => call[r].pc = "page"
        PROVE  Limits'
    <3>1. /\ call' = [call EXCEPT ![r] = [call[r] EXCEPT !.pc = to]]
          /\ [call[r] EXCEPT !.pc = to].seen = call[r].seen
          /\ [call[r] EXCEPT !.pc = to].old = call[r].old
      BY <2>6
    <3>2. [call[r] EXCEPT !.pc = to].pc \in {to, call[r].pc}
      OBVIOUS
    <3>3. IsSent(call[r]) \/ call[r] \in Booked
      BY <2>3, <1>0 DEF Typed, Calls
    <3>4. [call[r] EXCEPT !.pc = to].pc = to
      BY <3>3 DEF IsSent, Booked
    <3>5. call[r].seen.text \in 0..edits /\ (to = "record" => call[r].old.text \in 0..edits)
      BY <2>3, <2>6 DEF Limits, Old
    <3> QED BY <2>1, <2>2, <2>4, <3>1, <3>4, <3>5, <1>0, LimitsCall
  <2> QED BY <2>5, <2>6, <1>2 DEF Enter, Check, Refuse, PublishPage, Return, At
<1>3. ASSUME NEW r \in Reviewers, Ensure(r) PROVE Limits'
  <2> DEFINE id == Request(page, "page")
             c  == [pc |-> IF call[r].job \in Decisions THEN "page" ELSE "record",
                    job |-> call[r].job, seen |-> call[r].seen, rid |-> id,
                    rec |-> ledger'[id], old |-> page]
  <2>1. Len(ledger) <= Len(ledger')
    BY <1>3, EnsuredIs DEF Ensure
  <2>2. /\ UNCHANGED <<page, fence, tool>> /\ lock' \in {lock, r, None}
        /\ read' = read /\ torn' = torn /\ calls' = calls /\ faults' = faults /\ edits' = edits
    BY <1>3 DEF Ensure, Return, ghosts, counts
  <2>3. call' = [call EXCEPT ![r] = Idle] \/ call' = [call EXCEPT ![r] = c]
    BY <1>3 DEF Ensure, Return
  <2>4. c.seen.text \in 0..edits /\ c.old.text \in 0..edits
    BY <1>3, <1>0 DEF Ensure, At, Limits, Old
  <2> HIDE DEF c
  <2> QED BY <2>1, <2>2, <2>3, <2>4, <1>0, LimitsCall
<1>4. ASSUME NEW r \in Reviewers, PublishRecord(r) \/ Fail(r) \/ Kill(r) PROVE Limits'
  <2>1. /\ call' = [call EXCEPT ![r] = Idle] /\ lock' \in {lock, r, None}
        /\ UNCHANGED <<fence, tool>>
        /\ read' = read /\ calls' = calls /\ edits' = edits /\ faults' \in 0..MaxFaults
    BY <1>4, <1>0 DEF PublishRecord, Fail, Kill, Return, Faulty, ghosts, counts
  <2>2. Len(ledger) <= Len(ledger')
    <3>1. CASE PublishRecord(r)
      BY <3>1, <1>0 DEF PublishRecord, Typed
    <3>2. CASE Fail(r) \/ Kill(r)
      BY <3>2, <1>0 DEF Fail, Kill
    <3> QED BY <3>1, <3>2, <1>4
  <2>3. torn' \subseteq 1..Len(ledger)
    <3>1. CASE Kill(r)
      <4>1. At(r, "record") => call[r].rid \in 1..Len(ledger)
        BY <1>0 DEF At, Typed, Calls, IsSent
      <4> QED BY <3>1, <4>1, <1>0 DEF Kill
    <3>2. CASE PublishRecord(r) \/ Fail(r)
      BY <3>2, <1>0 DEF PublishRecord, Fail, ghosts
    <3> QED BY <3>1, <3>2, <1>4
  <2>4. page'.text \in 0..edits
    <3>1. CASE Fail(r)
      BY <3>1, <1>0 DEF Fail, Restored, Limits, Old
    <3>2. CASE PublishRecord(r) \/ Kill(r)
      BY <3>2, <1>0 DEF PublishRecord, Kill
    <3> QED BY <3>1, <3>2, <1>4
  <2> QED BY <2>1, <2>2, <2>3, <2>4, <1>0, LimitsCall
\* A step of a tool.
<1>a. ASSUME NEW t \in Tools, NEW c, tool' = [tool EXCEPT ![t] = c],
             c.pc \in {"idle", "write", "queue"}, c.pc = "write" => c.seen.text \in 0..edits',
             page'.text \in 0..edits', Len(ledger) <= Len(ledger'), UNCHANGED <<call, lock, ghosts>>,
             fence' \in {fence, t, None}, calls' \in 0..MaxCalls, faults' \in 0..MaxFaults,
             edits' \in 0..MaxEdits, edits <= edits'
      PROVE  Limits'
  <2>1. \A u \in Tools : tool'[u] = IF u = t THEN c ELSE tool[u]
    BY <1>a, <1>0
  <2>2. 0..edits \subseteq 0..edits' /\ 1..Len(ledger) \subseteq 1..Len(ledger')
    BY <1>a, <1>0
  <2>3. read' = read /\ torn' = torn
    BY <1>a DEF ghosts
  <2>4. lock' \in Reviewers \cup {None} /\ fence' \in Tools \cup {None}
    BY <1>a DEF Limits
  <2>5. ASSUME NEW q \in Reviewers
        PROVE  /\ call'[q].pc # "idle" => call'[q].seen.text \in 0..edits'
               /\ call'[q].pc \in {"page", "record"} => call'[q].old.text \in 0..edits'
    BY <1>a, <2>2 DEF Limits, Old
  <2>6. ASSUME NEW u \in Tools
        PROVE  /\ tool'[u].pc \in {"idle", "write", "queue"}
               /\ tool'[u].pc = "write" => tool'[u].seen.text \in 0..edits'
    BY <1>a, <2>1, <2>2 DEF Limits, Old
  <2>7. read' \subseteq 0..edits' /\ torn' \subseteq 1..Len(ledger')
    BY <2>2, <2>3, <1>0
  <2> QED BY <1>a, <2>4, <2>5, <2>6, <2>7 DEF Limits, Old
<1>5. ASSUME NEW t \in Tools, ToolRead(t) PROVE Limits'
  <2>1. tool' = [tool EXCEPT ![t] = [pc |-> "write", seen |-> page]]
        /\ [pc |-> "write", seen |-> page].pc = "write" /\ [pc |-> "write", seen |-> page].seen = page
    BY <1>5 DEF ToolRead
  <2>2. UNCHANGED <<page, ledger, lock, call, ghosts>> /\ calls' = calls /\ faults' = faults
        /\ fence' = t /\ edits' \in 0..MaxEdits /\ edits <= edits'
    BY <1>5, <1>0 DEF ToolRead
  <2>3. page.text \in 0..edits' /\ Len(ledger) <= Len(ledger')
    BY <2>2, <1>0
  <2> QED BY <2>1, <2>2, <2>3, <1>0, <1>a
<1>6. ASSUME NEW t \in Tools, ToolWrite(t) \/ ToolQueue(t) \/ ToolEnds(t) PROVE Limits'
  <2>1. PICK c \in {Idle, [pc |-> "queue"]} : tool' = [tool EXCEPT ![t] = c]
    BY <1>6 DEF ToolWrite, ToolQueue, ToolEnds, Leave
  <2>2. c.pc \in {"idle", "queue"}
    BY <2>1, <1>0
  <2>3. UNCHANGED <<call, lock, ghosts>> /\ calls' = calls /\ edits' = edits
        /\ fence' \in {fence, t, None} /\ faults' \in 0..MaxFaults
    <3>1. CASE ToolWrite(t)
      <4>1. UNCHANGED <<call, lock, ghosts, counts>> /\ (fence' = fence \/ fence' = None)
        BY <3>1 DEF ToolWrite, Leave
      <4> QED BY <4>1, <1>0 DEF counts
    <3>2. CASE ToolQueue(t)
      BY <3>2, <1>0 DEF ToolQueue, Leave, counts
    <3>3. CASE ToolEnds(t)
      BY <3>3, <1>0 DEF ToolEnds, Leave, Faulty
    <3> QED BY <3>1, <3>2, <3>3, <1>6
  <2>4. Len(ledger) <= Len(ledger')
    <3>1. CASE ToolQueue(t)
      BY <3>1, EnsuredIs DEF ToolQueue
    <3>2. CASE ToolWrite(t) \/ ToolEnds(t)
      <4>1. UNCHANGED ledger
        BY <3>2 DEF ToolWrite, ToolEnds
      <4> QED BY <4>1, <1>0
    <3> QED BY <3>1, <3>2, <1>6
  <2>5. page'.text \in 0..edits
    <3>1. CASE ToolWrite(t)
      <4>1. PICK f : page' = [Governed(tool[t].seen, f) EXCEPT !.text = edits,
                                                      !.version = tool[t].seen.version + 1]
        BY <3>1 DEF ToolWrite
      <4>2. tool[t].seen \in PageSet
        BY <3>1 DEF ToolWrite, Typed
      <4>3. page'.text = edits
        BY <4>1, <4>2 DEF Governed, PageSet
      <4> QED BY <4>3, <1>0
    <3>2. CASE ToolQueue(t) \/ ToolEnds(t)
      BY <3>2, <1>0 DEF ToolQueue, ToolEnds
    <3> QED BY <3>1, <3>2, <1>6
  <2>6. edits' \in 0..MaxEdits /\ edits <= edits' /\ page'.text \in 0..edits' /\ calls' \in 0..MaxCalls
    BY <2>3, <2>5, <1>0
  <2> QED BY <2>1, <2>2, <2>3, <2>4, <2>6, <1>a
<1>7. CASE Reconcile \/ CloseRecord \/ UNCHANGED vars
  <2>1. UNCHANGED <<page, lock, fence, call, tool, ghosts, counts>>
    BY <1>7 DEF Reconcile, CloseRecord, vars
  <2>2. read' = read /\ torn' = torn /\ calls' = calls /\ edits' = edits /\ faults' = faults
    BY <2>1 DEF ghosts, counts
  <2>3. Len(ledger') = Len(ledger)
    <3>1. CASE Reconcile \/ UNCHANGED vars
      BY <3>1 DEF Reconcile, vars
    <3>2. CASE CloseRecord
      BY <3>2 DEF CloseRecord, Typed
    <3> QED BY <3>1, <3>2, <1>7
  <2> QED BY <2>1, <2>2, <2>3 DEF Limits, Old
<1> QED BY <1>1, <1>2, <1>3, <1>4, <1>5, <1>6, <1>7 DEF Next, Reviewing, Editing

\* Calls under way, and the records in the ledger, in their hands and in a
\* reconciliation's.
Busy == {r \in Reviewers : call[r].pc # "idle"}
Records ==
  {ledger[i] : i \in 1..Len(ledger)} \cup {call[r].rec : r \in {q \in Reviewers : call[q] \in Booked}}
    \cup UNION {{plan[i] : i \in S} : S \in {T \in {DOMAIN plan} : plan # None}}

\* A record shows no more checks than there were calls that are over.
Counted ==
  /\ IsFiniteSet(Busy) /\ Cardinality(Busy) <= calls /\ calls \in Nat
  /\ \A x \in Records : x.checks + Cardinality(Busy) <= calls

LEMMA CountedInit == Init => Counted
<1> SUFFICES ASSUME Init PROVE Counted
  OBVIOUS
<1>1. Busy = {} /\ Records = {}
  BY DEF Init, Busy, Records, Idle, Booked
<1> QED BY <1>1, FS_EmptySet DEF Init, Counted

LEMMA InRecords ==
  ASSUME Typed, NEW x
  PROVE  x \in Records <=>
           \/ \E i \in 1..Len(ledger) : x = ledger[i]
           \/ \E r \in Reviewers : call[r] \in Booked /\ x = call[r].rec
           \/ plan # None /\ \E i \in DOMAIN plan : x = plan[i]
BY DEF Records

LEMMA RecordsType == ASSUME Typed, NEW x \in Records PROVE x \in Rec /\ x.checks \in Nat
<1>1. x \in Rec
  BY InRecords DEF Typed, Booked
<1> QED BY <1>1 DEF Rec

\* A step that starts no call, and ends one when a record gains a check.
LEMMA CountedKeeps ==
  ASSUME Typed, Typed', Counted, calls' = calls, Busy' \subseteq Busy, NEW n \in {0, 1},
         n = 1 => Busy' # Busy,
         \A x \in Records' : x.checks = 0 \/ \E y \in Records : x.checks <= y.checks + n
  PROVE  Counted'
<1>1. /\ IsFiniteSet(Busy') /\ Cardinality(Busy') \in Nat /\ Cardinality(Busy) \in Nat
      /\ Cardinality(Busy') <= Cardinality(Busy)
      /\ Busy' # Busy => Cardinality(Busy') # Cardinality(Busy)
  BY FS_Subset, FS_CardinalityType DEF Counted
<1>2. \A x \in Records' : x.checks \in Nat
  <2>1. \A x \in Records' : x \in Rec
    <3>1. /\ \A i \in 1..Len(ledger') : ledger'[i] \in Rec
          /\ plan' # None => \A i \in DOMAIN plan' : plan'[i] \in Rec
      BY DEF Typed
    <3>2. \A r \in Reviewers : call'[r] \in Booked => call'[r].rec \in Rec
      BY DEF Booked
    <3> QED BY <3>1, <3>2 DEF Records
  <2> QED BY <2>1 DEF Rec
<1>3. ASSUME NEW x \in Records' PROVE x.checks + Cardinality(Busy') <= calls
  <2>1. CASE x.checks = 0
    BY <2>1, <1>1 DEF Counted
  <2>2. CASE \E y \in Records : x.checks <= y.checks + n
    <3>1. PICK y \in Records : x.checks <= y.checks + n
      BY <2>2
    <3>2. y.checks \in Nat /\ y.checks + Cardinality(Busy) <= calls
      BY <3>1, RecordsType DEF Counted
    <3> QED BY <3>1, <3>2, <1>1, <1>2 DEF Counted
  <2> QED BY <2>1, <2>2
<1> QED BY <1>1, <1>3 DEF Counted

LEMMA CountedOpen ==
  ASSUME Typed, Counted, NEW r \in Reviewers, Open(r)
  PROVE  Counted'
<1>1. PICK job \in Jobs, given \in {0, Current} :
        call' = [call EXCEPT ![r] = [pc |-> "sent", job |-> job, seen |-> page, given |-> given]]
  BY DEF Open
<1>2. Busy' = Busy \cup {r} /\ r \notin Busy
  BY <1>1 DEF Busy, Typed, Calls, Open, At
<1>3. IsFiniteSet(Busy') /\ Cardinality(Busy') = Cardinality(Busy) + 1 /\ Cardinality(Busy) \in Nat
  BY <1>2, FS_AddElement, FS_CardinalityType DEF Counted
<1>4. Records' \subseteq Records
  <2>1. call'[r] \notin Booked /\ \A q \in Reviewers \ {r} : call'[q] = call[q]
    BY <1>1 DEF Booked, Typed, Calls
  <2>2. UNCHANGED <<ledger, plan>>
    BY DEF Open
  <2> QED BY <2>1, <2>2 DEF Records
<1>5. calls' = calls + 1
  BY DEF Open
<1>6. \A x \in Records : x.checks \in Nat
  BY RecordsType
<1> QED BY <1>3, <1>4, <1>5, <1>6 DEF Counted

LEMMA CountedStep == Typed /\ Typed' /\ Counted /\ [Next]_vars => Counted'
<1> SUFFICES ASSUME Typed, Typed', Counted, [Next]_vars PROVE Counted'
  OBVIOUS
<1>0. /\ DOMAIN call = Reviewers /\ Idle.pc = "idle" /\ Len(ledger) \in Nat /\ Idle \notin Booked
      /\ \A x \in Records : x.checks \in Nat
  BY RecordsType DEF Typed, Calls, Idle, Booked
<1>1. ASSUME NEW r \in Reviewers, Enter(r) \/ Check(r) \/ Refuse(r) \/ PublishPage(r) \/ Fail(r) \/ Kill(r)
      PROVE  Counted'
  <2>1. UNCHANGED <<ledger, plan>> /\ calls' = calls /\ call[r].pc # "idle"
    BY <1>1 DEF Enter, Check, Refuse, PublishPage, Fail, Kill, At, counts
  <2>2. PICK c : /\ call' = [call EXCEPT ![r] = c]
                 /\ c = Idle \/ \E to \in {"check", "ensure", "record"} :
                      c = [call[r] EXCEPT !.pc = to] /\ (to # "record" => call[r].pc \in {"sent", "check"})
    BY <1>1 DEF Enter, Check, Refuse, PublishPage, Fail, Kill, Return, At
  <2>3. \A q \in Reviewers : call'[q] = IF q = r THEN c ELSE call[q]
    BY <2>2, <1>0
  <2>4. c \in Booked => call[r] \in Booked /\ c.rec = call[r].rec
    <3>1. IsSent(call[r]) \/ call[r] \in Booked
      BY <2>1, <1>0 DEF Typed, Calls
    <3>2. IsSent(call[r]) => c \notin Booked
      <4> SUFFICES ASSUME IsSent(call[r]) PROVE c \notin Booked
        OBVIOUS
      <4>1. DOMAIN call[r] = {"pc", "job", "seen", "given"}
        BY DEF IsSent
      <4>2. c = Idle \/ DOMAIN c = {"pc", "job", "seen", "given"}
        BY <2>2, <4>1
      <4>3. \A d \in Booked : "rid" \in DOMAIN d
        BY DEF Booked
      <4> QED BY <4>2, <4>3, <1>0
    <3>3. call[r] \in Booked /\ c # Idle => c.rec = call[r].rec
      BY <2>2 DEF Booked
    <3> QED BY <3>1, <3>2, <3>3, <1>0
  <2>5. Records' \subseteq Records
    BY <2>1, <2>3, <2>4 DEF Records
  <2>6. Busy' \subseteq Busy
    BY <2>1, <2>3 DEF Busy
  <2>7. \A x \in Records' : \E y \in Records : x.checks <= y.checks + 0
    BY <2>5, <1>0
  <2> QED BY <2>1, <2>6, <2>7, CountedKeeps
<1>2. ASSUME NEW r \in Reviewers, Ensure(r) PROVE Counted'
  <2> DEFINE id == Request(page, "page")
             c  == [pc |-> IF call[r].job \in Decisions THEN "page" ELSE "record",
                    job |-> call[r].job, seen |-> call[r].seen, rid |-> id,
                    rec |-> ledger'[id], old |-> page]
  <2>1. UNCHANGED plan /\ calls' = calls /\ call[r].pc # "idle" /\ ledger' = Ensured(page, "page")
    BY <1>2 DEF Ensure, At, counts
  <2>2. call' = [call EXCEPT ![r] = Idle] \/ call' = [call EXCEPT ![r] = c]
    BY <1>2 DEF Ensure, Return
  <2>3. Len(ledger') \in Nat /\ id \in 1..Len(ledger') /\ c.rec = ledger'[id]
        /\ \A i \in 1..Len(ledger') :
             ledger'[i].checks = 0 \/ (i \in 1..Len(ledger) /\ ledger'[i] = ledger[i])
    <3>1. NewRecord(page, "page").checks = 0
      BY DEF NewRecord
    <3>2. Len(ledger') \in Nat
      BY DEF Typed
    <3> QED BY <3>1, <3>2, <2>1, <1>0, EnsuredIs
  <2> HIDE DEF c, id
  <2>4. \A x \in Records' : x.checks = 0 \/ x \in Records
    <3> SUFFICES ASSUME NEW x \in Records' PROVE x.checks = 0 \/ x \in Records
      OBVIOUS
    <3>1. CASE \E i \in 1..Len(ledger') : x = ledger'[i]
      BY <3>1, <2>3 DEF Records
    <3>2. CASE \E q \in Reviewers : call'[q] \in Booked /\ x = call'[q].rec
      <4>1. PICK q \in Reviewers : call'[q] \in Booked /\ x = call'[q].rec
        BY <3>2
      <4>2. CASE q = r
        BY <4>1, <4>2, <2>2, <2>3, <1>0 DEF Records
      <4>3. CASE q # r
        BY <4>1, <4>3, <2>2, <1>0 DEF Records
      <4> QED BY <4>2, <4>3
    <3>3. CASE plan # None /\ \E i \in DOMAIN plan : x = plan[i]
      BY <3>3 DEF Records
    <3> QED BY <3>1, <3>2, <3>3, <2>1 DEF Records
  <2>5. Busy' \subseteq Busy
    BY <2>1, <2>2, <1>0 DEF Busy
  <2>6. \A x \in Records' : x.checks = 0 \/ \E y \in Records : x.checks <= y.checks + 0
    BY <2>4, <1>0
  <2> QED BY <2>1, <2>5, <2>6, CountedKeeps
<1>3. ASSUME NEW r \in Reviewers, PublishRecord(r) PROVE Counted'
  <2>1. call[r] \in Booked /\ call[r].pc = "record" /\ call[r].rid \in 1..Len(ledger)
    BY <1>3, <1>0 DEF PublishRecord, At, Typed, Calls, IsSent
  <2>2. /\ ledger' = [ledger EXCEPT ![call[r].rid] = Noted(call[r].rec, call[r].job)]
        /\ call' = [call EXCEPT ![r] = Idle] /\ UNCHANGED plan /\ calls' = calls
    BY <1>3 DEF PublishRecord, Return, counts
  <2>3. Noted(call[r].rec, call[r].job).checks \in {call[r].rec.checks, call[r].rec.checks + 1}
    <3>1. call[r].rec \in Rec
      BY <2>1 DEF Booked
    <3> QED BY <3>1 DEF Noted, Rec
  <2>4. call[r].rec \in Records
    BY <2>1 DEF Records
  <2>5. \A x \in Records' : x \in Records \/ x = Noted(call[r].rec, call[r].job)
    <3> SUFFICES ASSUME NEW x \in Records' PROVE x \in Records \/ x = Noted(call[r].rec, call[r].job)
      OBVIOUS
    <3>1. Len(ledger') = Len(ledger) /\ \A i \in 1..Len(ledger) :
            ledger'[i] = IF i = call[r].rid THEN Noted(call[r].rec, call[r].job) ELSE ledger[i]
      BY <2>1, <2>2 DEF Typed
    <3>2. \A q \in Reviewers : call'[q] = IF q = r THEN Idle ELSE call[q]
      BY <2>2, <1>0
    <3> QED BY <3>1, <3>2, <2>2, <1>0 DEF Records
  <2>6. \A x \in Records' : \E y \in Records : x.checks <= y.checks + 1
    BY <2>3, <2>4, <2>5, <1>0
  <2>7. Busy' \subseteq Busy /\ Busy' # Busy
    BY <2>1, <2>2, <1>0 DEF Busy
  <2> QED BY <2>2, <2>6, <2>7, CountedKeeps
<1>4. ASSUME NEW t \in Tools, ToolRead(t) \/ ToolWrite(t) \/ ToolEnds(t) PROVE Counted'
  <2>1. UNCHANGED <<ledger, plan, call>> /\ calls' = calls
    BY <1>4 DEF ToolRead, ToolWrite, ToolEnds, counts
  <2> QED BY <2>1 DEF Counted, Busy, Records
<1>5. ASSUME NEW t \in Tools, ToolQueue(t) PROVE Counted'
  <2>1. UNCHANGED <<plan, call>> /\ calls' = calls /\ ledger' = Ensured(page, "flags")
    BY <1>5 DEF ToolQueue, counts
  <2>2. \A i \in 1..Len(ledger') :
          ledger'[i].checks = 0 \/ (i \in 1..Len(ledger) /\ ledger'[i] = ledger[i])
    <3>1. NewRecord(page, "flags").checks = 0
      BY DEF NewRecord
    <3>2. Len(ledger') \in Nat
      BY DEF Typed
    <3> QED BY <3>1, <3>2, <2>1, <1>0, EnsuredIs
  <2>3. \A x \in Records' : x.checks = 0 \/ x \in Records
    BY <2>1, <2>2 DEF Records
  <2>4. Busy' \subseteq Busy
    BY <2>1 DEF Busy
  <2>5. \A x \in Records' : x.checks = 0 \/ \E y \in Records : x.checks <= y.checks + 0
    BY <2>3, <1>0
  <2> QED BY <2>1, <2>4, <2>5, CountedKeeps
<1>6. CASE Reconcile
  <2>1. UNCHANGED <<ledger, call>> /\ calls' = calls
        /\ \A i \in DOMAIN plan' : i \in 1..Len(ledger) /\ plan'[i] = ledger[i]
    BY <1>6 DEF Reconcile, OpenRecords, counts, Typed
  <2>2. Records' \subseteq Records
    BY <2>1 DEF Records
  <2>3. Busy' \subseteq Busy
    BY <2>1 DEF Busy
  <2>4. \A x \in Records' : \E y \in Records : x.checks <= y.checks + 0
    BY <2>2, <1>0
  <2> QED BY <2>1, <2>3, <2>4, CountedKeeps
<1>7. CASE CloseRecord
  <2>1. PICK i \in DOMAIN plan :
          /\ ledger' = [ledger EXCEPT ![i] = [plan[i] EXCEPT !.state = "dismissed",
                                                             !.history = Append(@, "reconcile")]]
          /\ plan' = IF DOMAIN plan = {i} THEN None ELSE [j \in DOMAIN plan \ {i} |-> plan[j]]
    BY <1>7 DEF CloseRecord
  <2> DEFINE rec == [plan[i] EXCEPT !.state = "dismissed", !.history = Append(@, "reconcile")]
  <2>2. i \in 1..Len(ledger) /\ plan[i] \in Rec /\ plan # None
    BY <1>7 DEF CloseRecord, Typed
  <2>3. rec.checks = plan[i].checks /\ plan[i] \in Records
    BY <2>2 DEF Rec, Records
  <2>4. Len(ledger') = Len(ledger) /\ \A j \in 1..Len(ledger) : ledger'[j] = IF j = i THEN rec ELSE ledger[j]
    BY <2>1, <2>2 DEF Typed
  <2>5. plan' # None => \A j \in DOMAIN plan' : j \in DOMAIN plan /\ plan'[j] = plan[j]
    BY <2>1
  <2>6. UNCHANGED call /\ calls' = calls
    BY <1>7 DEF CloseRecord, counts
  <2> HIDE DEF rec
  <2>7. \A x \in Records' : x \in Records \/ x = rec
    BY <2>2, <2>4, <2>5, <2>6 DEF Records
  <2>8. Busy' \subseteq Busy
    BY <2>6 DEF Busy
  <2>9. \A x \in Records' : \E y \in Records : x.checks <= y.checks + 0
    BY <2>3, <2>7, <1>0
  <2> QED BY <2>6, <2>8, <2>9, CountedKeeps
<1>8. CASE UNCHANGED vars
  BY <1>8 DEF vars, counts, Counted, Busy, Records
<1> QED BY <1>1, <1>2, <1>3, <1>4, <1>5, <1>6, <1>7, <1>8, CountedOpen DEF Next, Reviewing, Editing

\* Pages, records and calls of reviewers, tools and a reconciliation keep their
\* shape, and a record counts no check that was not asked for.
THEOREM TypeCorrect == Spec => []TypeOK
<1>1. Typed /\ Limits /\ Counted => TypeOK
  <2> SUFFICES ASSUME Typed, Limits, Counted PROVE TypeOK
    OBVIOUS
  <2>1. ASSUME NEW i \in DOMAIN ledger
        PROVE  ledger[i].state \in States /\ ledger[i].checks \in 0..MaxCalls
    <3>1. ledger[i] \in Records /\ ledger[i] \in Rec
      BY DEF Typed, Records
    <3>2. ledger[i].checks \in Nat /\ ledger[i].checks + Cardinality(Busy) <= calls
          /\ Cardinality(Busy) \in Nat
      BY <3>1, RecordsType, FS_CardinalityType DEF Counted
    <3> QED BY <3>1, <3>2, ReviewAssumption DEF Limits, Rec
  <2>2. \A r \in Reviewers : call[r].pc \in {"idle", "sent", "check", "ensure", "page", "record"}
    BY DEF Typed, Calls, IsSent, Booked, Idle
  <2>3. page.text \in 0..MaxEdits /\ read \subseteq 0..MaxEdits
    BY ReviewAssumption DEF Limits, Old
  <2>4. /\ page.version \in Nat /\ page.flag \in BOOLEAN /\ page.state \in States \cup {"none"}
        /\ page.rid \in 0..Len(ledger) /\ (page.state = "none" <=> page.rid = 0)
        /\ DOMAIN ledger = 1..Len(ledger)
    BY DEF Typed, PageSet, Named
  <2> QED BY <2>1, <2>2, <2>3, <2>4 DEF TypeOK, Limits
<1> QED BY TypedInit, TypedStep, LimitsInit, LimitsStep, CountedInit, CountedStep, <1>1, PTL DEF Spec
=============================================================================
