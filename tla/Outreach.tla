------------------------------ MODULE Outreach ------------------------------
(***************************************************************************)
(* The touches of one prospect: the plans of the campaigns that enrolled   *)
(* them, the draft jobs that turn a planned step into a message, the       *)
(* approvals a manager decides, and the operator and prospect events that  *)
(* stop a sequence (backend/orchestrator/handlers.py, replies.py,          *)
(* backend/policy/gate.py).                                                *)
(*                                                                         *)
(* A draft, an approval and a scan of the due steps are transactions with  *)
(* a slow call inside, so each is split where another one can commit: the  *)
(* read of the enrollment, the gate behind the advisory locks, the commit. *)
(* The handlers that only read and write the database are one action each. *)
(***************************************************************************)
EXTENDS Integers, FiniteSets, FiniteSetsExt

CONSTANTS
  Campaigns,   \* the campaigns that enrolled the prospect
  Touches,     \* the steps of all their plans
  CampOf,      \* the campaign of each touch
  Day,         \* steps[i].day: touches of one day are one opening
  Planned,     \* the channel the Sequencer gave each touch
  RepOf,       \* the rep of each campaign
  Items,       \* ids the approvals table may hold
  Txs,         \* transactions open at once: worker threads and API requests
  TouchLimit,  \* the touches after which scan_due gives a sequence up
  MaxJobs,     \* bound: queued draft jobs of one touch
  Budget,      \* bound: events from outside (replies, stops, switches, ...)
  None

Channels == {"email", "linkedin"}

ASSUME OutreachAssumption ==
  /\ IsFiniteSet(Touches)
  /\ CampOf \in [Touches -> Campaigns] /\ Planned \in [Touches -> Channels]
  /\ None \notin Campaigns \cup Touches \cup Items
  /\ TouchLimit \in Nat /\ MaxJobs \in Nat /\ Budget \in Nat

VARIABLES
  plan,        \* enrollments.plan: status, queued flag and channel by touch
  state,       \* enrollments.state
  planning,    \* campaigns with a queued plan job
  jobs,        \* queued draft jobs by touch
  item,        \* approvals: the pending message's touch and channel, status
  claim,       \* the campaign of the active contact claim
  suppressed,  \* the prospect is on the suppression list
  held,        \* campaigns that are paused or under the kill switch
  linkedin,    \* the LinkedIn channel is on
  recent,      \* how the touches of the last 48 hours were sent
  keys,        \* idempotency keys taken: touch and channel
  sent,        \* messages sent by touch
  decided,     \* history: messages sent by approval
  late,        \* history: messages a campaign sent since it was barred
  tx,          \* the open transactions
  budget       \* bound: outside events left

rows   == <<plan, state, planning, jobs, item, claim, suppressed>>
world  == <<held, linkedin, recent>>
ledger == <<keys, sent, decided>>
vars   == <<rows, world, ledger, late, tx, budget>>

Steps    == {"none", "pending", "done", "cancelled", "skipped", "blocked"}
States   == {"new", "qualified", "deferred", "awaiting", "contacted", "replied", "stopped", "opted_out"}
Active   == {"qualified", "contacted"}
Verdicts == {"hold", "replan", "skip", "block", "defer", "ask", "allow"}

Step  == [st : Steps, q : BOOLEAN, ch : Channels]
Plan  == [Touches -> Step]
Item  == [of : Touches \cup {None}, ch : Channels, st : {"free", "open", "approved", "rejected"}]

\* An open transaction: what it does, for which campaign, touch and approval,
\* the enrollment as it read it, whether it moved the touch to email, and the
\* gate's verdict once it has one. A transaction with a verdict holds the
\* advisory locks until it ends.
Tx == [kind : {"idle", "draft", "drop", "approve", "scan", "look"},
       camp : Campaigns \cup {None}, of : Touches \cup {None}, item : Items \cup {None},
       plan : Plan, st : States, moved : BOOLEAN, verdict : Verdicts \cup {"none"}]

OfCamp(c) == {t \in Touches : CampOf[t] = c}

NoPlan == [t \in Touches |-> [st |-> "none", q |-> FALSE, ch |-> "email"]]

IdleTx ==
  [kind |-> "idle", camp |-> None, of |-> None, item |-> None,
   plan |-> NoPlan, st |-> "new", moved |-> FALSE, verdict |-> "none"]

FreeItem == [of |-> None, ch |-> "email", st |-> "free"]

TypeOK ==
  /\ plan \in Plan
  /\ state \in [Campaigns -> States]
  /\ planning \subseteq Campaigns
  /\ jobs \in [Touches -> Nat]
  /\ item \in [Items -> Item]
  /\ claim \in Campaigns \cup {None}
  /\ suppressed \in BOOLEAN
  /\ held \subseteq Campaigns
  /\ linkedin \in BOOLEAN
  /\ recent \subseteq [camp : Campaigns, how : {"draft", "approve"}]
  /\ keys \subseteq Touches \X Channels
  /\ sent \in [Touches -> Nat]
  /\ decided \in [Items -> Nat]
  /\ late \in [Campaigns -> Nat]
  /\ tx \in [Txs -> Tx]
  /\ budget \in 0..Budget

Init ==
  /\ plan = NoPlan
  /\ state = [c \in Campaigns |-> "new"]
  /\ planning = {}
  /\ jobs = [t \in Touches |-> 0]
  /\ item = [i \in Items |-> FreeItem]
  /\ claim = None
  /\ suppressed = FALSE
  /\ held = {}
  /\ linkedin = TRUE
  /\ recent = {}
  /\ keys = {}
  /\ sent = [t \in Touches |-> 0]
  /\ decided = [i \in Items |-> 0]
  /\ late = [c \in Campaigns |-> 0]
  /\ tx = [d \in Txs |-> IdleTx]
  /\ budget = Budget

-----------------------------------------------------------------------------
(* The rows a handler reads and writes.                                    *)

Open(i) == item[i].st = "open"

\* An open approval of the enrollment, for a step other than t.
OtherOpen(c, t) == \E i \in Items : Open(i) /\ CampOf[item[i].of] = c /\ item[i].of # t

\* save_enr(plan=...): the whole column of campaign c is written from p.
Saved(c, p) == [t \in Touches |-> IF CampOf[t] = c THEN p[t] ELSE plan[t]]

\* cancel_pending_steps(): every pending step of the campaigns in C.
Cancelled(C) ==
  [t \in Touches |->
     IF CampOf[t] \in C /\ plan[t].st = "pending"
       THEN [plan[t] EXCEPT !.st = "cancelled"] ELSE plan[t]]

\* cancel_jobs=True: their queued draft jobs, never a running one.
Dropped(C) == [t \in Touches |-> IF CampOf[t] \in C THEN 0 ELSE jobs[t]]

\* release_claim(): only the holder's claim is released, and one enrollment
\* that was deferred is planned again.
Released(c) == IF claim = c THEN None ELSE claim
Wakes(c) == IF claim = c THEN {x \in Campaigns \ {c} : state[x] = "deferred"} ELSE {}
Release(c, st) ==
  /\ claim' = Released(c)
  /\ \/ /\ Wakes(c) = {}
        /\ state' = st /\ UNCHANGED planning
     \/ \E x \in Wakes(c) :
          /\ state' = [st EXCEPT ![x] = "qualified"]
          /\ planning' = planning \cup {x}

\* enqueue(): one more draft job for every touch of S.
Queued(S) == [t \in Touches |-> IF t \in S THEN jobs[t] + 1 ELSE jobs[t]]
Running(t) == Cardinality({d \in Txs : tx[d].kind \in {"draft", "drop"} /\ tx[d].of = t})
RoomFor(S) == \A t \in S : jobs[t] + Running(t) < MaxJobs

\* The advisory locks of a transaction past its gate. A draft has the
\* prospect's and its quota locks (rep and campaign), an approval the latter.
Past(d) == tx[d].verdict # "none"
SameQuota(c1, c2) == c1 = c2 \/ RepOf[c1] = RepOf[c2]
QuotaFree(d) == \A x \in Txs \ {d} : Past(x) => ~SameQuota(tx[x].camp, tx[d].camp)
ProspectFree(d) == \A x \in Txs \ {d} : Past(x) => tx[x].kind # "draft"

\* gate.evaluate(): the first check that fails decides. What the model leaves
\* out, quotas and rules on approval, is the choice of room and ask.
Verdict(c, ch, sameDay, room, ask) ==
  CASE c \in held                        -> "hold"
    [] ch = "linkedin" /\ ~linkedin      -> "replan"
    [] suppressed                        -> "block"
    [] claim \notin {c, None}            -> "defer"
    [] recent # {} /\ ~sameDay           -> "defer"
    [] ~room                             -> "defer"
    [] ask                               -> "ask"
    [] OTHER                             -> "allow"

\* The campaign may not contact the prospect now.
Barred(c) == c \in held \/ suppressed \/ claim \notin {c, None}

\* Messages sent so far while barred, for the campaigns barred after the step.
LateAfter(sender) ==
  [c \in Campaigns |->
     IF Barred(c)' THEN late[c] + (IF c = sender /\ Barred(c) THEN 1 ELSE 0) ELSE 0]

Event == budget > 0 /\ budget' = budget - 1

EndTx(d) == tx' = [tx EXCEPT ![d] = IdleTx]

\* A transaction of kind k on campaign c opens: it keeps the enrollment it read.
OpenTx(d, k, c, t, i) ==
  tx' = [tx EXCEPT ![d] =
    [kind |-> k, camp |-> c, of |-> t, item |-> i,
     plan |-> [u \in Touches |-> IF CampOf[u] = c THEN plan[u] ELSE NoPlan[u]],
     st |-> state[c], moved |-> FALSE, verdict |-> "none"]]
Idle(d) == tx[d].kind = "idle"

\* Transaction d writes back the plan it read, with x as the step it is about.
SaveStep(d, x) == plan' = Saved(tx[d].camp, [tx[d].plan EXCEPT ![tx[d].of] = x])
StepOf(d)      == tx[d].plan[tx[d].of]
Done(d)        == [StepOf(d) EXCEPT !.st = "done", !.q = FALSE]
\* ... or, if it only moved the step to email, the plan with that move.
SaveMoved(d)   == plan' = IF tx[d].moved THEN Saved(tx[d].camp, tx[d].plan) ELSE plan

\* Transaction d sent its message: the state it read decides the next one.
Contacted(d) ==
  state' = IF tx[d].st \in {"qualified", "awaiting"}
             THEN [state EXCEPT ![tx[d].camp] = "contacted"] ELSE state
Sent(d) ==
  /\ sent' = [sent EXCEPT ![tx[d].of] = @ + 1]
  /\ recent' = recent \cup {[camp |-> tx[d].camp, how |-> tx[d].kind]}
  /\ late' = LateAfter(tx[d].camp)
NoneSent == late' = LateAfter(None) /\ UNCHANGED <<recent, ledger>>

\* same_day: another step of that day is done in the plan d read.
SameDay(d) ==
  \E u \in OfCamp(tx[d].camp) \ {tx[d].of} :
    tx[d].plan[u].st = "done" /\ Day[u] = Day[tx[d].of]

\* d after its gate. A channel that is off moves the touch to email, which is
\* judged again, or skips it when the rep has no email.
Judged(d, room, ask, mail) ==
  LET c == tx[d].camp
      v == Verdict(c, StepOf(d).ch, SameDay(d), room, ask)
  IN IF v # "replan" THEN [tx[d] EXCEPT !.verdict = v]
     ELSE IF mail THEN [tx[d] EXCEPT !.verdict = Verdict(c, "email", SameDay(d), room, ask),
                                     !.plan[tx[d].of].ch = "email", !.moved = TRUE]
     ELSE [tx[d] EXCEPT !.verdict = "skip"]

-----------------------------------------------------------------------------
(* do_draft: read, gate, and one commit for each verdict.                  *)

\* A mutant: the claim does not look whether the job is still queued.
ReadDraftUnguarded(d, t) ==
  /\ Idle(d) /\ CampOf[t] \notin held
  /\ jobs' = [jobs EXCEPT ![t] = @ - 1]
  /\ OpenTx(d, "draft", CampOf[t], t, None)
  /\ UNCHANGED <<plan, state, planning, item, claim, suppressed, held, linkedin, budget>>
  /\ NoneSent

\* A worker claims a draft job of t and reads the enrollment. An open approval
\* of another step makes the job give way. The step's status is not looked at.
ReadDraft(d, t) ==
  /\ Idle(d) /\ jobs[t] > 0 /\ CampOf[t] \notin held
  /\ jobs' = [jobs EXCEPT ![t] = @ - 1]
  /\ OpenTx(d, IF OtherOpen(CampOf[t], t) THEN "drop" ELSE "draft", CampOf[t], t, None)
  /\ UNCHANGED <<plan, state, planning, item, claim, suppressed, held, linkedin, budget>>
  /\ NoneSent

DropDraft(d) ==
  /\ tx[d].kind = "drop"
  /\ SaveStep(d, [StepOf(d) EXCEPT !.q = FALSE])
  /\ EndTx(d)
  /\ UNCHANGED <<state, planning, jobs, item, claim, suppressed, held, linkedin, budget>>
  /\ NoneSent

Drafting(d) == tx[d].kind = "draft" /\ ~Past(d)

Judge(d) ==
  /\ \E room, ask, mail \in BOOLEAN : tx' = [tx EXCEPT ![d] = Judged(d, room, ask, mail)]
  /\ UNCHANGED <<rows, held, linkedin, budget>>
  /\ NoneSent

\* Mutants: the draft takes no lock on the prospect, or none on the quotas.
GateDraftNoProspect(d) == Drafting(d) /\ QuotaFree(d) /\ Judge(d)
GateDraftNoQuota(d)    == Drafting(d) /\ ProspectFree(d) /\ Judge(d)

\* The prospect's lock, the Writer, the quota locks, the gate.
GateDraft(d) == Drafting(d) /\ ProspectFree(d) /\ QuotaFree(d) /\ Judge(d)

\* KnowledgeGap: the job is finished and an escalation raised; the step keeps
\* its queued flag.
LackKnowledge(d) ==
  /\ Drafting(d) /\ ProspectFree(d)
  /\ EndTx(d)
  /\ UNCHANGED <<rows, held, linkedin, budget>>
  /\ NoneSent

At(d, v) == tx[d].kind = "draft" /\ tx[d].verdict = v

\* _requeue_later().
HoldDraft(d) ==
  /\ At(d, "hold")
  /\ jobs' = Queued({tx[d].of})
  /\ SaveMoved(d) /\ EndTx(d)
  /\ UNCHANGED <<state, planning, item, claim, suppressed, held, linkedin, budget>>
  /\ NoneSent

\* A blocked or a skipped step: the snapshot is saved with that status.
BlockDraft(d) ==
  /\ \/ At(d, "block") /\ SaveStep(d, [StepOf(d) EXCEPT !.st = "blocked"])
     \/ At(d, "skip") /\ SaveStep(d, [StepOf(d) EXCEPT !.st = "skipped"])
  /\ EndTx(d)
  /\ UNCHANGED <<state, planning, jobs, item, claim, suppressed, held, linkedin, budget>>
  /\ NoneSent

\* A deferred step: the snapshot is saved and a new draft job queued.
DeferDraft(d) ==
  /\ At(d, "defer")
  /\ SaveStep(d, [StepOf(d) EXCEPT !.q = TRUE])
  /\ jobs' = Queued({tx[d].of})
  /\ EndTx(d)
  /\ UNCHANGED <<state, planning, item, claim, suppressed, held, linkedin, budget>>
  /\ NoneSent

\* A mutant: the step is marked done when the approval is asked for.
AskDraftDone(d) ==
  /\ At(d, "ask") \/ At(d, "allow")
  /\ \E i \in Items :
       /\ item[i].st = "free"
       /\ item' = [item EXCEPT ![i] = [of |-> tx[d].of, ch |-> StepOf(d).ch, st |-> "open"]]
  /\ SaveStep(d, Done(d)) /\ EndTx(d)
  /\ UNCHANGED <<state, planning, jobs, claim, suppressed, held, linkedin, budget>>
  /\ NoneSent

\* needs_approval, or an ungrounded draft on any verdict that would let it go:
\* a pending message and an open approval. The step itself is left as it is.
AskDraft(d) ==
  /\ At(d, "ask") \/ At(d, "allow")
  /\ \E i \in Items :
       /\ item[i].st = "free"
       /\ item' = [item EXCEPT ![i] = [of |-> tx[d].of, ch |-> StepOf(d).ch, st |-> "open"]]
  /\ state' = IF tx[d].st = "qualified" THEN [state EXCEPT ![tx[d].camp] = "awaiting"] ELSE state
  /\ SaveMoved(d) /\ EndTx(d)
  /\ UNCHANGED <<planning, jobs, claim, suppressed, held, linkedin, budget>>
  /\ NoneSent

\* send_step(): the idempotency key is inserted with the message, the snapshot
\* saved with the step done.
Key(d) == <<tx[d].of, StepOf(d).ch>>
\* A mutant: the key is written without its unique index.
SendDraftNoKey(d) ==
  /\ At(d, "allow")
  /\ keys' = keys \cup {Key(d)}
  /\ SaveStep(d, Done(d))
  /\ Contacted(d) /\ EndTx(d)
  /\ UNCHANGED <<planning, jobs, item, claim, suppressed, held, linkedin, decided, budget>>
  /\ Sent(d)

SendDraft(d) ==
  /\ At(d, "allow") /\ Key(d) \notin keys
  /\ keys' = keys \cup {Key(d)}
  /\ SaveStep(d, Done(d))
  /\ Contacted(d) /\ EndTx(d)
  /\ UNCHANGED <<planning, jobs, item, claim, suppressed, held, linkedin, decided, budget>>
  /\ Sent(d)

\* UniqueViolation: "Duplicate send prevented".
DuplicateDraft(d) ==
  /\ At(d, "allow") /\ Key(d) \in keys
  /\ SaveMoved(d) /\ EndTx(d)
  /\ UNCHANGED <<state, planning, jobs, item, claim, suppressed, held, linkedin, budget>>
  /\ NoneSent

\* An exception rolls the transaction back; record_failure() queues the job
\* again or gives it up.
FailDraft(d) ==
  /\ Event /\ tx[d].kind = "draft"
  /\ jobs' \in {jobs, Queued({tx[d].of})}
  /\ EndTx(d)
  /\ UNCHANGED <<plan, state, planning, item, claim, suppressed, held, linkedin>>
  /\ NoneSent

-----------------------------------------------------------------------------
(* approve_item and reject_item.                                           *)

\* No transaction holds the approval's row (select ... for update).
RowFree(i) == \A x \in Txs : tx[x].item # i

\* A manager approves i: the row is locked, the enrollment read.
ReadApproval(d, i) ==
  /\ Idle(d) /\ Open(i) /\ RowFree(i)
  /\ OpenTx(d, "approve", CampOf[item[i].of], item[i].of, i)
  /\ UNCHANGED <<rows, held, linkedin, budget>>
  /\ NoneSent

\* lock_quota() and the gate, with the approval rule and the same-day
\* exemption left out.
GateApproval(d) ==
  /\ tx[d].kind = "approve" /\ ~Past(d) /\ QuotaFree(d)
  /\ \E room \in BOOLEAN :
       tx' = [tx EXCEPT ![d].verdict =
                Verdict(tx[d].camp, item[tx[d].item].ch, FALSE, room, FALSE)]
  /\ UNCHANGED <<rows, held, linkedin, budget>>
  /\ NoneSent

\* "Approval kept open."
KeepApproval(d) ==
  /\ tx[d].kind = "approve" /\ tx[d].verdict \notin {"none", "allow"}
  /\ EndTx(d)
  /\ UNCHANGED <<rows, held, linkedin, budget>>
  /\ NoneSent

\* The pending message is sent; neither an idempotency key nor the enrollment's
\* state is looked at, and the whole snapshot is saved with the step done.
SendApproval(d) ==
  /\ tx[d].kind = "approve" /\ tx[d].verdict = "allow"
  /\ item' = [item EXCEPT ![tx[d].item].st = "approved"]
  /\ decided' = [decided EXCEPT ![tx[d].item] = @ + 1]
  /\ SaveStep(d, Done(d))
  /\ Contacted(d) /\ EndTx(d)
  /\ UNCHANGED <<planning, jobs, claim, suppressed, held, linkedin, keys, budget>>
  /\ Sent(d)

\* The sequences of C end: pending steps and queued drafts are cancelled.
EndSequences(C) == plan' = Cancelled(C) /\ jobs' = Dropped(C)

\* A manager rejects i, whatever its status was.
RejectItem(i) ==
  /\ Event /\ item[i].st # "free" /\ RowFree(i)
  /\ item' = [item EXCEPT ![i].st = "rejected"]
  /\ LET c == CampOf[item[i].of] IN
       EndSequences({c}) /\ Release(c, [state EXCEPT ![c] = "stopped"])
  /\ UNCHANGED <<suppressed, held, linkedin, tx>>
  /\ NoneSent

-----------------------------------------------------------------------------
(* scan_due, dispatch_due and POST /outreach/send.                         *)

Waiting(p, c) == {t \in OfCamp(c) : p[t].st = "pending" /\ ~p[t].q}

\* maintenance() reads an enrollment of its scan: with no step pending it would
\* change nothing, with an approval open it queues nothing.
ReadScan(d, c) ==
  /\ Idle(d) /\ state[c] \in Active
  /\ \E t \in OfCamp(c) : plan[t].st = "pending"
  /\ OpenTx(d, IF OtherOpen(c, None) THEN "look" ELSE "scan", c, None, None)
  /\ UNCHANGED <<rows, held, linkedin, budget>>
  /\ NoneSent

\* dispatch_due(): queues the waiting steps that are due and saves the plan it
\* read.
CommitScan(d) ==
  LET c == tx[d].camp IN
  /\ tx[d].kind = "scan"
  /\ \E S \in SUBSET Waiting(tx[d].plan, c) \ {{}} :
       /\ RoomFor(S)
       /\ plan' = Saved(c, [t \in Touches |-> [tx[d].plan[t] EXCEPT !.q = @ \/ t \in S]])
       /\ jobs' = Queued(S)
  /\ EndTx(d)
  /\ UNCHANGED <<state, planning, item, claim, suppressed, held, linkedin, budget>>
  /\ NoneSent

SentBy(c) == MapThenSumSet(LAMBDA t : sent[t], OfCamp(c))

\* Enough touches without a reply: the rest is cancelled and the claim released.
Exhaust(d) ==
  LET c == tx[d].camp IN
  /\ tx[d].kind \in {"scan", "look"} /\ tx[d].st = "contacted" /\ SentBy(c) >= TouchLimit
  /\ \E t \in OfCamp(c) : tx[d].plan[t].st = "pending"
  /\ plan' = Saved(c, [t \in Touches |->
       IF tx[d].plan[t].st = "pending" THEN [tx[d].plan[t] EXCEPT !.st = "cancelled"] ELSE tx[d].plan[t]])
  /\ Release(c, [state EXCEPT ![c] = "stopped"])
  /\ EndTx(d)
  /\ UNCHANGED <<jobs, item, suppressed, held, linkedin, budget>>
  /\ NoneSent

\* Nothing is due, or an approval is open.
LeaveScan(d) ==
  /\ tx[d].kind \in {"scan", "look"}
  /\ EndTx(d)
  /\ UNCHANGED <<rows, held, linkedin, budget>>
  /\ NoneSent

\* outreach_send(): the first pending step of c is queued if the gate would
\* not refuse it, queued or not already.
OutreachSend(c) ==
  /\ Event
  /\ \E t \in OfCamp(c) :
       /\ plan[t].st = "pending" /\ RoomFor({t})
       /\ \A u \in OfCamp(c) : Day[u] < Day[t] => plan[u].st # "pending"
       /\ Verdict(c, "email", FALSE, TRUE, FALSE) = "allow"
       /\ plan' = [plan EXCEPT ![t].q = TRUE]
       /\ jobs' = Queued({t})
  /\ UNCHANGED <<state, planning, item, claim, suppressed, held, linkedin, tx>>
  /\ NoneSent

-----------------------------------------------------------------------------
(* Qualification, planning and the claim.                                  *)

\* _qualify_or_defer() with resolve_claim(): c takes a free claim, or the
\* ladder moves it here and cancels what the other campaigns have pending.
Qualify(c) ==
  /\ state[c] = "new" /\ ~suppressed
  /\ claim' = c
  /\ plan' = IF claim = None THEN plan ELSE Cancelled(Campaigns \ {c})
  /\ state' = [state EXCEPT ![c] = "qualified"]
  /\ planning' = planning \cup {c}
  /\ UNCHANGED <<jobs, item, suppressed, held, linkedin, tx, budget>>
  /\ NoneSent

\* ... or the holder keeps it and c waits; a suppressed prospect is stopped.
TurnAway(c) ==
  /\ state[c] = "new"
  /\ \/ suppressed /\ state' = [state EXCEPT ![c] = "stopped"]
     \/ /\ ~suppressed /\ claim \notin {c, None}
        /\ state' = [state EXCEPT ![c] = "deferred"]
  /\ UNCHANGED <<plan, planning, jobs, item, claim, suppressed, held, linkedin, tx, budget>>
  /\ NoneSent

\* do_plan(): a new plan on the channels that are on replaces the old one, and
\* dispatch_due() queues the steps that are due.
PlanJob(c) ==
  /\ c \in planning /\ c \notin held
  /\ planning' = planning \ {c}
  /\ \E S \in SUBSET OfCamp(c) :
       /\ S # {} => state[c] \in Active /\ ~OtherOpen(c, None) /\ RoomFor(S)
       /\ plan' = [t \in Touches |->
            IF CampOf[t] # c THEN plan[t]
            ELSE [st |-> "pending", q |-> t \in S,
                  ch |-> IF linkedin THEN Planned[t] ELSE "email"]]
       /\ jobs' = Queued(S)
  /\ UNCHANGED <<state, item, claim, suppressed, held, linkedin, tx, budget>>
  /\ NoneSent

\* resolve_conflict(): a manager gives the claim to c, the other campaign's
\* sequence ends and it waits.
GiveClaim(c) ==
  /\ Event /\ claim \notin {c, None} /\ state[c] # "new"
  /\ claim' = c
  /\ EndSequences({claim})
  /\ state' = [x \in Campaigns |->
       IF x = claim /\ state[x] \in Active THEN "deferred"
       ELSE IF x = c /\ state[x] = "deferred" THEN "qualified" ELSE state[x]]
  /\ planning' = IF state[c] = "deferred" THEN planning \cup {c} ELSE planning
  /\ UNCHANGED <<item, suppressed, held, linkedin, tx>>
  /\ NoneSent

-----------------------------------------------------------------------------
(* What stops a sequence from outside.                                     *)

StopProspect(c) ==
  /\ Event /\ state[c] # "new"
  /\ EndSequences({c})
  /\ Release(c, [state EXCEPT ![c] = "stopped"])
  /\ UNCHANGED <<item, suppressed, held, linkedin, tx>>
  /\ NoneSent

\* ingest_reply(): not interested is a stop, a booked meeting releases the
\* claim, the other replies keep it.
Reply(c) ==
  /\ Event /\ SentBy(c) > 0
  /\ EndSequences({c})
  /\ \/ Release(c, [state EXCEPT ![c] = "stopped"])
     \/ Release(c, [state EXCEPT ![c] = "replied"])
     \/ state' = [state EXCEPT ![c] = "replied"] /\ UNCHANGED <<planning, claim>>
  /\ UNCHANGED <<item, suppressed, held, linkedin, tx>>
  /\ NoneSent

\* An opt-out ends every campaign's sequence.
Unsubscribe ==
  /\ Event /\ ~suppressed
  /\ suppressed' = TRUE
  /\ EndSequences(Campaigns)
  /\ state' = [c \in Campaigns |-> "opted_out"]
  /\ claim' = None
  /\ UNCHANGED <<planning, item, held, linkedin, tx>>
  /\ NoneSent

\* Pause and resume of a campaign, the kill switch (every campaign).
Hold ==
  /\ Event
  /\ \E C \in {Campaigns} \cup {{c} : c \in Campaigns} : held' \in {held \cup C, held \ C}
  /\ held' # held
  /\ UNCHANGED <<rows, linkedin, tx>>
  /\ NoneSent

\* toggle_channel() off moves the pending touches to email (replan()).
ToggleLinkedin ==
  /\ Event
  /\ linkedin' = ~linkedin
  /\ plan' = [t \in Touches |->
       IF linkedin /\ plan[t].st = "pending" /\ state[CampOf[t]] \in Active \cup {"awaiting"}
         THEN [plan[t] EXCEPT !.ch = "email"] ELSE plan[t]]
  /\ UNCHANGED <<state, planning, jobs, item, claim, suppressed, held, tx>>
  /\ NoneSent

\* 48 hours pass.
WindowPasses ==
  /\ recent # {} /\ recent' = {}
  /\ UNCHANGED <<rows, held, linkedin, ledger, tx, budget>>
  /\ late' = LateAfter(None)

DraftStep(d) ==
  \/ \E t \in Touches : ReadDraft(d, t)
  \/ DropDraft(d) \/ GateDraft(d) \/ LackKnowledge(d) \/ HoldDraft(d) \/ BlockDraft(d)
  \/ DeferDraft(d) \/ AskDraft(d) \/ SendDraft(d) \/ DuplicateDraft(d) \/ FailDraft(d)
ApproveStep(d) ==
  \/ \E i \in Items : ReadApproval(d, i)
  \/ GateApproval(d) \/ KeepApproval(d) \/ SendApproval(d)
ScanStep(d) ==
  \/ \E c \in Campaigns : ReadScan(d, c)
  \/ CommitScan(d) \/ Exhaust(d) \/ LeaveScan(d)
CampaignStep(c) ==
  OutreachSend(c) \/ Qualify(c) \/ TurnAway(c) \/ PlanJob(c) \/ GiveClaim(c) \/ StopProspect(c) \/ Reply(c)

Next ==
  \/ \E d \in Txs : DraftStep(d) \/ ApproveStep(d) \/ ScanStep(d)
  \/ \E c \in Campaigns : CampaignStep(c)
  \/ \E i \in Items : RejectItem(i)
  \/ Unsubscribe \/ Hold \/ ToggleLinkedin \/ WindowPasses

Spec == Init /\ [][Next]_vars

-----------------------------------------------------------------------------
(* What the locks, the key and the gate give.                              *)

\* A step marked done was sent: no stale plan, however it was saved, shows a
\* message that never left (handlers.py:328, replies.py:305).
DoneWasSent == \A t \in Touches : plan[t].st = "done" => sent[t] > 0

\* However often a manager approves, one approval sends one message
\* (replies.py:259-263).
ApprovalSendsOnce == \A i \in Items : decided[i] <= 1

\* What paid for the messages of touch t: the keys taken for it, the approvals
\* of it that were decided.
KeysOf(t)      == {k \in keys : k[1] = t}
ApprovalsOf(t) == {i \in Items : item[i].of = t /\ decided[i] > 0}

\* Every message of a touch is paid for by an idempotency key or by a decided
\* approval of its own, and each of them pays for one: no stale plan, duplicate
\* job, second manager or retry sends one more (handlers.py:316-325,
\* replies.py:259-302).
Accounted ==
  \A t \in Touches : sent[t] = Cardinality(KeysOf(t)) + Cardinality(ApprovalsOf(t))

\* Once a campaign is held, or the prospect opted out or went to another
\* campaign, at most one message of that campaign still leaves: the one whose
\* gate had answered (gate.py:153-160).
OneStraggler == \A c \in Campaigns : late[c] <= 1

\* Touch t may follow another of its day without waiting.
Opening(t) == \E u \in Touches \ {t} :
  CampOf[u] = CampOf[t] /\ Day[u] = Day[t] /\ sent[u] > 0

\* A message leaves within 48 hours of another one only as part of an opening,
\* or when one of the two was approved and their campaigns share no rep, so
\* that no lock orders the two gates (handlers.py:234, replies.py:294).
Sender(d) == tx'[d] # tx[d] /\ sent' # sent
Spaced(d) ==
  \/ tx[d].kind = "draft" /\ Opening(tx[d].of)
  \/ \A m \in recent : ~SameQuota(m.camp, tx[d].camp) /\ "approve" \in {m.how, tx[d].kind}
SpacedUnderLocks == [][\A d \in Txs : Sender(d) => Spaced(d)]_vars
=============================================================================
