--------------------------- MODULE OutreachProofs ---------------------------
(***************************************************************************)
(* What holds of Outreach for any campaigns, plans, approvals and open     *)
(* transactions: the type invariant, that the row and advisory locks       *)
(* exclude each other, and what they are for: a touch that is marked done  *)
(* was sent, an approval sends once, every message has its key or its      *)
(* approval, a barred campaign sends at most one straggler, and the 48     *)
(* hours hold wherever a lock orders the two gates.                        *)
(***************************************************************************)
EXTENDS Outreach, FiniteSetTheorems, TLAPS

\* Every step of the specification, one disjunct per action.
LEMMA StepCases ==
  ASSUME Next
  PROVE  \/ \E d \in Txs :
              \/ \E t \in Touches : ReadDraft(d, t)
              \/ DropDraft(d) \/ GateDraft(d) \/ LackKnowledge(d) \/ HoldDraft(d)
              \/ BlockDraft(d) \/ DeferDraft(d) \/ AskDraft(d) \/ SendDraft(d)
              \/ DuplicateDraft(d) \/ FailDraft(d)
              \/ \E i \in Items : ReadApproval(d, i)
              \/ GateApproval(d) \/ KeepApproval(d) \/ SendApproval(d)
              \/ \E c \in Campaigns : ReadScan(d, c)
              \/ CommitScan(d) \/ Exhaust(d) \/ LeaveScan(d)
         \/ \E c \in Campaigns :
              \/ OutreachSend(c) \/ Qualify(c) \/ TurnAway(c) \/ PlanJob(c)
              \/ GiveClaim(c) \/ StopProspect(c) \/ Reply(c)
         \/ \E i \in Items : RejectItem(i)
         \/ Unsubscribe \/ Hold \/ ToggleLinkedin \/ WindowPasses
BY DEF Next, DraftStep, ApproveStep, ScanStep, CampaignStep

-----------------------------------------------------------------------------
(* Type correctness.                                                       *)

\* A transaction that is about a touch names one, of its own campaign; an
\* approval transaction names an approval; an approval in use names a touch.
Wellformed ==
  /\ \A d \in Txs :
       /\ tx[d].kind # "idle" => tx[d].camp \in Campaigns
       /\ tx[d].kind \in {"draft", "drop", "approve"} =>
            tx[d].of \in Touches /\ tx[d].camp = CampOf[tx[d].of]
       /\ tx[d].kind = "approve" => tx[d].item \in Items /\ item[tx[d].item].st # "free"
  /\ \A i \in Items : item[i].st # "free" => item[i].of \in Touches

\* How a step changes the open transactions: one opens, one is judged behind
\* its locks, one ends, or none changes. A judged transaction keeps what it
\* read, but for the channel of its touch; and it may send only if its campaign
\* is not barred and the window is clear or its touch is part of an opening.
Opens(d, k, c, t, i) == Idle(d) /\ OpenTx(d, k, c, t, i)
Answers(d) ==
  {r \in Tx :
     /\ r.kind = tx[d].kind /\ r.camp = tx[d].camp /\ r.of = tx[d].of /\ r.item = tx[d].item
     /\ \A t \in Touches : r.plan[t].st = tx[d].plan[t].st
     /\ r.verdict # "none"
     /\ r.verdict = "allow" =>
          ~Barred(tx[d].camp) /\ (recent = {} \/ (tx[d].kind = "draft" /\ SameDay(d)))}
Judges(d) ==
  /\ ~Past(d) /\ tx[d].kind \in {"draft", "approve"}
  /\ QuotaFree(d)
  /\ tx[d].kind = "draft" => ProspectFree(d)
  /\ \E r \in Answers(d) : tx' = [tx EXCEPT ![d] = r]

\* The enrollment that a transaction reads is well typed.
LEMMA OpenTxType ==
  ASSUME TypeOK, NEW d \in Txs, NEW k \in {"draft", "drop", "approve", "scan", "look"},
         NEW c \in Campaigns, NEW t \in Touches \cup {None}, NEW i \in Items \cup {None},
         OpenTx(d, k, c, t, i)
  PROVE  tx' \in [Txs -> Tx]
<1>1. [u \in Touches |-> IF CampOf[u] = c THEN plan[u] ELSE NoPlan[u]] \in Plan
  BY DEF TypeOK, Plan, Step, NoPlan, Steps, Channels
<1>2. state[c] \in States
  BY DEF TypeOK
<1>3. [kind |-> k, camp |-> c, of |-> t, item |-> i,
       plan |-> [u \in Touches |-> IF CampOf[u] = c THEN plan[u] ELSE NoPlan[u]],
       st |-> state[c], moved |-> FALSE, verdict |-> "none"] \in Tx
  BY <1>1, <1>2 DEF Tx
<1>4. QED
  BY <1>3 DEF TypeOK, OpenTx

\* A transaction that ended is well typed.
LEMMA EndTxType ==
  ASSUME TypeOK, NEW d \in Txs, EndTx(d)
  PROVE  tx' \in [Txs -> Tx]
<1>1. NoPlan \in Plan
  BY DEF NoPlan, Plan, Step, Steps, Channels
<1>2. IdleTx \in Tx
  BY <1>1 DEF IdleTx, Tx, States
<1>3. QED
  BY <1>2 DEF TypeOK, EndTx

\* The gate answers a verdict, and "none" is not one. It allows a message only
\* to a campaign that is not barred, and within the window only by exemption.
LEMMA VerdictType ==
  ASSUME NEW c, NEW ch, NEW s \in BOOLEAN, NEW room \in BOOLEAN, NEW ask \in BOOLEAN
  PROVE  /\ Verdict(c, ch, s, room, ask) \in Verdicts
         /\ Verdict(c, ch, s, room, ask) = "allow" => ~Barred(c) /\ (recent = {} \/ s)
<1>1. Verdict(c, ch, s, room, ask) \in Verdicts
  BY DEF Verdict, Verdicts
<1>2. ASSUME Verdict(c, ch, s, room, ask) = "allow"
      PROVE  c \notin held /\ ~suppressed /\ claim \in {c, None} /\ (recent = {} \/ s)
  BY <1>2 DEF Verdict
<1>3. QED
  BY <1>1, <1>2 DEF Barred

\* The step a draft or an approval is about, and what the handlers make of it.
LEMMA StepType ==
  ASSUME TypeOK, Wellformed, NEW d \in Txs, tx[d].kind \in {"draft", "drop", "approve"}
  PROVE  /\ StepOf(d) \in Step
         /\ Done(d) \in Step
         /\ [StepOf(d) EXCEPT !.q = FALSE] \in Step
         /\ [StepOf(d) EXCEPT !.q = TRUE] \in Step
         /\ [StepOf(d) EXCEPT !.st = "blocked"] \in Step
         /\ [StepOf(d) EXCEPT !.st = "skipped"] \in Step
<1>1. tx[d] \in Tx /\ tx[d].of \in Touches
  BY DEF TypeOK, Wellformed
<1>2. StepOf(d) \in Step
  BY <1>1 DEF Tx, Plan, StepOf
<1>3. QED
  BY <1>2 DEF Done, Step, Steps

\* A plan written back from a snapshot is well typed.
LEMMA SaveStepType ==
  ASSUME TypeOK, NEW d \in Txs, NEW x \in Step, SaveStep(d, x)
  PROVE  plan' \in Plan
<1>1. tx[d].plan \in Plan
  BY DEF TypeOK, Tx
<1>2. [tx[d].plan EXCEPT ![tx[d].of] = x] \in Plan
  BY <1>1 DEF Plan
<1>3. QED
  BY <1>2 DEF SaveStep, Saved, TypeOK, Plan

\* ... and so is one written back with a move to email.
LEMMA SaveMovedType ==
  ASSUME TypeOK, NEW d \in Txs, SaveMoved(d)
  PROVE  plan' \in Plan
<1>1. tx[d].plan \in Plan
  BY DEF TypeOK, Tx
<1>2. QED
  BY <1>1 DEF SaveMoved, Saved, TypeOK, Plan

\* A gate records a verdict on the transaction, and at most moves its touch.
LEMMA DraftJudged ==
  ASSUME TypeOK, Wellformed, NEW d \in Txs, GateDraft(d)
  PROVE  Judges(d)
<1>1. PICK room \in BOOLEAN, ask \in BOOLEAN, mail \in BOOLEAN :
        tx' = [tx EXCEPT ![d] = Judged(d, room, ask, mail)]
  BY DEF GateDraft, Judge
<1>2. tx[d] \in Tx /\ tx[d].kind = "draft" /\ ~Past(d) /\ tx[d].of \in Touches
  BY DEF TypeOK, Wellformed, GateDraft, Drafting
<1> DEFINE Clear(v) == v = "allow" => ~Barred(tx[d].camp) /\ (recent = {} \/ SameDay(d))
<1>3. ASSUME NEW v \in Verdicts, Clear(v)
      PROVE  /\ [tx[d] EXCEPT !.verdict = v] \in Answers(d)
             /\ [tx[d] EXCEPT !.verdict = v, !.plan[tx[d].of].ch = "email", !.moved = TRUE]
                  \in Answers(d)
  <2>1. [tx[d] EXCEPT !.verdict = v] \in Answers(d)
    BY <1>2, <1>3 DEF Tx, Verdicts, Answers
  <2>2. /\ [tx[d].plan EXCEPT ![tx[d].of].ch = "email"] \in Plan
        /\ \A t \in Touches :
             [tx[d].plan EXCEPT ![tx[d].of].ch = "email"][t].st = tx[d].plan[t].st
    BY <1>2 DEF Tx, Plan, Step, Channels
  <2>3. [tx[d] EXCEPT !.verdict = v, !.plan[tx[d].of].ch = "email", !.moved = TRUE] \in Answers(d)
    BY <1>2, <1>3, <2>2 DEF Tx, Verdicts, Answers
  <2>4. QED
    BY <2>1, <2>3
<1>4. "skip" \in Verdicts /\ Clear("skip")
  BY DEF Verdicts
<1>5. SameDay(d) \in BOOLEAN
  BY DEF SameDay
<1>6. ASSUME NEW ch
      PROVE  /\ Verdict(tx[d].camp, ch, SameDay(d), room, ask) \in Verdicts
             /\ Clear(Verdict(tx[d].camp, ch, SameDay(d), room, ask))
  BY <1>5, VerdictType
<1>7. Judged(d, room, ask, mail) \in Answers(d)
  <2> HIDE DEF Clear
  <2>1. QED
    BY <1>3, <1>4, <1>6 DEF Judged
<1>8. QED
  BY <1>1, <1>2, <1>7 DEF Judges, GateDraft

\* The gate of an approval likewise.
LEMMA ApprovalJudged ==
  ASSUME TypeOK, Wellformed, NEW d \in Txs, GateApproval(d)
  PROVE  Judges(d)
<1>1. PICK room \in BOOLEAN :
        tx' = [tx EXCEPT ![d].verdict =
                 Verdict(tx[d].camp, item[tx[d].item].ch, FALSE, room, FALSE)]
  BY DEF GateApproval
<1>2. tx[d] \in Tx /\ tx[d].kind = "approve" /\ ~Past(d) /\ QuotaFree(d)
  BY DEF GateApproval, TypeOK
<1> DEFINE v == Verdict(tx[d].camp, item[tx[d].item].ch, FALSE, room, FALSE)
<1>3. v \in Verdicts /\ (v = "allow" => ~Barred(tx[d].camp) /\ recent = {})
  <2>1. FALSE \in BOOLEAN
    OBVIOUS
  <2>2. QED
    BY <2>1, VerdictType
<1>4. tx' = [tx EXCEPT ![d] = [tx[d] EXCEPT !.verdict = v]]
  BY <1>1
<1> HIDE DEF v
<1>5. [tx[d] EXCEPT !.verdict = v] \in Answers(d)
  BY <1>2, <1>3 DEF Answers, Tx, Verdicts
<1>6. QED
  BY <1>2, <1>4, <1>5 DEF Judges

\* Every step changes the transactions in one of these ways.
LEMMA TxStep ==
  ASSUME TypeOK, Wellformed, [Next]_vars
  PROVE  \/ tx' = tx
         \/ \E d \in Txs : EndTx(d) \/ Judges(d)
         \/ \E d \in Txs, t \in Touches, k \in {"draft", "drop"} :
              Opens(d, k, CampOf[t], t, None)
         \/ \E d \in Txs, i \in Items :
              Open(i) /\ RowFree(i) /\ Opens(d, "approve", CampOf[item[i].of], item[i].of, i)
         \/ \E d \in Txs, c \in Campaigns, k \in {"scan", "look"} : Opens(d, k, c, None, None)
<1>1. CASE UNCHANGED vars
  BY <1>1 DEF vars
<1>2. ASSUME NEW d \in Txs, NEW t \in Touches, ReadDraft(d, t)
      PROVE  \E k \in {"draft", "drop"} : Opens(d, k, CampOf[t], t, None)
  BY <1>2 DEF ReadDraft, Opens
<1>3. ASSUME NEW d \in Txs, GateDraft(d) PROVE Judges(d)
  BY <1>3, DraftJudged
<1>4. ASSUME NEW d \in Txs, GateApproval(d) PROVE Judges(d)
  BY <1>4, ApprovalJudged
<1>5. ASSUME NEW d \in Txs,
             \/ DropDraft(d) \/ LackKnowledge(d) \/ HoldDraft(d) \/ BlockDraft(d)
             \/ DeferDraft(d) \/ AskDraft(d) \/ SendDraft(d) \/ DuplicateDraft(d) \/ FailDraft(d)
             \/ KeepApproval(d) \/ SendApproval(d) \/ CommitScan(d) \/ Exhaust(d) \/ LeaveScan(d)
      PROVE  EndTx(d)
  BY <1>5 DEF DropDraft, LackKnowledge, HoldDraft, BlockDraft, DeferDraft, AskDraft, SendDraft,
              DuplicateDraft, FailDraft, KeepApproval, SendApproval, CommitScan, Exhaust, LeaveScan
<1>6. ASSUME NEW d \in Txs, NEW i \in Items, ReadApproval(d, i)
      PROVE  Open(i) /\ RowFree(i) /\ Opens(d, "approve", CampOf[item[i].of], item[i].of, i)
  BY <1>6 DEF ReadApproval, Opens
<1>7. ASSUME NEW d \in Txs, NEW c \in Campaigns, ReadScan(d, c)
      PROVE  \E k \in {"scan", "look"} : Opens(d, k, c, None, None)
  BY <1>7 DEF ReadScan, Opens
<1>8. ASSUME NEW c \in Campaigns,
             \/ OutreachSend(c) \/ Qualify(c) \/ TurnAway(c) \/ PlanJob(c)
             \/ GiveClaim(c) \/ StopProspect(c) \/ Reply(c)
      PROVE  tx' = tx
  BY <1>8 DEF OutreachSend, Qualify, TurnAway, PlanJob, GiveClaim, StopProspect, Reply
<1>9. ASSUME \/ \E i \in Items : RejectItem(i)
             \/ Unsubscribe \/ Hold \/ ToggleLinkedin \/ WindowPasses
      PROVE  tx' = tx
  BY <1>9 DEF RejectItem, Unsubscribe, Hold, ToggleLinkedin, WindowPasses
<1>10. CASE Next
  BY <1>10, StepCases, <1>2, <1>3, <1>4, <1>5, <1>6, <1>7, <1>8, <1>9, Zenon
<1>11. QED
  BY <1>1, <1>10

\* Approvals change only by being asked for and decided.
LEMMA ItemStep ==
  ASSUME [Next]_vars
  PROVE  \/ item' = item
         \/ \E d \in Txs : AskDraft(d) \/ SendApproval(d)
         \/ \E i \in Items : RejectItem(i)
<1>1. CASE UNCHANGED vars
  BY <1>1 DEF vars, rows
<1>2. ASSUME NEW d \in Txs,
             \/ \E t \in Touches : ReadDraft(d, t)
             \/ DropDraft(d) \/ GateDraft(d) \/ LackKnowledge(d) \/ HoldDraft(d)
             \/ BlockDraft(d) \/ DeferDraft(d) \/ SendDraft(d) \/ DuplicateDraft(d) \/ FailDraft(d)
             \/ \E i \in Items : ReadApproval(d, i)
             \/ GateApproval(d) \/ KeepApproval(d)
             \/ \E c \in Campaigns : ReadScan(d, c)
             \/ CommitScan(d) \/ Exhaust(d) \/ LeaveScan(d)
      PROVE  item' = item
  BY <1>2 DEF ReadDraft, DropDraft, GateDraft, Judge, LackKnowledge, HoldDraft, BlockDraft,
              DeferDraft, SendDraft, DuplicateDraft, FailDraft, ReadApproval, GateApproval,
              KeepApproval, ReadScan, CommitScan, Exhaust, LeaveScan, rows
<1>3. ASSUME NEW c \in Campaigns,
             \/ OutreachSend(c) \/ Qualify(c) \/ TurnAway(c) \/ PlanJob(c)
             \/ GiveClaim(c) \/ StopProspect(c) \/ Reply(c)
      PROVE  item' = item
  BY <1>3 DEF OutreachSend, Qualify, TurnAway, PlanJob, GiveClaim, StopProspect, Reply
<1>4. ASSUME Unsubscribe \/ Hold \/ ToggleLinkedin \/ WindowPasses
      PROVE  item' = item
  BY <1>4 DEF Unsubscribe, Hold, ToggleLinkedin, WindowPasses, rows
<1>5. CASE Next
  BY <1>5, StepCases, <1>2, <1>3, <1>4, Zenon
<1>6. QED
  BY <1>1, <1>5

\* Only a send changes what was sent.
LEMMA SendStep ==
  ASSUME [Next]_vars
  PROVE  \/ NoneSent
         \/ WindowPasses
         \/ UNCHANGED vars
         \/ \E d \in Txs : SendDraft(d) \/ SendApproval(d)
<1>1. ASSUME NEW d \in Txs,
             \/ \E t \in Touches : ReadDraft(d, t)
             \/ DropDraft(d) \/ GateDraft(d) \/ LackKnowledge(d) \/ HoldDraft(d)
             \/ BlockDraft(d) \/ DeferDraft(d) \/ AskDraft(d) \/ DuplicateDraft(d) \/ FailDraft(d)
             \/ \E i \in Items : ReadApproval(d, i)
             \/ GateApproval(d) \/ KeepApproval(d)
             \/ \E c \in Campaigns : ReadScan(d, c)
             \/ CommitScan(d) \/ Exhaust(d) \/ LeaveScan(d)
      PROVE  NoneSent
  BY <1>1 DEF ReadDraft, DropDraft, GateDraft, Judge, LackKnowledge, HoldDraft, BlockDraft,
              DeferDraft, AskDraft, DuplicateDraft, FailDraft, ReadApproval, GateApproval,
              KeepApproval, ReadScan, CommitScan, Exhaust, LeaveScan
<1>2. ASSUME NEW c \in Campaigns,
             \/ OutreachSend(c) \/ Qualify(c) \/ TurnAway(c) \/ PlanJob(c)
             \/ GiveClaim(c) \/ StopProspect(c) \/ Reply(c)
      PROVE  NoneSent
  BY <1>2 DEF OutreachSend, Qualify, TurnAway, PlanJob, GiveClaim, StopProspect, Reply
<1>3. ASSUME (\E i \in Items : RejectItem(i)) \/ Unsubscribe \/ Hold \/ ToggleLinkedin
      PROVE  NoneSent
  BY <1>3 DEF RejectItem, Unsubscribe, Hold, ToggleLinkedin
<1>4. CASE Next
  BY <1>4, StepCases, <1>1, <1>2, <1>3, Zenon
<1>5. QED
  BY <1>4

\* The transactions stay well typed.
LEMMA TxTyped ==
  ASSUME TypeOK, Wellformed, [Next]_vars
  PROVE  tx' \in [Txs -> Tx]
<1>1. CASE tx' = tx
  BY <1>1 DEF TypeOK
<1>2. ASSUME NEW d \in Txs, Judges(d) PROVE tx' \in [Txs -> Tx]
  BY <1>2 DEF Judges, Answers, TypeOK
<1>3. ASSUME NEW d \in Txs, NEW i \in Items, Open(i),
             Opens(d, "approve", CampOf[item[i].of], item[i].of, i)
      PROVE  tx' \in [Txs -> Tx]
  <2>1. item[i].of \in Touches /\ CampOf[item[i].of] \in Campaigns
    BY <1>3, OutreachAssumption DEF Open, Wellformed
  <2>2. QED
    BY <1>3, <2>1, OpenTxType DEF Opens
<1>4. ASSUME NEW d \in Txs, NEW t \in Touches, NEW k \in {"draft", "drop"},
             Opens(d, k, CampOf[t], t, None)
      PROVE  tx' \in [Txs -> Tx]
  BY <1>4, OpenTxType, OutreachAssumption DEF Opens
<1>5. ASSUME NEW d \in Txs, NEW c \in Campaigns, NEW k \in {"scan", "look"},
             Opens(d, k, c, None, None)
      PROVE  tx' \in [Txs -> Tx]
  BY <1>5, OpenTxType DEF Opens
<1>6. QED
  BY <1>1, <1>2, <1>3, <1>4, <1>5, TxStep, EndTxType

\* A send and its absence keep the counters typed.
LEMMA CountersTyped ==
  ASSUME TypeOK, Wellformed, [Next]_vars
  PROVE  /\ recent' \subseteq [camp : Campaigns, how : {"draft", "approve"}]
         /\ keys' \subseteq Touches \X Channels
         /\ sent' \in [Touches -> Nat]
         /\ decided' \in [Items -> Nat]
         /\ late' \in [Campaigns -> Nat]
<1> DEFINE Goal == /\ recent' \subseteq [camp : Campaigns, how : {"draft", "approve"}]
                   /\ keys' \subseteq Touches \X Channels
                   /\ sent' \in [Touches -> Nat]
                   /\ decided' \in [Items -> Nat]
                   /\ late' \in [Campaigns -> Nat]
<1>1. ASSUME NEW c PROVE LateAfter(c) \in [Campaigns -> Nat]
  BY DEF LateAfter, TypeOK
<1>2. CASE NoneSent
  BY <1>1, <1>2 DEF NoneSent, ledger, TypeOK
<1>3. CASE WindowPasses
  BY <1>1, <1>3 DEF WindowPasses, ledger, TypeOK
<1>4. CASE UNCHANGED vars
  BY <1>4 DEF vars, world, ledger, TypeOK
<1>5. ASSUME NEW d \in Txs, tx[d].kind \in {"draft", "approve"}, Sent(d)
      PROVE  /\ recent' \subseteq [camp : Campaigns, how : {"draft", "approve"}]
             /\ sent' \in [Touches -> Nat]
             /\ late' \in [Campaigns -> Nat]
  <2>1. tx[d].of \in Touches /\ tx[d].camp \in Campaigns
    BY <1>5 DEF Wellformed
  <2>2. QED
    BY <1>1, <1>5, <2>1 DEF Sent, TypeOK
<1>6. ASSUME NEW d \in Txs, SendDraft(d) PROVE Goal
  <2>1. tx[d].kind = "draft"
    BY <1>6 DEF SendDraft, At
  <2>2. Key(d) \in Touches \X Channels
    BY <2>1, StepType DEF Key, Step, Wellformed
  <2>3. keys' \subseteq Touches \X Channels /\ decided' \in [Items -> Nat] /\ Sent(d)
    BY <1>6, <2>2 DEF SendDraft, TypeOK
  <2>4. QED
    BY <1>5, <2>1, <2>3
<1>7. ASSUME NEW d \in Txs, SendApproval(d) PROVE Goal
  <2>1. tx[d].kind = "approve" /\ tx[d].item \in Items
    BY <1>7 DEF SendApproval, Wellformed
  <2>2. keys' \subseteq Touches \X Channels /\ decided' \in [Items -> Nat] /\ Sent(d)
    BY <1>7, <2>1 DEF SendApproval, TypeOK
  <2>3. QED
    BY <1>5, <2>1, <2>2
<1>8. QED
  BY <1>2, <1>3, <1>4, <1>6, <1>7, SendStep

\* What the handlers make of the rows is well typed.
LEMMA RowsTyped ==
  ASSUME TypeOK
  PROVE  /\ \A S : Queued(S) \in [Touches -> Nat]
         /\ \A C : Dropped(C) \in [Touches -> Nat]
         /\ \A C : Cancelled(C) \in Plan
         /\ \A d : Contacted(d) => state' \in [Campaigns -> States]
<1>1. \A S : Queued(S) \in [Touches -> Nat]
  BY DEF Queued, TypeOK
<1>2. \A C : Dropped(C) \in [Touches -> Nat]
  BY DEF Dropped, TypeOK
<1>3. \A C : Cancelled(C) \in Plan
  BY DEF Cancelled, TypeOK, Plan, Step, Steps
<1>4. \A d : Contacted(d) => state' \in [Campaigns -> States]
  BY DEF Contacted, TypeOK, States
<1>5. QED
  BY <1>1, <1>2, <1>3, <1>4

\* A released claim leaves the rows well typed.
LEMMA ReleaseTyped ==
  ASSUME TypeOK, NEW c \in Campaigns, NEW s \in [Campaigns -> States], Release(c, s)
  PROVE  claim' \in Campaigns \cup {None} /\ state' \in [Campaigns -> States]
         /\ planning' \subseteq Campaigns
<1>1. claim' \in Campaigns \cup {None}
  BY DEF Release, Released, TypeOK
<1>2. CASE state' = s /\ UNCHANGED planning
  BY <1>1, <1>2 DEF TypeOK
<1>3. ASSUME NEW x \in Wakes(c), state' = [s EXCEPT ![x] = "qualified"],
             planning' = planning \cup {x}
      PROVE  state' \in [Campaigns -> States] /\ planning' \subseteq Campaigns
  <2>1. x \in Campaigns
    BY DEF Wakes
  <2>2. QED
    BY <1>3, <2>1 DEF TypeOK, States
<1>4. QED
  BY <1>1, <1>2, <1>3 DEF Release

\* The rows and switches of a well typed state.
RowsOK ==
  /\ plan \in Plan
  /\ state \in [Campaigns -> States]
  /\ planning \subseteq Campaigns
  /\ jobs \in [Touches -> Nat]
  /\ item \in [Items -> Item]
  /\ claim \in Campaigns \cup {None}
  /\ suppressed \in BOOLEAN
  /\ held \subseteq Campaigns
  /\ linkedin \in BOOLEAN
  /\ budget \in 0..Budget

\* An event from outside takes one from the budget.
LEMMA EventTyped ==
  ASSUME TypeOK, Event
  PROVE  budget' \in 0..Budget
BY OutreachAssumption DEF Event, TypeOK

\* The rows after a step of a draft.
LEMMA DraftRows ==
  ASSUME TypeOK, Wellformed, NEW d \in Txs, DraftStep(d)
  PROVE  RowsOK'
<1> USE DEF TypeOK, RowsOK
<1>1. ASSUME NEW t \in Touches, ReadDraft(d, t) PROVE RowsOK'
  BY <1>1 DEF ReadDraft
<1>2. CASE DropDraft(d)
  BY <1>2, SaveStepType, StepType DEF DropDraft
<1>3. CASE GateDraft(d)
  BY <1>3 DEF GateDraft, Judge, rows
<1>4. CASE LackKnowledge(d)
  BY <1>4 DEF LackKnowledge, rows
<1>5. CASE HoldDraft(d)
  BY <1>5, SaveMovedType, RowsTyped DEF HoldDraft
<1>6. CASE BlockDraft(d)
  <2>1. plan' \in Plan
    BY <1>6, SaveStepType, StepType DEF BlockDraft, At
  <2>2. QED
    BY <1>6, <2>1 DEF BlockDraft
<1>7. CASE DeferDraft(d)
  <2>1. plan' \in Plan
    BY <1>7, SaveStepType, StepType DEF DeferDraft, At
  <2>2. QED
    BY <1>7, <2>1, RowsTyped DEF DeferDraft
<1>8. CASE AskDraft(d)
  <2>1. tx[d].kind = "draft" /\ tx[d].of \in Touches
    BY <1>8 DEF AskDraft, At, Wellformed
  <2>2. StepOf(d).ch \in Channels
    BY <2>1, StepType DEF Step
  <2>3. item' \in [Items -> Item]
    BY <1>8, <2>1, <2>2 DEF AskDraft, Item
  <2>4. state' \in [Campaigns -> States]
    BY <1>8 DEF AskDraft, States
  <2>5. QED
    BY <1>8, <2>3, <2>4, SaveMovedType DEF AskDraft
<1>9. CASE SendDraft(d)
  <2>1. plan' \in Plan
    BY <1>9, SaveStepType, StepType DEF SendDraft, At
  <2>2. QED
    BY <1>9, <2>1, RowsTyped DEF SendDraft
<1>10. CASE DuplicateDraft(d)
  BY <1>10, SaveMovedType DEF DuplicateDraft
<1>11. CASE FailDraft(d)
  BY <1>11, RowsTyped, EventTyped DEF FailDraft
<1>12. QED
  BY <1>1, <1>2, <1>3, <1>4, <1>5, <1>6, <1>7, <1>8, <1>9, <1>10, <1>11 DEF DraftStep

\* The rows after a step of an approval or of a scan.
LEMMA ApproveScanRows ==
  ASSUME TypeOK, Wellformed, NEW d \in Txs, ApproveStep(d) \/ ScanStep(d)
  PROVE  RowsOK'
<1> USE DEF TypeOK, RowsOK
<1>1. ASSUME \/ \E i \in Items : ReadApproval(d, i)
             \/ GateApproval(d) \/ KeepApproval(d)
             \/ \E c \in Campaigns : ReadScan(d, c)
             \/ LeaveScan(d)
      PROVE  RowsOK'
  BY <1>1 DEF ReadApproval, GateApproval, KeepApproval, ReadScan, LeaveScan, rows
<1>2. CASE SendApproval(d)
  <2>1. plan' \in Plan
    BY <1>2, SaveStepType, StepType DEF SendApproval
  <2>2. item' \in [Items -> Item]
    BY <1>2 DEF SendApproval, Item
  <2>3. QED
    BY <1>2, <2>1, <2>2, RowsTyped DEF SendApproval
<1>3. CASE CommitScan(d)
  <2>1. PICK S \in SUBSET Waiting(tx[d].plan, tx[d].camp) :
          /\ plan' = Saved(tx[d].camp, [t \in Touches |-> [tx[d].plan[t] EXCEPT !.q = @ \/ t \in S]])
          /\ jobs' = Queued(S)
    BY <1>3 DEF CommitScan
  <2>2. tx[d].plan \in Plan
    BY DEF Tx
  <2>3. plan' \in Plan
    BY <2>1, <2>2 DEF Saved, Plan, Step
  <2>4. QED
    BY <1>3, <2>1, <2>3, RowsTyped DEF CommitScan
<1>4. CASE Exhaust(d)
  <2>1. tx[d].plan \in Plan /\ tx[d].camp \in Campaigns
    BY <1>4 DEF Tx, Exhaust, Wellformed
  <2>2. plan' \in Plan
    BY <1>4, <2>1 DEF Exhaust, Saved, Plan, Step, Steps
  <2>3. [state EXCEPT ![tx[d].camp] = "stopped"] \in [Campaigns -> States]
    BY DEF States
  <2>4. Release(tx[d].camp, [state EXCEPT ![tx[d].camp] = "stopped"])
    BY <1>4 DEF Exhaust
  <2>5. claim' \in Campaigns \cup {None} /\ state' \in [Campaigns -> States]
        /\ planning' \subseteq Campaigns
    BY <2>1, <2>3, <2>4, ReleaseTyped
  <2>6. QED
    BY <1>4, <2>2, <2>5 DEF Exhaust
<1>5. QED
  BY <1>1, <1>2, <1>3, <1>4 DEF ApproveStep, ScanStep

\* The rows after a step of a campaign.
LEMMA CampaignRows ==
  ASSUME TypeOK, NEW c \in Campaigns, CampaignStep(c)
  PROVE  RowsOK'
<1> USE DEF TypeOK, RowsOK
<1>1. CASE OutreachSend(c)
  <2>1. PICK t \in OfCamp(c) : plan' = [plan EXCEPT ![t].q = TRUE] /\ jobs' = Queued({t})
    BY <1>1 DEF OutreachSend
  <2>2. plan' \in Plan
    BY <2>1 DEF Plan, Step
  <2>3. QED
    BY <1>1, <2>1, <2>2, RowsTyped, EventTyped DEF OutreachSend
<1>2. CASE Qualify(c)
  BY <1>2, RowsTyped DEF Qualify, States
<1>3. CASE TurnAway(c)
  BY <1>3 DEF TurnAway, States
<1>4. CASE PlanJob(c)
  <2>1. PICK S \in SUBSET OfCamp(c) :
          /\ plan' = [t \in Touches |->
               IF CampOf[t] # c THEN plan[t]
               ELSE [st |-> "pending", q |-> t \in S,
                     ch |-> IF linkedin THEN Planned[t] ELSE "email"]]
          /\ jobs' = Queued(S)
    BY <1>4 DEF PlanJob
  <2>2. plan' \in Plan
    BY <2>1, OutreachAssumption DEF Plan, Step, Steps, Channels
  <2>3. QED
    BY <1>4, <2>1, <2>2, RowsTyped DEF PlanJob
<1>5. CASE GiveClaim(c)
  <2>1. state' \in [Campaigns -> States]
    BY <1>5 DEF GiveClaim, States
  <2>2. planning' \subseteq Campaigns
    BY <1>5 DEF GiveClaim
  <2>3. QED
    BY <1>5, <2>1, <2>2, RowsTyped, EventTyped DEF GiveClaim, EndSequences
<1>6. ASSUME NEW s \in States, Release(c, [state EXCEPT ![c] = s])
      PROVE  claim' \in Campaigns \cup {None} /\ state' \in [Campaigns -> States]
             /\ planning' \subseteq Campaigns
  <2>1. [state EXCEPT ![c] = s] \in [Campaigns -> States]
    OBVIOUS
  <2>2. QED
    BY <1>6, <2>1, ReleaseTyped
<1>7. "stopped" \in States /\ "replied" \in States
  BY DEF States
<1>8. CASE StopProspect(c)
  BY <1>6, <1>7, <1>8, RowsTyped, EventTyped DEF StopProspect, EndSequences
<1>9. CASE Reply(c)
  <2>1. claim' \in Campaigns \cup {None} /\ state' \in [Campaigns -> States]
        /\ planning' \subseteq Campaigns
    BY <1>6, <1>7, <1>9 DEF Reply
  <2>2. QED
    BY <1>9, <2>1, RowsTyped, EventTyped DEF Reply, EndSequences
<1>10. QED
  BY <1>1, <1>2, <1>3, <1>4, <1>5, <1>8, <1>9 DEF CampaignStep

\* The rows after an event from outside.
LEMMA OutsideRows ==
  ASSUME TypeOK, Wellformed,
         (\E i \in Items : RejectItem(i)) \/ Unsubscribe \/ Hold \/ ToggleLinkedin \/ WindowPasses
  PROVE  RowsOK'
<1> USE DEF TypeOK, RowsOK
<1>1. ASSUME NEW i \in Items, RejectItem(i) PROVE RowsOK'
  <2>1. CampOf[item[i].of] \in Campaigns
    BY <1>1, OutreachAssumption DEF RejectItem, Wellformed
  <2>2. [state EXCEPT ![CampOf[item[i].of]] = "stopped"] \in [Campaigns -> States]
    BY DEF States
  <2>3. Release(CampOf[item[i].of], [state EXCEPT ![CampOf[item[i].of]] = "stopped"])
    BY <1>1 DEF RejectItem
  <2>4. claim' \in Campaigns \cup {None} /\ state' \in [Campaigns -> States]
        /\ planning' \subseteq Campaigns
    BY <2>1, <2>2, <2>3, ReleaseTyped
  <2>5. item' \in [Items -> Item]
    BY <1>1 DEF RejectItem, Item
  <2>6. QED
    BY <1>1, <2>4, <2>5, RowsTyped, EventTyped DEF RejectItem, EndSequences
<1>2. CASE Unsubscribe
  BY <1>2, RowsTyped, EventTyped DEF Unsubscribe, EndSequences, States
<1>3. CASE Hold
  BY <1>3, EventTyped DEF Hold, rows
<1>4. CASE ToggleLinkedin
  <2>1. plan' \in Plan
    BY <1>4 DEF ToggleLinkedin, Plan, Step, Channels
  <2>2. QED
    BY <1>4, <2>1, EventTyped DEF ToggleLinkedin
<1>5. CASE WindowPasses
  BY <1>5 DEF WindowPasses, rows
<1>6. QED
  BY <1>1, <1>2, <1>3, <1>4, <1>5

\* Every step keeps the types.
LEMMA TypePreserved ==
  ASSUME TypeOK, Wellformed, [Next]_vars
  PROVE  TypeOK'
<1>1. CASE UNCHANGED vars
  BY <1>1 DEF vars, rows, world, ledger, TypeOK
<1>2. ASSUME Next PROVE RowsOK'
  BY <1>2, DraftRows, ApproveScanRows, CampaignRows, OutsideRows DEF Next
<1>3. CASE Next
  BY <1>2, <1>3, TxTyped, CountersTyped DEF TypeOK, RowsOK
<1>4. QED
  BY <1>1, <1>3

\* The transactions and the approvals stay well formed.
LEMMA WellformedPreserved ==
  ASSUME TypeOK, Wellformed, [Next]_vars
  PROVE  Wellformed'
<1> DEFINE Fits(r) ==
      /\ r.kind # "idle" => r.camp \in Campaigns
      /\ r.kind \in {"draft", "drop", "approve"} => r.of \in Touches /\ r.camp = CampOf[r.of]
      /\ r.kind = "approve" => r.item \in Items /\ item'[r.item].st # "free"
<1> DEFINE Used ==
      \A i \in Items :
        /\ item[i].st # "free" => item'[i].st # "free"
        /\ item'[i].st # "free" => item'[i].of \in Touches
<1>1. Used
  <2>1. CASE item' = item
    BY <2>1 DEF Wellformed
  <2>2. ASSUME NEW d \in Txs, AskDraft(d)
        PROVE  Used
    <3>1. tx[d].of \in Touches
      BY <2>2 DEF AskDraft, At, Wellformed
    <3>2. QED
      BY <2>2, <3>1 DEF AskDraft, Wellformed, TypeOK
  <2>3. ASSUME NEW d \in Txs, SendApproval(d)
        PROVE  Used
    <3>1. tx[d].item \in Items /\ item[tx[d].item].st # "free"
      BY <2>3 DEF SendApproval, Wellformed
    <3>2. QED
      BY <2>3, <3>1 DEF SendApproval, Wellformed, TypeOK, Item
  <2>4. ASSUME NEW j \in Items, RejectItem(j)
        PROVE  Used
    BY <2>4 DEF RejectItem, Wellformed, TypeOK, Item
  <2>5. QED
    BY <2>1, <2>2, <2>3, <2>4, ItemStep
<1>2. \A d \in Txs : Fits(tx[d])
  BY <1>1 DEF Wellformed
<1>3. ASSUME NEW d \in Txs, NEW r, Fits(r), tx' = [tx EXCEPT ![d] = r]
      PROVE  \A x \in Txs : Fits(tx'[x])
  <2> HIDE DEF Fits
  <2>1. QED
    BY <1>2, <1>3 DEF TypeOK
<1>4. \A x \in Txs : Fits(tx'[x])
  <2>1. CASE tx' = tx
    BY <1>2, <2>1
  <2>2. ASSUME NEW d \in Txs, EndTx(d) PROVE \A x \in Txs : Fits(tx'[x])
    <3>1. Fits(IdleTx)
      BY DEF IdleTx
    <3>2. QED
      BY <1>3, <2>2, <3>1 DEF EndTx
  <2>3. ASSUME NEW d \in Txs, Judges(d) PROVE \A x \in Txs : Fits(tx'[x])
    <3>1. PICK r \in Answers(d) : tx' = [tx EXCEPT ![d] = r]
      BY <2>3 DEF Judges
    <3>2. Fits(r)
      BY <1>2 DEF Answers
    <3>3. QED
      BY <1>3, <3>1, <3>2
  <2>4. ASSUME NEW d \in Txs, NEW k, NEW c \in Campaigns, NEW t, NEW i, OpenTx(d, k, c, t, i),
               k \in {"draft", "drop", "approve"} => t \in Touches /\ c = CampOf[t],
               k = "approve" => i \in Items /\ item'[i].st # "free"
        PROVE  \A x \in Txs : Fits(tx'[x])
    <3> DEFINE r == [kind |-> k, camp |-> c, of |-> t, item |-> i,
          plan |-> [u \in Touches |-> IF CampOf[u] = c THEN plan[u] ELSE NoPlan[u]],
          st |-> state[c], moved |-> FALSE, verdict |-> "none"]
    <3>1. Fits(r)
      BY <2>4
    <3>2. tx' = [tx EXCEPT ![d] = r]
      BY <2>4 DEF OpenTx
    <3> HIDE DEF r, Fits
    <3>3. QED
      BY <1>3, <3>1, <3>2
  <2>5. ASSUME NEW d \in Txs, NEW t \in Touches, NEW k \in {"draft", "drop"},
               Opens(d, k, CampOf[t], t, None)
        PROVE  \A x \in Txs : Fits(tx'[x])
    <3>1. CampOf[t] \in Campaigns
      BY OutreachAssumption
    <3>2. QED
      BY <2>4, <2>5, <3>1 DEF Opens
  <2>6. ASSUME NEW d \in Txs, NEW i \in Items, Open(i),
               Opens(d, "approve", CampOf[item[i].of], item[i].of, i)
        PROVE  \A x \in Txs : Fits(tx'[x])
    <3>1. item[i].of \in Touches /\ CampOf[item[i].of] \in Campaigns /\ item'[i].st # "free"
      BY <1>1, <2>6, OutreachAssumption DEF Open, Wellformed
    <3>2. QED
      BY <2>4, <2>6, <3>1 DEF Opens
  <2>7. ASSUME NEW d \in Txs, NEW c \in Campaigns, NEW k \in {"scan", "look"},
               Opens(d, k, c, None, None)
        PROVE  \A x \in Txs : Fits(tx'[x])
    BY <2>4, <2>7 DEF Opens
  <2>8. QED
    <3> HIDE DEF Fits
    <3>1. QED
      BY <2>1, <2>2, <2>3, <2>5, <2>6, <2>7, TxStep
<1>5. QED
  BY <1>1, <1>4 DEF Wellformed

\* The initial state is well typed and well formed.
LEMMA InitTyped == Init => TypeOK /\ Wellformed
<1> SUFFICES ASSUME Init PROVE TypeOK /\ Wellformed
  OBVIOUS
<1>1. NoPlan \in Plan
  BY DEF NoPlan, Plan, Step, Steps, Channels
<1>2. IdleTx \in Tx /\ FreeItem \in Item
  BY <1>1 DEF IdleTx, Tx, States, FreeItem, Item, Channels
<1>3. plan \in Plan /\ item \in [Items -> Item] /\ tx \in [Txs -> Tx]
  BY <1>1, <1>2 DEF Init
<1>4. /\ state \in [Campaigns -> States] /\ planning \subseteq Campaigns
      /\ jobs \in [Touches -> Nat] /\ claim \in Campaigns \cup {None}
      /\ suppressed \in BOOLEAN /\ held \subseteq Campaigns /\ linkedin \in BOOLEAN
  BY DEF Init, States
<1>5. /\ recent \subseteq [camp : Campaigns, how : {"draft", "approve"}]
      /\ keys \subseteq Touches \X Channels
      /\ sent \in [Touches -> Nat] /\ decided \in [Items -> Nat]
      /\ late \in [Campaigns -> Nat] /\ budget \in 0..Budget
  BY OutreachAssumption DEF Init
<1>6. TypeOK
  BY <1>3, <1>4, <1>5 DEF TypeOK
<1>7. Wellformed
  BY DEF Init, Wellformed, IdleTx, FreeItem
<1>8. QED
  BY <1>6, <1>7

\* Every reachable state is well typed: a handler names a touch, a campaign and
\* an approval only where it has one (handlers.py:170-375, replies.py:253-318).
THEOREM OutreachTypeCorrect == Spec => []TypeOK
<1>1. Init => TypeOK /\ Wellformed
  BY InitTyped
<1>2. TypeOK /\ Wellformed /\ [Next]_vars => TypeOK' /\ Wellformed'
  BY TypePreserved, WellformedPreserved
<1>3. QED
  BY <1>1, <1>2, PTL DEF Spec

-----------------------------------------------------------------------------
(* The locks.                                                              *)

\* Past the gate is a draft or an approval alone of its campaign and rep, and
\* of all drafts; and an open approval is held by one transaction at a time.
Locks ==
  /\ \A d \in Txs : Past(d) => tx[d].kind \in {"draft", "approve"}
  /\ \A d, x \in Txs : d # x /\ Past(d) /\ Past(x) =>
       ~SameQuota(tx[d].camp, tx[x].camp) /\ "approve" \in {tx[d].kind, tx[x].kind}
  /\ \A d \in Txs : tx[d].kind = "approve" => Open(tx[d].item)
  /\ \A d, x \in Txs : d # x /\ tx[d].kind = "approve" /\ tx[x].kind = "approve" =>
       tx[d].item # tx[x].item

\* An approval sends when it leaves the open status, and not before.
Once == \A i \in Items : decided[i] <= 1 /\ (item[i].st \in {"free", "open"} => decided[i] = 0)

\* Once a straggler has left, no transaction of its campaign may send.
Last == \A c \in Campaigns :
  /\ late[c] <= 1
  /\ late[c] = 1 => Barred(c) /\ \A d \in Txs : tx[d].camp = c => tx[d].verdict # "allow"

\* What an open transaction read as done was sent.
ReadDoneSent == \A d \in Txs, t \in Touches : tx[d].plan[t].st = "done" => sent[t] > 0

\* A transaction that may send found the window clear but for an exemption, and
\* since then nothing was sent that its locks exclude.
Cleared == \A d \in Txs : tx[d].verdict = "allow" =>
  \/ tx[d].kind = "draft" /\ SameDay(d)
  \/ \A m \in recent :
       ~SameQuota(m.camp, tx[d].camp) /\ "approve" \in {m.how, tx[d].kind}

\* An open approval stays open but for a rejection that found its row free, or
\* the approval that holds it.
LEMMA OpenKept ==
  ASSUME TypeOK, Wellformed, [Next]_vars, NEW i \in Items, Open(i)
  PROVE  \/ item'[i].st = "open"
         \/ RowFree(i) /\ tx' = tx
         \/ \E d \in Txs : SendApproval(d) /\ tx[d].item = i
<1>1. CASE item' = item
  BY <1>1 DEF Open
<1>2. ASSUME NEW d \in Txs, AskDraft(d) PROVE item'[i].st = "open"
  BY <1>2 DEF AskDraft, Open, TypeOK
<1>3. ASSUME NEW d \in Txs, SendApproval(d), tx[d].item # i PROVE item'[i].st = "open"
  BY <1>3 DEF SendApproval, Open, TypeOK
<1>4. ASSUME NEW j \in Items, RejectItem(j), j # i PROVE item'[i].st = "open"
  BY <1>4 DEF RejectItem, Open, TypeOK
<1>5. ASSUME RejectItem(i) PROVE RowFree(i) /\ tx' = tx
  BY <1>5 DEF RejectItem
<1>6. QED
  BY <1>1, <1>2, <1>3, <1>4, <1>5, ItemStep

\* The advisory locks: who passes the gate passes it alone.
LEMMA AdvisoryPreserved ==
  ASSUME TypeOK, Wellformed, Locks, [Next]_vars
  PROVE  /\ \A d \in Txs : Past(d)' => tx'[d].kind \in {"draft", "approve"}
         /\ \A d, x \in Txs : d # x /\ Past(d)' /\ Past(x)' =>
              ~SameQuota(tx'[d].camp, tx'[x].camp) /\ "approve" \in {tx'[d].kind, tx'[x].kind}
<1> DEFINE Alone ==
      /\ \A d \in Txs : Past(d)' => tx'[d].kind \in {"draft", "approve"}
      /\ \A d, x \in Txs : d # x /\ Past(d)' /\ Past(x)' =>
           ~SameQuota(tx'[d].camp, tx'[x].camp) /\ "approve" \in {tx'[d].kind, tx'[x].kind}
<1>1. CASE tx' = tx
  BY <1>1 DEF Locks, Past
<1>2. ASSUME NEW d \in Txs, NEW r, r.verdict = "none", tx' = [tx EXCEPT ![d] = r] PROVE Alone
  BY <1>2 DEF Locks, Past, TypeOK
<1>3. ASSUME NEW d \in Txs, EndTx(d) PROVE Alone
  <2>1. IdleTx.verdict = "none"
    BY DEF IdleTx
  <2>2. QED
    BY <1>2, <1>3, <2>1 DEF EndTx
<1>4. ASSUME NEW d \in Txs, NEW k, NEW c, NEW t, NEW i, OpenTx(d, k, c, t, i) PROVE Alone
  <2> DEFINE r == [kind |-> k, camp |-> c, of |-> t, item |-> i,
        plan |-> [u \in Touches |-> IF CampOf[u] = c THEN plan[u] ELSE NoPlan[u]],
        st |-> state[c], moved |-> FALSE, verdict |-> "none"]
  <2>1. r.verdict = "none"
    OBVIOUS
  <2>2. tx' = [tx EXCEPT ![d] = r]
    BY <1>4 DEF OpenTx
  <2> HIDE DEF r, Alone
  <2>3. QED
    BY <1>2, <2>1, <2>2
<1>5. ASSUME NEW d \in Txs, Judges(d) PROVE Alone
  <2>1. PICK r \in Answers(d) : tx' = [tx EXCEPT ![d] = r]
    BY <1>5 DEF Judges
  <2>2. r.kind = tx[d].kind /\ r.camp = tx[d].camp /\ tx[d].kind \in {"draft", "approve"}
    BY <1>5 DEF Judges, Answers
  <2>3. tx'[d] = r /\ \A x \in Txs \ {d} : tx'[x] = tx[x]
    BY <2>1 DEF TypeOK
  <2>4. \A x \in Txs \ {d} : Past(x) =>
          ~SameQuota(tx[x].camp, tx[d].camp) /\ "approve" \in {tx[d].kind, tx[x].kind}
    BY <1>5, <2>2 DEF Judges, QuotaFree, ProspectFree, Locks
  <2>5. \A c1, c2 : SameQuota(c1, c2) => SameQuota(c2, c1)
    BY DEF SameQuota
  <2>6. QED
    BY <2>2, <2>3, <2>4, <2>5 DEF Locks, Past
<1>6. QED
  BY <1>1, <1>3, <1>4, <1>5, TxStep DEF Opens

\* The row lock: an approval in progress is on an open row of its own.
LEMMA RowPreserved ==
  ASSUME TypeOK, Wellformed, Locks, [Next]_vars
  PROVE  /\ \A d \in Txs : tx'[d].kind = "approve" => Open(tx[d].item)'
         /\ \A d, x \in Txs : d # x /\ tx'[d].kind = "approve" /\ tx'[x].kind = "approve" =>
              tx'[d].item # tx'[x].item
<1> DEFINE Old(x) == tx[x].kind = "approve" /\ tx[x].item = tx'[x].item
           New(x) == /\ Open(tx'[x].item) /\ RowFree(tx'[x].item)
                     /\ \A y \in Txs \ {x} : tx'[y] = tx[y]
<1>1. ASSUME NEW x \in Txs, tx'[x].kind = "approve" PROVE Old(x) \/ New(x)
  <2>1. CASE tx' = tx
    BY <1>1, <2>1
  <2>2. ASSUME NEW d \in Txs, EndTx(d) PROVE Old(x)
    BY <1>1, <2>2 DEF EndTx, IdleTx, TypeOK
  <2>3. ASSUME NEW d \in Txs, Judges(d) PROVE Old(x)
    BY <1>1, <2>3 DEF Judges, Answers, TypeOK
  <2>4. ASSUME NEW d \in Txs, NEW k, NEW c, NEW t, NEW i, OpenTx(d, k, c, t, i),
               k = "approve" => Open(i) /\ RowFree(i)
        PROVE  Old(x) \/ New(x)
    <3>1. CASE x = d
      BY <1>1, <2>4, <3>1 DEF OpenTx, TypeOK
    <3>2. CASE x # d
      BY <1>1, <2>4, <3>2 DEF OpenTx, TypeOK
    <3>3. QED
      BY <3>1, <3>2
  <2>5. QED
    <3> HIDE DEF Old, New
    <3>1. QED
      BY <2>1, <2>2, <2>3, <2>4, TxStep DEF Opens
<1>2. ASSUME NEW x \in Txs, tx'[x].kind = "approve" PROVE Open(tx[x].item)'
  <2>1. Wellformed'
    BY WellformedPreserved
  <2>2. PICK i \in Items : i = tx'[x].item
    BY <1>2, <2>1 DEF Wellformed
  <2>3. Open(i)
    BY <1>1, <1>2, <2>2 DEF Locks
  <2>4. ~(RowFree(i) /\ tx' = tx)
    BY <1>2, <2>2 DEF RowFree
  <2>5. ASSUME NEW d \in Txs, SendApproval(d), tx[d].item = i PROVE FALSE
    <3>1. tx[d].kind = "approve" /\ tx'[d].kind # "approve"
      BY <2>5 DEF SendApproval, EndTx, IdleTx, TypeOK
    <3>2. x # d
      BY <1>2, <3>1
    <3>3. CASE Old(x)
      BY <2>2, <2>5, <3>1, <3>2, <3>3 DEF Locks
    <3>4. CASE New(x)
      BY <2>2, <2>5, <3>4 DEF RowFree
    <3>5. QED
      BY <1>1, <1>2, <3>3, <3>4
  <2>6. item'[i].st = "open"
    BY <2>3, <2>4, <2>5, OpenKept
  <2>7. QED
    BY <2>2, <2>6 DEF Open
<1>3. ASSUME NEW d \in Txs, NEW x \in Txs, d # x, tx'[d].kind = "approve", tx'[x].kind = "approve"
      PROVE  tx'[d].item # tx'[x].item
  <2>1. CASE New(d)
    BY <1>3, <2>1 DEF RowFree
  <2>2. CASE New(x)
    BY <1>3, <2>2 DEF RowFree
  <2>3. CASE Old(d) /\ Old(x)
    BY <1>3, <2>3 DEF Locks
  <2>4. QED
    BY <1>1, <1>3, <2>1, <2>2, <2>3
<1>4. QED
  BY <1>2, <1>3

\* Every step keeps the locks exclusive.
LEMMA LocksPreserved ==
  ASSUME TypeOK, Wellformed, Locks, [Next]_vars
  PROVE  Locks'
BY AdvisoryPreserved, RowPreserved DEF Locks

-----------------------------------------------------------------------------
(* What the locks are for.                                                 *)

\* An approval is decided from the open status, so it is decided once.
LEMMA OncePreserved ==
  ASSUME TypeOK, Wellformed, Locks, Once, [Next]_vars
  PROVE  Once'
<1>1. CASE NoneSent \/ WindowPasses \/ UNCHANGED vars
  <2>1. decided' = decided
    BY <1>1 DEF NoneSent, WindowPasses, ledger, vars
  <2>2. CASE item' = item
    BY <2>1, <2>2 DEF Once
  <2>3. ASSUME NEW d \in Txs, AskDraft(d) PROVE Once'
    BY <2>1, <2>3 DEF AskDraft, Once, TypeOK
  <2>4. ASSUME NEW d \in Txs, SendApproval(d) PROVE FALSE
    <3>1. tx[d].item \in Items
      BY <2>4 DEF SendApproval, Wellformed
    <3>2. QED
      BY <2>1, <2>4, <3>1 DEF SendApproval, TypeOK
  <2>5. ASSUME NEW i \in Items, RejectItem(i) PROVE Once'
    BY <2>1, <2>5 DEF RejectItem, Once, TypeOK, Item
  <2>6. QED
    BY <2>2, <2>3, <2>4, <2>5, ItemStep
<1>2. ASSUME NEW d \in Txs, SendDraft(d) PROVE Once'
  BY <1>2 DEF SendDraft, Once
<1>3. ASSUME NEW d \in Txs, SendApproval(d) PROVE Once'
  <2>1. tx[d].item \in Items /\ item[tx[d].item].st = "open"
    BY <1>3 DEF SendApproval, Wellformed, Locks, Open
  <2>2. decided[tx[d].item] = 0
    BY <2>1 DEF Once
  <2>3. QED
    BY <1>3, <2>1, <2>2 DEF SendApproval, Once, TypeOK, Item
<1>4. QED
  BY <1>1, <1>2, <1>3, SendStep

\* A transaction that may send could send before the step, unless its gate has
\* just answered and found its campaign not barred.
LEMMA MaySend ==
  ASSUME TypeOK, Wellformed, [Next]_vars, NEW x \in Txs, tx'[x].verdict = "allow"
  PROVE  \/ tx'[x] = tx[x]
         \/ /\ Judges(x) /\ ~Barred(tx[x].camp) /\ tx'[x].camp = tx[x].camp
            /\ tx'[x].kind = tx[x].kind /\ tx'[x].of = tx[x].of
            /\ \A t \in Touches : tx'[x].plan[t].st = tx[x].plan[t].st
            /\ recent = {} \/ (tx[x].kind = "draft" /\ SameDay(x))
<1>1. ASSUME NEW d \in Txs, EndTx(d) PROVE tx'[x] = tx[x]
  BY <1>1 DEF EndTx, IdleTx, TypeOK
<1>2. ASSUME NEW d \in Txs, NEW k, NEW c, NEW t, NEW i, OpenTx(d, k, c, t, i)
      PROVE  tx'[x] = tx[x]
  <2>1. CASE x = d
    BY <1>2, <2>1 DEF OpenTx, TypeOK
  <2>2. CASE x # d
    BY <1>2, <2>2 DEF OpenTx, TypeOK
  <2>3. QED
    BY <2>1, <2>2
<1>3. ASSUME NEW d \in Txs, Judges(d), x # d PROVE tx'[x] = tx[x]
  BY <1>3 DEF Judges, TypeOK
<1>4. CASE Judges(x)
  BY <1>4 DEF Judges, Answers, TypeOK
<1>5. QED
  BY <1>1, <1>2, <1>3, <1>4, TxStep DEF Opens

\* The straggler of a barred campaign was alone behind the gate, and the gate
\* lets no other through.
LEMMA LastPreserved ==
  ASSUME TypeOK, Wellformed, Locks, Last, [Next]_vars
  PROVE  Last'
<1> SUFFICES ASSUME NEW c \in Campaigns
             PROVE  /\ late'[c] <= 1
                    /\ late'[c] = 1 => Barred(c)' /\ \A x \in Txs :
                         tx'[x].camp = c => tx'[x].verdict # "allow"
  BY DEF Last
<1>1. late[c] \in {0, 1} /\ (late[c] = 1 => Barred(c))
  BY DEF Last, TypeOK
<1>2. ASSUME late[c] = 1, NEW x \in Txs, tx'[x].camp = c PROVE tx'[x].verdict # "allow"
  BY <1>1, <1>2, MaySend DEF Last
<1>3. CASE NoneSent \/ WindowPasses \/ \E d \in Txs : Sent(d) /\ tx[d].camp # c
  <2>1. c # None
    BY OutreachAssumption
  <2>2. late'[c] = 0 \/ (late'[c] = late[c] /\ Barred(c)')
    BY <1>1, <1>3, <2>1 DEF NoneSent, WindowPasses, Sent, LateAfter
  <2>3. QED
    BY <1>1, <1>2, <2>2
<1>4. CASE UNCHANGED vars
  <2>1. Barred(c)' <=> Barred(c)
    BY <1>4 DEF vars, rows, world, Barred
  <2>2. QED
    BY <1>1, <1>2, <1>4, <2>1 DEF vars
<1>5. ASSUME NEW d \in Txs, SendDraft(d) \/ SendApproval(d)
      PROVE  tx[d].verdict = "allow" /\ Sent(d) /\ EndTx(d)
  BY <1>5 DEF SendDraft, SendApproval, At
<1>6. ASSUME NEW d \in Txs, SendDraft(d) \/ SendApproval(d), tx[d].camp = c
      PROVE  /\ late'[c] <= 1
             /\ late'[c] = 1 => Barred(c)' /\ \A x \in Txs :
                  tx'[x].camp = c => tx'[x].verdict # "allow"
  <2>1. late[c] = 0
    BY <1>1, <1>5, <1>6 DEF Last
  <2>2. late'[c] = 0 \/ (late'[c] = 1 /\ Barred(c)')
    BY <1>5, <1>6, <2>1 DEF Sent, LateAfter
  <2>3. ASSUME NEW x \in Txs, tx'[x].camp = c PROVE tx'[x].verdict # "allow"
    <3>1. CASE x = d
      BY <1>5, <1>6, <3>1 DEF EndTx, IdleTx, TypeOK
    <3>2. CASE x # d
      <4>1. tx'[x] = tx[x]
        BY <1>5, <1>6, <3>2 DEF EndTx, TypeOK
      <4>2. QED
        BY <1>5, <1>6, <2>3, <3>2, <4>1 DEF Locks, Past, SameQuota
    <3>3. QED
      BY <3>1, <3>2
  <2>4. QED
    BY <2>2, <2>3
<1>7. QED
  BY <1>3, <1>4, <1>5, <1>6, SendStep

\* What was sent stays sent.
LEMMA SentKept ==
  ASSUME TypeOK, Wellformed, [Next]_vars, NEW t \in Touches, sent[t] > 0
  PROVE  sent'[t] > 0
<1>1. CASE NoneSent \/ WindowPasses \/ UNCHANGED vars
  BY <1>1 DEF NoneSent, WindowPasses, ledger, vars
<1>2. ASSUME NEW d \in Txs, Sent(d) PROVE sent'[t] > 0
  BY <1>2 DEF Sent, TypeOK
<1>3. QED
  BY <1>1, <1>2, SendStep DEF SendDraft, SendApproval

\* A snapshot saved with another step shows as done what it read as done, and
\* that step.
LEMMA SavedDone ==
  ASSUME TypeOK, Wellformed, [Next]_vars, DoneWasSent, ReadDoneSent,
         NEW d \in Txs, NEW x, SaveStep(d, x), x.st = "done" => sent'[tx[d].of] > 0
  PROVE  DoneWasSent'
<1> SUFFICES ASSUME NEW t \in Touches, plan'[t].st = "done" PROVE sent'[t] > 0
  BY DEF DoneWasSent
<1>1. plan'[t] = IF CampOf[t] = tx[d].camp
                   THEN [tx[d].plan EXCEPT ![tx[d].of] = x][t] ELSE plan[t]
  BY DEF SaveStep, Saved
<1>2. [tx[d].plan EXCEPT ![tx[d].of] = x][t] = IF t = tx[d].of THEN x ELSE tx[d].plan[t]
  BY DEF TypeOK, Tx, Plan
<1>3. QED
  BY <1>1, <1>2, SentKept DEF DoneWasSent, ReadDoneSent

\* The new plan shows as done only what the old one or a snapshot does.
LEMMA KeptDone ==
  ASSUME TypeOK, Wellformed, [Next]_vars, DoneWasSent, ReadDoneSent,
         \A t \in Touches : plan'[t].st = "done" =>
           plan[t].st = "done" \/ \E d \in Txs : tx[d].plan[t].st = "done"
  PROVE  DoneWasSent'
BY SentKept DEF DoneWasSent, ReadDoneSent

\* The plan saved with a move to email adds no step that is done.
LEMMA MovedDone ==
  ASSUME TypeOK, Wellformed, [Next]_vars, DoneWasSent, ReadDoneSent,
         NEW d \in Txs, SaveMoved(d)
  PROVE  DoneWasSent'
<1>1. \A t \in Touches : plan'[t].st = "done" =>
        plan[t].st = "done" \/ tx[d].plan[t].st = "done"
  BY DEF SaveMoved, Saved
<1>2. QED
  BY <1>1, KeptDone

\* Whatever a handler saves, a step it shows as done was sent.
LEMMA DonePreserved ==
  ASSUME TypeOK, Wellformed, [Next]_vars, DoneWasSent, ReadDoneSent
  PROVE  DoneWasSent'
<1> DEFINE Same == \A t \in Touches : plan'[t].st = "done" =>
      plan[t].st = "done" \/ \E d \in Txs : tx[d].plan[t].st = "done"
<1>1. CASE plan' = plan
  BY <1>1, KeptDone
<1>2. ASSUME NEW d \in Txs,
             \/ \E t \in Touches : ReadDraft(d, t)
             \/ GateDraft(d) \/ LackKnowledge(d) \/ FailDraft(d)
             \/ \E i \in Items : ReadApproval(d, i)
             \/ GateApproval(d) \/ KeepApproval(d)
             \/ \E c \in Campaigns : ReadScan(d, c)
             \/ LeaveScan(d)
      PROVE  plan' = plan
  BY <1>2 DEF ReadDraft, GateDraft, Judge, LackKnowledge, FailDraft, ReadApproval,
              GateApproval, KeepApproval, ReadScan, LeaveScan, rows
<1>3. ASSUME NEW d \in Txs, DropDraft(d) \/ BlockDraft(d) \/ DeferDraft(d) PROVE DoneWasSent'
  <2>1. tx[d].kind \in {"draft", "drop"} /\ tx[d].of \in Touches
    BY <1>3 DEF DropDraft, BlockDraft, DeferDraft, At, Wellformed
  <2>2. StepOf(d).st = "done" => sent'[tx[d].of] > 0
    BY <2>1, SentKept DEF StepOf, ReadDoneSent
  <2>3. StepOf(d) \in Step
    BY <2>1, StepType
  <2>4. \E x : SaveStep(d, x) /\ (x.st = "done" => StepOf(d).st = "done")
    <3>1. CASE DropDraft(d)
      <4>1. [StepOf(d) EXCEPT !.q = FALSE].st = StepOf(d).st
        BY <2>3 DEF Step
      <4>2. QED
        BY <3>1, <4>1 DEF DropDraft
    <3>2. CASE DeferDraft(d)
      <4>1. [StepOf(d) EXCEPT !.q = TRUE].st = StepOf(d).st
        BY <2>3 DEF Step
      <4>2. QED
        BY <3>2, <4>1 DEF DeferDraft
    <3>3. CASE BlockDraft(d)
      <4>1. /\ [StepOf(d) EXCEPT !.st = "blocked"].st = "blocked"
            /\ [StepOf(d) EXCEPT !.st = "skipped"].st = "skipped"
        BY <2>3 DEF Step
      <4>2. QED
        BY <3>3, <4>1 DEF BlockDraft
    <3>4. QED
      BY <1>3, <3>1, <3>2, <3>3
  <2>5. QED
    BY <2>2, <2>4, SavedDone
<1>4. ASSUME NEW d \in Txs, HoldDraft(d) \/ AskDraft(d) \/ DuplicateDraft(d) PROVE DoneWasSent'
  BY <1>4, MovedDone DEF HoldDraft, AskDraft, DuplicateDraft
<1>5. ASSUME NEW d \in Txs, SendDraft(d) \/ SendApproval(d) PROVE DoneWasSent'
  <2>1. SaveStep(d, Done(d)) /\ Sent(d)
    BY <1>5 DEF SendDraft, SendApproval
  <2>2. tx[d].of \in Touches
    BY <1>5 DEF SendDraft, SendApproval, At, Wellformed
  <2>3. sent'[tx[d].of] > 0
    BY <2>1, <2>2 DEF Sent, TypeOK
  <2>4. QED
    BY <2>1, <2>3, SavedDone
<1>6. ASSUME NEW d \in Txs, CommitScan(d) \/ Exhaust(d) PROVE Same
  <2>1. tx[d].plan \in Plan
    BY DEF TypeOK, Tx
  <2>2. ASSUME CommitScan(d) PROVE \E S : plan' = Saved(tx[d].camp,
          [t \in Touches |-> [tx[d].plan[t] EXCEPT !.q = @ \/ t \in S]])
    BY <2>2 DEF CommitScan
  <2>3. CASE CommitScan(d)
    BY <2>1, <2>2, <2>3 DEF Saved, Plan, Step
  <2>4. CASE Exhaust(d)
    BY <2>1, <2>4 DEF Exhaust, Saved, Plan, Step
  <2>5. QED
    BY <1>6, <2>3, <2>4
<1>7. ASSUME NEW C, plan' = Cancelled(C) PROVE Same
  BY <1>7 DEF Cancelled, TypeOK, Plan, Step
<1>8. ASSUME NEW c \in Campaigns, CampaignStep(c) PROVE Same
  <2>1. CASE OutreachSend(c)
    <3>1. PICK t \in OfCamp(c) : plan' = [plan EXCEPT ![t].q = TRUE]
      BY <2>1 DEF OutreachSend
    <3>2. QED
      BY <3>1 DEF TypeOK, Plan, Step
  <2>2. CASE Qualify(c)
    BY <1>7, <2>2 DEF Qualify
  <2>3. CASE TurnAway(c)
    BY <2>3 DEF TurnAway
  <2>4. CASE PlanJob(c)
    <3>1. PICK S : plan' = [t \in Touches |->
            IF CampOf[t] # c THEN plan[t]
            ELSE [st |-> "pending", q |-> t \in S,
                  ch |-> IF linkedin THEN Planned[t] ELSE "email"]]
      BY <2>4 DEF PlanJob
    <3>2. QED
      BY <3>1
  <2>5. CASE GiveClaim(c) \/ StopProspect(c) \/ Reply(c)
    BY <1>7, <2>5 DEF GiveClaim, StopProspect, Reply, EndSequences
  <2>6. QED
    <3> HIDE DEF Same
    <3>1. QED
      BY <1>8, <2>1, <2>2, <2>3, <2>4, <2>5 DEF CampaignStep
<1>9. ASSUME (\E i \in Items : RejectItem(i)) \/ Unsubscribe \/ Hold \/ ToggleLinkedin \/ WindowPasses
      PROVE  Same
  <2>1. CASE ToggleLinkedin
    BY <2>1 DEF ToggleLinkedin, TypeOK, Plan, Step
  <2>2. CASE Hold \/ WindowPasses
    BY <2>2 DEF Hold, WindowPasses, rows
  <2>3. CASE (\E i \in Items : RejectItem(i)) \/ Unsubscribe
    BY <1>7, <2>3 DEF RejectItem, Unsubscribe, EndSequences
  <2>4. QED
    BY <1>9, <2>1, <2>2, <2>3
<1>10. Same => DoneWasSent'
  BY KeptDone
<1>11. CASE UNCHANGED vars
  BY <1>1, <1>11 DEF vars, rows
<1>12. CASE Next
  <2> HIDE DEF Same
  <2>1. QED
    BY <1>12, <1>1, <1>2, <1>3, <1>4, <1>5, <1>6, <1>8, <1>9, <1>10
       DEF Next, DraftStep, ApproveStep, ScanStep
<1>13. QED
  BY <1>11, <1>12

\* A snapshot is a copy of the plan, so what it shows as done was sent.
LEMMA ReadDonePreserved ==
  ASSUME TypeOK, Wellformed, [Next]_vars, DoneWasSent, ReadDoneSent
  PROVE  ReadDoneSent'
<1> SUFFICES ASSUME NEW x \in Txs, NEW t \in Touches, tx'[x].plan[t].st = "done"
             PROVE  sent'[t] > 0
  BY DEF ReadDoneSent
<1>1. NoPlan[t].st # "done"
  BY DEF NoPlan
<1>2. tx[x].plan[t].st = "done" \/ plan[t].st = "done"
  <2>1. ASSUME NEW d \in Txs, EndTx(d) PROVE tx'[x] = tx[x] \/ tx'[x].plan = NoPlan
    BY <2>1 DEF EndTx, IdleTx, TypeOK
  <2>2. ASSUME NEW d \in Txs, NEW k, NEW c, NEW s, NEW i, OpenTx(d, k, c, s, i)
        PROVE  \/ tx'[x] = tx[x]
               \/ tx'[x].plan = [u \in Touches |-> IF CampOf[u] = c THEN plan[u] ELSE NoPlan[u]]
    BY <2>2 DEF OpenTx, TypeOK
  <2>3. ASSUME NEW d \in Txs, Judges(d) PROVE tx'[x] = tx[x] \/ tx'[x].plan[t].st = tx[x].plan[t].st
    BY <2>3 DEF Judges, Answers, TypeOK
  <2>4. QED
    BY <1>1, <2>1, <2>2, <2>3, TxStep DEF Opens
<1>3. QED
  BY <1>2, SentKept DEF DoneWasSent, ReadDoneSent

\* What a transaction may still do about the window is not spoilt by the
\* sends of others, which its locks keep apart.
LEMMA ClearedPreserved ==
  ASSUME TypeOK, Wellformed, Locks, Cleared, [Next]_vars
  PROVE  Cleared'
<1> DEFINE Apart(x) == \A m \in recent' :
      ~SameQuota(m.camp, tx'[x].camp) /\ "approve" \in {m.how, tx'[x].kind}
<1> SUFFICES ASSUME NEW x \in Txs, tx'[x].verdict = "allow"
             PROVE  (tx'[x].kind = "draft" /\ SameDay(x)') \/ Apart(x)
  BY DEF Cleared
<1>1. CASE recent' \subseteq recent
  <2>1. CASE tx'[x] = tx[x]
    BY <1>1, <2>1 DEF Cleared, SameDay
  <2>2. CASE tx'[x] # tx[x]
    <3>1. /\ tx'[x].camp = tx[x].camp /\ tx'[x].kind = tx[x].kind /\ tx'[x].of = tx[x].of
          /\ \A t \in Touches : tx'[x].plan[t].st = tx[x].plan[t].st
          /\ recent = {} \/ (tx[x].kind = "draft" /\ SameDay(x))
      BY <2>2, MaySend
    <3>2. SameDay(x) => SameDay(x)'
      BY <3>1 DEF SameDay, OfCamp
    <3>3. QED
      BY <1>1, <3>1, <3>2
  <2>3. QED
    BY <2>1, <2>2
<1>2. ASSUME NEW d \in Txs, SendDraft(d) \/ SendApproval(d)
      PROVE  (tx'[x].kind = "draft" /\ SameDay(x)') \/ Apart(x)
  <2>1. Past(d) /\ EndTx(d) /\ recent' = recent \cup {[camp |-> tx[d].camp, how |-> tx[d].kind]}
    BY <1>2 DEF SendDraft, SendApproval, Sent, At, Past
  <2>2. x # d /\ tx'[x] = tx[x]
    BY <2>1 DEF EndTx, IdleTx, TypeOK
  <2>3. ~SameQuota(tx[d].camp, tx[x].camp) /\ "approve" \in {tx[d].kind, tx[x].kind}
    BY <2>1, <2>2 DEF Locks, Past
  <2>4. CASE tx[x].kind = "draft" /\ SameDay(x)
    BY <2>2, <2>4 DEF SameDay
  <2>5. CASE ~(tx[x].kind = "draft" /\ SameDay(x))
    BY <2>1, <2>2, <2>3, <2>5 DEF Cleared
  <2>6. QED
    BY <2>4, <2>5
<1>3. NoneSent \/ WindowPasses \/ UNCHANGED vars => recent' \subseteq recent
  BY DEF NoneSent, WindowPasses, vars, world
<1>4. QED
  BY <1>1, <1>2, <1>3, SendStep

-----------------------------------------------------------------------------
(* What paid for the messages.                                             *)

\* An approval transaction is on the touch of the approval whose row it holds.
Holds == \A d \in Txs : tx[d].kind = "approve" => item[tx[d].item].of = tx[d].of

\* What is counted is finite.
Counted == \A t \in Touches : IsFiniteSet(KeysOf(t)) /\ IsFiniteSet(ApprovalsOf(t))

\* An approval that is in use keeps its touch.
LEMMA TouchKept ==
  ASSUME TypeOK, [Next]_vars, NEW i \in Items, item[i].st # "free"
  PROVE  item'[i].of = item[i].of
<1>1. ASSUME NEW d \in Txs, AskDraft(d) PROVE item'[i].of = item[i].of
  BY <1>1 DEF AskDraft, TypeOK
<1>2. ASSUME NEW d \in Txs, SendApproval(d) PROVE item'[i].of = item[i].of
  BY <1>2 DEF SendApproval, TypeOK, Item
<1>3. ASSUME NEW j \in Items, RejectItem(j) PROVE item'[i].of = item[i].of
  BY <1>3 DEF RejectItem, TypeOK, Item
<1>4. QED
  BY <1>1, <1>2, <1>3, ItemStep

\* The row lock and the touch it was read with stay together.
LEMMA HoldsPreserved ==
  ASSUME TypeOK, Wellformed, Holds, [Next]_vars
  PROVE  Holds'
<1> SUFFICES ASSUME NEW x \in Txs, tx'[x].kind = "approve"
             PROVE  item'[tx'[x].item].of = tx'[x].of
  BY DEF Holds
<1>1. CASE tx'[x].kind = tx[x].kind /\ tx'[x].item = tx[x].item /\ tx'[x].of = tx[x].of
  BY <1>1, TouchKept DEF Holds, Wellformed
<1>2. ASSUME NEW d \in Txs, EndTx(d) PROVE tx'[x] = tx[x]
  BY <1>2 DEF EndTx, IdleTx, TypeOK
<1>3. ASSUME NEW d \in Txs, Judges(d)
      PROVE  tx'[x].kind = tx[x].kind /\ tx'[x].item = tx[x].item /\ tx'[x].of = tx[x].of
  BY <1>3 DEF Judges, Answers, TypeOK
<1>4. ASSUME NEW d \in Txs, NEW k \in {"draft", "drop", "scan", "look"}, NEW c, NEW t,
             OpenTx(d, k, c, t, None)
      PROVE  tx'[x] = tx[x]
  BY <1>4 DEF OpenTx, TypeOK
<1>5. ASSUME NEW d \in Txs, NEW i \in Items, Open(i),
             OpenTx(d, "approve", CampOf[item[i].of], item[i].of, i)
      PROVE  tx'[x] = tx[x] \/ (tx'[x].item = i /\ tx'[x].of = item[i].of /\ item[i].st # "free")
  BY <1>5 DEF OpenTx, TypeOK, Open
<1>6. QED
  BY <1>1, <1>2, <1>3, <1>4, <1>5, TxStep, TouchKept DEF Opens

\* A step that sends nothing leaves what paid as it was: an approval that is
\* asked for is a free one, which has paid for nothing.
LEMMA PaidKept ==
  ASSUME TypeOK, Wellformed, Once, [Next]_vars, UNCHANGED ledger, NEW t \in Touches
  PROVE  sent'[t] = sent[t] /\ KeysOf(t)' = KeysOf(t) /\ ApprovalsOf(t)' = ApprovalsOf(t)
<1>1. \A i \in Items : decided[i] > 0 => item'[i].of = item[i].of
  BY TouchKept DEF Once
<1>2. QED
  BY <1>1 DEF ledger, KeysOf, ApprovalsOf

\* A draft's message adds its key, which was not taken, to those of its touch.
LEMMA PaidByKey ==
  ASSUME TypeOK, Wellformed, [Next]_vars, NEW d \in Txs, SendDraft(d), NEW t \in Touches
  PROVE  /\ ApprovalsOf(t)' = ApprovalsOf(t)
         /\ t # tx[d].of => sent'[t] = sent[t] /\ KeysOf(t)' = KeysOf(t)
         /\ t = tx[d].of => /\ sent'[t] = sent[t] + 1
                            /\ Key(d) \notin KeysOf(t)
                            /\ KeysOf(t)' = KeysOf(t) \cup {Key(d)}
<1>1. Key(d) \notin keys /\ keys' = keys \cup {Key(d)} /\ Key(d)[1] = tx[d].of
  BY DEF SendDraft, Key
<1>2. sent' = [sent EXCEPT ![tx[d].of] = @ + 1] /\ UNCHANGED <<item, decided>>
  BY DEF SendDraft, Sent
<1>3. QED
  BY <1>1, <1>2 DEF KeysOf, ApprovalsOf, TypeOK

\* An approved message adds its approval, which had sent nothing.
LEMMA PaidByApproval ==
  ASSUME TypeOK, Wellformed, Locks, Once, Holds, [Next]_vars,
         NEW d \in Txs, SendApproval(d), NEW t \in Touches
  PROVE  /\ KeysOf(t)' = KeysOf(t)
         /\ t # tx[d].of => sent'[t] = sent[t] /\ ApprovalsOf(t)' = ApprovalsOf(t)
         /\ t = tx[d].of => /\ sent'[t] = sent[t] + 1
                            /\ tx[d].item \notin ApprovalsOf(t)
                            /\ ApprovalsOf(t)' = ApprovalsOf(t) \cup {tx[d].item}
<1>1. /\ tx[d].item \in Items /\ item[tx[d].item].st = "open"
      /\ item[tx[d].item].of = tx[d].of /\ decided[tx[d].item] = 0
  BY DEF SendApproval, Wellformed, Locks, Open, Holds, Once
<1>2. /\ sent' = [sent EXCEPT ![tx[d].of] = @ + 1] /\ UNCHANGED keys
      /\ decided' = [decided EXCEPT ![tx[d].item] = @ + 1]
  BY DEF SendApproval, Sent
<1>3. \A i \in Items : item'[i].of = item[i].of
  BY DEF SendApproval, TypeOK, Item
<1>4. QED
  BY <1>1, <1>2, <1>3 DEF KeysOf, ApprovalsOf, TypeOK

\* Every step keeps the account.
LEMMA AccountedPreserved ==
  ASSUME TypeOK, Wellformed, Locks, Once, Holds, Counted, Accounted, [Next]_vars
  PROVE  Counted' /\ Accounted'
<1> SUFFICES ASSUME NEW t \in Touches
             PROVE  /\ IsFiniteSet(KeysOf(t)') /\ IsFiniteSet(ApprovalsOf(t)')
                    /\ sent'[t] = Cardinality(KeysOf(t)') + Cardinality(ApprovalsOf(t)')
  BY DEF Counted, Accounted
<1>1. /\ IsFiniteSet(KeysOf(t)) /\ IsFiniteSet(ApprovalsOf(t))
      /\ sent[t] = Cardinality(KeysOf(t)) + Cardinality(ApprovalsOf(t))
  BY DEF Counted, Accounted
<1>2. Cardinality(KeysOf(t)) \in Nat /\ Cardinality(ApprovalsOf(t)) \in Nat
  BY <1>1, FS_CardinalityType
<1>3. CASE NoneSent \/ WindowPasses \/ UNCHANGED vars
  <2>1. UNCHANGED ledger
    BY <1>3 DEF NoneSent, WindowPasses, vars, ledger
  <2>2. QED
    BY <1>1, <2>1, PaidKept
<1>4. ASSUME NEW d \in Txs, SendDraft(d)
      PROVE  /\ IsFiniteSet(KeysOf(t)') /\ IsFiniteSet(ApprovalsOf(t)')
             /\ sent'[t] = Cardinality(KeysOf(t)') + Cardinality(ApprovalsOf(t)')
  <2>1. Key(d) \notin KeysOf(t) =>
          /\ IsFiniteSet(KeysOf(t) \cup {Key(d)})
          /\ Cardinality(KeysOf(t) \cup {Key(d)}) = Cardinality(KeysOf(t)) + 1
    BY <1>1, FS_AddElement
  <2>2. /\ ApprovalsOf(t)' = ApprovalsOf(t)
        /\ t # tx[d].of => sent'[t] = sent[t] /\ KeysOf(t)' = KeysOf(t)
        /\ t = tx[d].of => /\ sent'[t] = sent[t] + 1
                           /\ Key(d) \notin KeysOf(t)
                           /\ KeysOf(t)' = KeysOf(t) \cup {Key(d)}
    BY <1>4, PaidByKey
  <2>3. CASE t # tx[d].of
    BY <1>1, <2>2, <2>3
  <2>4. CASE t = tx[d].of
    BY <1>1, <1>2, <2>1, <2>2, <2>4
  <2>5. QED
    BY <2>3, <2>4
<1>5. ASSUME NEW d \in Txs, SendApproval(d)
      PROVE  /\ IsFiniteSet(KeysOf(t)') /\ IsFiniteSet(ApprovalsOf(t)')
             /\ sent'[t] = Cardinality(KeysOf(t)') + Cardinality(ApprovalsOf(t)')
  <2>1. tx[d].item \notin ApprovalsOf(t) =>
          /\ IsFiniteSet(ApprovalsOf(t) \cup {tx[d].item})
          /\ Cardinality(ApprovalsOf(t) \cup {tx[d].item}) = Cardinality(ApprovalsOf(t)) + 1
    BY <1>1, FS_AddElement
  <2>2. /\ KeysOf(t)' = KeysOf(t)
        /\ t # tx[d].of => sent'[t] = sent[t] /\ ApprovalsOf(t)' = ApprovalsOf(t)
        /\ t = tx[d].of => /\ sent'[t] = sent[t] + 1
                           /\ tx[d].item \notin ApprovalsOf(t)
                           /\ ApprovalsOf(t)' = ApprovalsOf(t) \cup {tx[d].item}
    BY <1>5, PaidByApproval
  <2>3. CASE t # tx[d].of
    BY <1>1, <2>2, <2>3
  <2>4. CASE t = tx[d].of
    BY <1>1, <1>2, <2>1, <2>2, <2>4
  <2>5. QED
    BY <2>3, <2>4
<1>6. QED
  BY <1>3, <1>4, <1>5, SendStep

-----------------------------------------------------------------------------
(* The theorems.                                                           *)

\* The inductive invariant: types and shape, the locks, what they are for, and
\* the account of the messages.
IInv ==
  /\ TypeOK /\ Wellformed /\ Locks /\ Once /\ Last
  /\ DoneWasSent /\ ReadDoneSent /\ Cleared
  /\ Holds /\ Counted /\ Accounted

\* It holds at the start.
LEMMA InitIInv == Init => IInv
<1> SUFFICES ASSUME Init PROVE IInv
  OBVIOUS
<1>1. TypeOK /\ Wellformed
  BY InitTyped
<1>2. \A d \in Txs : tx[d] = IdleTx
  BY DEF Init
<1>3. Locks /\ Cleared
  BY <1>2 DEF Locks, Cleared, Past, IdleTx
<1>4. Once /\ Last
  BY DEF Init, Once, Last
<1>5. DoneWasSent /\ ReadDoneSent
  BY <1>2 DEF Init, DoneWasSent, ReadDoneSent, NoPlan, IdleTx
<1>6. Holds
  BY <1>2 DEF Holds, IdleTx
<1>7. \A t \in Touches : KeysOf(t) = {} /\ ApprovalsOf(t) = {} /\ sent[t] = 0
  BY DEF Init, KeysOf, ApprovalsOf
<1>8. Counted /\ Accounted
  BY <1>7, FS_EmptySet DEF Counted, Accounted
<1>9. QED
  BY <1>1, <1>3, <1>4, <1>5, <1>6, <1>8 DEF IInv

\* Every step keeps it.
LEMMA NextIInv == IInv /\ [Next]_vars => IInv'
BY TypePreserved, WellformedPreserved, LocksPreserved, OncePreserved, LastPreserved,
   DonePreserved, ReadDonePreserved, ClearedPreserved, HoldsPreserved, AccountedPreserved DEF IInv

\* The inductive invariant holds in every reachable state: what the gate, the
\* locks and the saved snapshots guarantee together (handlers.py:170-375,
\* replies.py:253-318).
THEOREM Invariance == Spec => []IInv
BY InitIInv, NextIInv, PTL DEF Spec

\* However many managers approve at once, an approval sends one message: the row
\* stays locked from the read of its status to the commit (replies.py:259-263).
THEOREM ApprovalsSendOnce == Spec => []ApprovalSendsOnce
<1>1. IInv => ApprovalSendsOnce
  BY DEF IInv, Once, ApprovalSendsOnce
<1>2. QED
  BY <1>1, Invariance, PTL

\* Every message has its key or its approval, and each pays for one message,
\* however many stale plans, duplicate jobs, retries and managers there are
\* (handlers.py:316-325, replies.py:259-302).
THEOREM EveryMessageAccounted == Spec => []Accounted
<1>1. IInv => Accounted
  BY DEF IInv
<1>2. QED
  BY <1>1, Invariance, PTL

\* A step shown as done was sent, whichever stale plan was saved last
\* (handlers.py:328, replies.py:305).
THEOREM DoneWasAlwaysSent == Spec => []DoneWasSent
<1>1. IInv => DoneWasSent
  BY DEF IInv
<1>2. QED
  BY <1>1, Invariance, PTL

\* Once a campaign is barred, at most one message of it still leaves, however
\* many workers and API requests run: the gate is passed by one transaction of
\* a campaign at a time (gate.py:153-160, handlers.py:226-234).
THEOREM StragglersBounded == Spec => []OneStraggler
<1>1. IInv => OneStraggler
  BY DEF IInv, Last, OneStraggler
<1>2. QED
  BY <1>1, Invariance, PTL

\* What a send finds behind the locks its gate holds.
LEMMA SpacedStep ==
  ASSUME IInv, [Next]_vars, NEW d \in Txs, Sender(d)
  PROVE  Spaced(d)
<1> USE DEF IInv
<1>1. sent' # sent /\ tx'[d] # tx[d]
  BY DEF Sender
<1>2. PICK e \in Txs : SendDraft(e) \/ SendApproval(e)
  BY <1>1, SendStep DEF NoneSent, WindowPasses, ledger, vars
<1>3. EndTx(e) /\ tx[e].verdict = "allow" /\ tx[e].kind \in {"draft", "approve"}
  BY <1>2 DEF SendDraft, SendApproval, At
<1>4. e = d
  BY <1>1, <1>3 DEF EndTx, TypeOK
<1>5. tx[d].of \in Touches /\ tx[d].camp = CampOf[tx[d].of]
  BY <1>3, <1>4 DEF Wellformed
<1>6. CASE tx[d].kind = "draft" /\ SameDay(d)
  <2>1. PICK u \in OfCamp(tx[d].camp) \ {tx[d].of} :
          tx[d].plan[u].st = "done" /\ Day[u] = Day[tx[d].of]
    BY <1>6 DEF SameDay
  <2>2. sent[u] > 0
    BY <2>1 DEF ReadDoneSent, OfCamp
  <2>3. Opening(tx[d].of)
    BY <1>5, <2>1, <2>2 DEF Opening, OfCamp
  <2>4. QED
    BY <1>6, <2>3 DEF Spaced
<1>7. CASE ~(tx[d].kind = "draft" /\ SameDay(d))
  BY <1>3, <1>4, <1>7 DEF Cleared, Spaced
<1>8. QED
  BY <1>6, <1>7

\* Two messages within 48 hours are of one opening, or one of them was approved
\* and no lock orders their gates: with the read of what was sent behind the
\* prospect's and the quota locks, no other pair (handlers.py:210, replies.py:294).
THEOREM SendsSpaced == Spec => SpacedUnderLocks
<1>1. IInv /\ [Next]_vars => [\A d \in Txs : Sender(d) => Spaced(d)]_vars
  BY SpacedStep
<1>2. QED
  BY <1>1, Invariance, PTL DEF Spec, SpacedUnderLocks
=============================================================================
