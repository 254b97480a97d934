------------------------- MODULE ConversationProofs -------------------------
(***************************************************************************)
(* What holds of Conversation for any mails, ids, transactions and bounds: *)
(* the type invariant, that an escalated prospect has an open escalation,  *)
(* that one call at most waits for approval, that an opt-out lets at most  *)
(* one reply and one approval already judged escape, that confirmations    *)
(* are not refused, and that calls settle once.                            *)
(***************************************************************************)
EXTENDS Conversation, FiniteSetTheorems, TLAPS

\* Every step of the specification, one disjunct per action.
LEMMA StepCases ==
  ASSUME Next
  PROVE  \/ \E d \in Txs :
              \/ \E m \in Mails : ReadMail(d, m)
              \/ IngestMail(d)
              \/ \E i \in Rows : ClaimReply(d, i)
              \/ SkipReply(d) \/ GateReply(d) \/ FinishReply(d)
              \/ \E i \in Rows : GateApproval(d, i)
              \/ FinishApproval(d)
              \/ \E o \in Outcomes : ReadOutcome(d, o)
              \/ RecordOutcome(d) \/ ReadOverdue(d) \/ GiveUpCalls(d) \/ Abort(d)
         \/ \E i \in Rows : AskRetry(i) \/ Requeue(i) \/ SweepReply(i) \/ RejectReply(i)
         \/ \E v \in Voices : ApproveVoice(v) \/ RejectVoice(v)
         \/ Receive \/ Escalate \/ Resolve \/ StopProspect \/ BookMeeting \/ Hold \/ Close
BY DEF Next, MailStep, ReplyStep, DeskStep, CallStep

-----------------------------------------------------------------------------
(* Type correctness.                                                       *)

\* The job's status stays one of Jobs, whichever row it is.
LEMMA SetJobType ==
  ASSUME TypeOK, NEW i, NEW s \in Jobs, SetJob(i, s)
  PROVE  row' \in [Rows -> Row]
<1>1. \A j \in Rows : [row[j] EXCEPT !.job = s] \in Row
  BY DEF TypeOK, Row
<1>2. QED
  BY <1>1 DEF TypeOK, SetJob

\* The row a transaction that decides an approval is about has one open, and no
\* other transaction decides one. A row without a message has none.
Deciding ==
  /\ \A d \in Doing("approve") : tx[d].row \in Rows /\ row[tx[d].row].asked > 0
  /\ \A d, e \in Doing("approve") : d = e
  /\ \A i \in Rows : row[i].job = "free" => row[i].asked = 0

Typed == TypeOK /\ Deciding

\* A transaction that opens or ends leaves the others typed.
LEMMA TxType ==
  ASSUME TypeOK, NEW d, NEW x \in Tx, OpenTx(d, x)
  PROVE  tx' \in [Txs -> Tx]
BY DEF TypeOK, OpenTx

LEMMA IdleType == IdleTx \in Tx
BY DEF IdleTx, Tx, Kinds, Outcomes, Verdicts

LEMMA EndType ==
  ASSUME TypeOK, NEW d, EndTx(d)
  PROVE  tx' \in [Txs -> Tx]
BY IdleType DEF TypeOK, EndTx

\* What the gate may answer, and that after the opt-out it allows only an
\* acknowledgement.
LEMMA VerdictType ==
  ASSUME NEW ack \in BOOLEAN, NEW other \in BOOLEAN, NEW ask \in BOOLEAN,
         suppressed \in BOOLEAN, held \in BOOLEAN
  PROVE  /\ Verdict(ack, other, ask) \in Verdicts \ {"none"}
         /\ Verdict(ack, other, ask) = "allow" => ~suppressed \/ ack
BY DEF Verdict, Verdicts

\* A message that leaves is counted once at most.
LEMMA LeavesType ==
  ASSUME TypeOK, NEW k \in {"reply", "approve"}, NEW ack, Leaves(k, ack)
  PROVE  late' \in [{"reply", "approve"} -> Nat]
<1>1. late[k] + 1 \in Nat
  BY DEF TypeOK
<1>2. QED
  BY <1>1 DEF TypeOK, Leaves

LEMMA EventType == ASSUME TypeOK, Event PROVE budget' \in 0..Budget
BY ConversationAssumption DEF TypeOK, Event

\* The inbound row, the state and the approvals an inbound message leaves.
LEMMA IngestType ==
  ASSUME TypeOK, NEW m \in Mails \cup {None}, Ingest(m)
  PROVE  /\ row' \in [Rows -> Row] /\ state' \in States /\ slots' \in BOOLEAN
         /\ voice' \in [Voices -> {"free", "open", "approved", "rejected"}]
         /\ open' \in Nat /\ suppressed' \in BOOLEAN
<1>1. PICK cls \in Classes :
        /\ row' = [row EXCEPT ![New(FreeRows)] =
             [mail |-> m, ack |-> cls \in {"unsubscribe", "escalate"},
              job |-> IF cls \in {"ooo", "not_interested"} THEN "none" ELSE "queued",
              sent |-> FALSE, asked |-> 0]]
        /\ suppressed' = (suppressed \/ cls = "unsubscribe")
        /\ slots' = (slots \/ Warm(cls))
        /\ open' = IF cls = "escalate" THEN open + 1 ELSE open
        /\ \/ state' = After(cls) /\ UNCHANGED voice
           \/ Warm(cls) /\ PlanCall
  BY DEF Ingest
<1>2. [mail |-> m, ack |-> cls \in {"unsubscribe", "escalate"},
       job |-> IF cls \in {"ooo", "not_interested"} THEN "none" ELSE "queued",
              sent |-> FALSE, asked |-> 0] \in Row
  BY DEF Row, Jobs
<1>3. row' \in [Rows -> Row]
  BY <1>1, <1>2 DEF TypeOK
<1>4. After(cls) \in States
  BY DEF After, TypeOK, States
<1>5. /\ state' \in States
      /\ voice' \in [Voices -> {"free", "open", "approved", "rejected"}]
  BY <1>1, <1>4 DEF TypeOK, PlanCall, States
<1>6. QED
  BY <1>1, <1>3, <1>5 DEF TypeOK, Warm

LEMMA InitTyped == Init => TypeOK
<1> SUFFICES ASSUME Init PROVE TypeOK
  OBVIOUS
<1>1. tx \in [Txs -> Tx]
  BY IdleType DEF Init
<1>2. row \in [Rows -> Row]
  BY DEF Init, Row, Jobs, FreeRow
<1>3. late \in [{"reply", "approve"} -> Nat]
  BY DEF Init
<1>4. budget \in 0..Budget
  BY ConversationAssumption DEF Init
<1>5. QED
  BY <1>1, <1>2, <1>3, <1>4 DEF Init, TypeOK, States

\* Every action keeps the types.
LEMMA TypePreserved == Typed /\ [Next]_vars => TypeOK'
<1> SUFFICES ASSUME TypeOK, Deciding, [Next]_vars PROVE TypeOK'
  BY DEF Typed
<1> USE DEF thread, desk, admin
<1>1. ASSUME NEW d \in Txs, NEW m \in Mails, ReadMail(d, m) PROVE TypeOK'
  <2>1. [IdleTx EXCEPT !.kind = "ingest", !.mail = m] \in Tx
    BY IdleType DEF Tx, Kinds
  <2>2. tx' \in [Txs -> Tx]
    BY <1>1, <2>1, TxType DEF ReadMail
  <2>3. QED
    BY <1>1, <2>2 DEF ReadMail, TypeOK
<1>2. ASSUME NEW d \in Txs, IngestMail(d) PROVE TypeOK'
  <2>1. tx[d].mail \in Mails \cup {None}
    BY DEF TypeOK, Tx
  <2>2. QED
    BY <1>2, <2>1, IngestType, EndType DEF IngestMail, TypeOK
<1>3. ASSUME NEW d \in Txs, NEW i \in Rows, ClaimReply(d, i) PROVE TypeOK'
  <2>1. [IdleTx EXCEPT !.kind = "reply", !.row = i] \in Tx
    BY IdleType DEF Tx, Kinds
  <2>2. tx' \in [Txs -> Tx]
    BY <1>3, <2>1, TxType DEF ClaimReply
  <2>3. row' \in [Rows -> Row]
    BY <1>3, SetJobType DEF ClaimReply, Jobs
  <2>4. QED
    BY <1>3, <2>2, <2>3 DEF ClaimReply, TypeOK
<1>4. ASSUME NEW d \in Txs, GateReply(d) PROVE TypeOK'
  <2>2. PICK other \in BOOLEAN, ask \in BOOLEAN :
          OpenTx(d, [tx[d] EXCEPT !.verdict = Verdict(row[tx[d].row].ack, other, ask)])
    BY <1>4 DEF SkipReply, GateReply, Judge
  <2>3. Verdict(row[tx[d].row].ack, other, ask) \in Verdicts
    BY DEF Verdict, Verdicts, TypeOK
  <2>4. tx' \in [Txs -> Tx]
    <3>1. [tx[d] EXCEPT !.verdict = Verdict(row[tx[d].row].ack, other, ask)] \in Tx
      BY <2>3 DEF TypeOK, Tx
    <3>2. QED
      BY <2>2, <3>1, TxType
  <2>5. QED
    BY <1>4, <2>4 DEF SkipReply, GateReply, Judge, TypeOK
<1>5. ASSUME NEW d \in Txs, FinishReply(d) PROVE TypeOK'
  <2> DEFINE i == tx[d].row
             Done == [row[i] EXCEPT !.job = "done"]
  <2>1. ASSUME i \in Rows
        PROVE  /\ [Done EXCEPT !.asked = @ + 1] \in Row
               /\ [Done EXCEPT !.sent = TRUE] \in Row
    <3>1. Done \in Row
      BY <2>1 DEF TypeOK, Row, Jobs
    <3> HIDE DEF Done
    <3>2. Done.asked + 1 \in Nat
      BY <3>1 DEF Row
    <3>3. QED
      BY <3>1, <3>2 DEF Row
  <2> HIDE DEF i
  <2>2. \/ \E s \in {"queued", "done"} : SetJob(i, s)
        \/ row' = [row EXCEPT ![i] = [Done EXCEPT !.asked = @ + 1]]
        \/ row' = [row EXCEPT ![i] = [Done EXCEPT !.sent = TRUE]]
    BY <1>5 DEF FinishReply, i
  <2>3. row' \in [Rows -> Row]
    <3>1. CASE \E s \in {"queued", "done"} : SetJob(i, s)
      BY <3>1, SetJobType DEF Jobs
    <3>2. CASE row' = [row EXCEPT ![i] = [Done EXCEPT !.asked = @ + 1]]
      BY <2>1, <3>2 DEF TypeOK
    <3>3. CASE row' = [row EXCEPT ![i] = [Done EXCEPT !.sent = TRUE]]
      BY <2>1, <3>3 DEF TypeOK
    <3>4. QED
      BY <2>2, <3>1, <3>2, <3>3
  <2>4. late' \in [{"reply", "approve"} -> Nat]
    BY <1>5, LeavesType DEF FinishReply, TypeOK
  <2>5. QED
    BY <1>5, <2>3, <2>4, EndType DEF FinishReply, TypeOK
<1>6. ASSUME NEW i \in Rows, AskRetry(i) \/ Requeue(i) \/ SweepReply(i) \/ RejectReply(i)
      PROVE  TypeOK'
  <2>1. CASE AskRetry(i)
    BY <2>1 DEF AskRetry, TypeOK
  <2>2. CASE Requeue(i)
    <3>1. row' \in [Rows -> Row]
      BY <2>2, SetJobType DEF Requeue, Jobs
    <3>2. asking' \in [Rows -> Nat]
      BY <2>2 DEF Requeue, TypeOK
    <3>3. QED
      BY <2>2, <3>1, <3>2 DEF Requeue, TypeOK
  <2>3. CASE SweepReply(i)
    <3>1. row' \in [Rows -> Row]
      BY <2>3, SetJobType DEF SweepReply, Jobs
    <3>2. QED
      BY <2>3, <3>1, EventType DEF SweepReply, TypeOK
  <2>4. CASE RejectReply(i)
    <3>1. row[i].asked - 1 \in Nat
      BY <2>4 DEF RejectReply, OneToDecide, TypeOK, Row
    <3>2. [row[i] EXCEPT !.asked = @ - 1] \in Row
      BY <3>1 DEF TypeOK, Row
    <3>3. row' \in [Rows -> Row]
      BY <2>4, <3>2 DEF RejectReply, TypeOK
    <3>4. QED
      BY <2>4, <3>3 DEF RejectReply, TypeOK
  <2>5. QED
    BY <1>6, <2>1, <2>2, <2>3, <2>4
<1>7. ASSUME NEW d \in Txs, NEW i \in Rows, GateApproval(d, i) PROVE TypeOK'
  <2>1. [IdleTx EXCEPT !.kind = "approve", !.row = i, !.verdict = "allow"] \in Tx
    BY IdleType DEF Tx, Kinds, Verdicts
  <2>2. tx' \in [Txs -> Tx]
    BY <1>7, <2>1, TxType DEF GateApproval
  <2>3. QED
    BY <1>7, <2>2 DEF GateApproval, TypeOK
<1>8. ASSUME NEW d \in Txs, FinishApproval(d) PROVE TypeOK'
  <2>1. row' \in [Rows -> Row]
    <3>1. tx[d].row \in Rows /\ row[tx[d].row].asked - 1 \in Nat
      BY <1>8 DEF FinishApproval, Deciding, Doing, TypeOK, Row
    <3>2. [row[tx[d].row] EXCEPT !.asked = @ - 1] \in Row
      BY <3>1 DEF TypeOK, Row
    <3>3. QED
      BY <1>8, <3>2 DEF FinishApproval, TypeOK
  <2>2. late' \in [{"reply", "approve"} -> Nat]
    BY <1>8, LeavesType DEF FinishApproval
  <2>3. QED
    BY <1>8, <2>1, <2>2, EndType DEF FinishApproval, TypeOK
<1>9. ASSUME NEW v \in Voices, ApproveVoice(v) \/ RejectVoice(v) PROVE TypeOK'
  BY <1>9 DEF ApproveVoice, PlaceCall, Dispatched, Scripted, RejectVoice, TypeOK, States, Outcomes
<1>10. ASSUME NEW d \in Txs, NEW o \in Outcomes, ReadOutcome(d, o) PROVE TypeOK'
  <2>1. Latest \in SUBSET Calls
    BY DEF Latest, Awaiting
  <2>2. [IdleTx EXCEPT !.kind = "outcome", !.outcome = o, !.calls = Latest] \in Tx
    BY <2>1, IdleType DEF Tx, Kinds
  <2>3. tx' \in [Txs -> Tx]
    BY <1>10, <2>2, TxType DEF ReadOutcome
  <2>4. QED
    BY <1>10, <2>3, EventType DEF ReadOutcome, TypeOK
<1>11. ASSUME NEW d \in Txs, RecordOutcome(d) PROVE TypeOK'
  <2>1. tx[d].outcome \in Outcomes
    BY DEF TypeOK, Tx
  <2>2. call' \in [Calls -> {"free", "awaiting", "unknown"} \cup Outcomes]
    BY <1>11, <2>1 DEF RecordOutcome, SetOutcome, TypeOK
  <2>3. state' \in States
    BY <1>11 DEF RecordOutcome, AfterCall, TypeOK, States
  <2>4. QED
    BY <1>11, <2>2, <2>3, EndType DEF RecordOutcome, TypeOK
<1>12. ASSUME NEW d \in Txs, ReadOverdue(d) PROVE TypeOK'
  <2>1. PICK S \in SUBSET Awaiting : OpenTx(d, [IdleTx EXCEPT !.kind = "sweep", !.calls = S])
    BY <1>12 DEF ReadOverdue
  <2>2. [IdleTx EXCEPT !.kind = "sweep", !.calls = S] \in Tx
    BY IdleType DEF Tx, Kinds, Awaiting
  <2>3. QED
    BY <1>12, <2>1, <2>2, TxType DEF ReadOverdue, TypeOK
<1>13. ASSUME NEW d \in Txs, GiveUpCalls(d) PROVE TypeOK'
  <2>1. tx[d].calls \subseteq Calls
    BY DEF TypeOK, Tx
  <2>2. Cardinality(tx[d].calls) \in Nat
    BY <2>1, ConversationAssumption, FS_Subset, FS_CardinalityType
  <2>3. QED
    BY <1>13, <2>2, EndType DEF GiveUpCalls, TypeOK
<1>14. ASSUME NEW d \in Txs, Abort(d) PROVE TypeOK'
  <2>1. row' \in [Rows -> Row]
    BY <1>14, SetJobType DEF Abort, Jobs, TypeOK
  <2>2. QED
    BY <1>14, <2>1, EndType, EventType DEF Abort, TypeOK
<1>15. ASSUME Receive PROVE TypeOK'
  BY <1>15, IngestType, EventType DEF Receive, TypeOK
<1>16. ASSUME Escalate \/ StopProspect \/ BookMeeting \/ Hold PROVE TypeOK'
  <2>1. budget' \in 0..Budget
    BY <1>16, EventType DEF Escalate, StopProspect, BookMeeting, Hold
  <2>2. open' \in Nat /\ state' \in States
    BY <1>16 DEF Escalate, StopProspect, BookMeeting, Hold, TypeOK, States
  <2>3. held' \in BOOLEAN
    BY <1>16 DEF Escalate, StopProspect, BookMeeting, Hold, TypeOK
  <2>4. QED
    BY <1>16, <2>1, <2>2, <2>3 DEF Escalate, StopProspect, BookMeeting, Hold, TypeOK
<1>17. ASSUME Resolve PROVE TypeOK'
  <2>1. open' \in Nat
    BY <1>17 DEF Resolve, TypeOK
  <2>2. handled' \in BOOLEAN
    BY <1>17 DEF Resolve, TypeOK
  <2>3. QED
    BY <1>17, <2>1, <2>2 DEF Resolve, TypeOK, States
<1>18. ASSUME UNCHANGED vars PROVE TypeOK'
  BY <1>18 DEF vars, TypeOK
<1>20. ASSUME Close PROVE TypeOK'
  <2>1. \A i \in Rows : [row[i] EXCEPT !.job = "cancelled"] \in Row
    BY DEF TypeOK, Row, Jobs
  <2>2. row' \in [Rows -> Row]
    BY <1>20, <2>1 DEF Close, TypeOK
  <2>3. QED
    BY <1>20, <2>2, EventType DEF Close, TypeOK
<1>21. ASSUME NEW d \in Txs, SkipReply(d) PROVE TypeOK'
  BY <1>21, EndType DEF SkipReply, TypeOK
<1>19. QED
  BY <1>1, <1>2, <1>3, <1>4, <1>5, <1>6, <1>7, <1>8, <1>9, <1>10, <1>11, <1>12, <1>13,
     <1>14, <1>15, <1>16, <1>17, <1>18, <1>20, <1>21, StepCases

\* What a step that takes no approval away leaves of the rows.
RowStep == \A i \in Rows :
  /\ row[i].asked > 0 => row'[i].asked > 0
  /\ row'[i].job = "free" => row'[i].asked = 0

\* No approval is taken away, and none is taken up.
LEMMA DecidingSame ==
  ASSUME Deciding, RowStep,
         \A d \in Doing("approve")' : d \in Doing("approve") /\ tx'[d].row = tx[d].row
  PROVE  Deciding'
BY DEF Deciding, RowStep

LEMMA RowStepSame == ASSUME Deciding, row' = row PROVE RowStep
BY DEF Deciding, RowStep

LEMMA RowStepJob ==
  ASSUME TypeOK, Deciding, NEW i, NEW s \in Jobs \ {"free"}, SetJob(i, s) PROVE RowStep
BY DEF SetJob, TypeOK, Row, Deciding, RowStep

LEMMA RowStepIngest == ASSUME TypeOK, Deciding, NEW m, Ingest(m) PROVE RowStep
<1>1. New(FreeRows) \in FreeRows
  BY DEF Ingest, New
<1>2. PICK x : row' = [row EXCEPT ![New(FreeRows)] = x] /\ x.asked = 0
  <2>1. PICK cls : row' = [row EXCEPT ![New(FreeRows)] =
          [mail |-> m, ack |-> cls \in {"unsubscribe", "escalate"},
           job |-> IF cls \in {"ooo", "not_interested"} THEN "none" ELSE "queued",
           sent |-> FALSE, asked |-> 0]]
    BY DEF Ingest
  <2> DEFINE x == [mail |-> m, ack |-> cls \in {"unsubscribe", "escalate"},
                   job |-> IF cls \in {"ooo", "not_interested"} THEN "none" ELSE "queued",
                   sent |-> FALSE, asked |-> 0]
  <2>2. x.asked = 0
    OBVIOUS
  <2>3. row' = [row EXCEPT ![New(FreeRows)] = x]
    BY <2>1
  <2> HIDE DEF x
  <2>4. QED
    BY <2>2, <2>3
<1>3. QED
  BY <1>1, <1>2 DEF FreeRows, TypeOK, Deciding, RowStep

LEMMA RowStepOne ==
  ASSUME TypeOK, Deciding, NEW i, NEW x, row' = [row EXCEPT ![i] = x],
         i \in Rows => x.job # "free" /\ (row[i].asked > 0 => x.asked > 0)
  PROVE  RowStep
<1>1. \A j \in Rows : row'[j] = IF j = i THEN x ELSE row[j]
  BY DEF TypeOK
<1>2. QED
  BY <1>1 DEF Deciding, RowStep

LEMMA RowStepFinish == ASSUME TypeOK, Deciding, NEW d, FinishReply(d) PROVE RowStep
<1> DEFINE i == tx[d].row
           Done == [row[i] EXCEPT !.job = "done"]
           Drafted == [Done EXCEPT !.asked = @ + 1]
           Sent == [Done EXCEPT !.sent = TRUE]
<1>1. \/ \E s \in {"queued", "done"} : SetJob(i, s)
      \/ row' = [row EXCEPT ![i] = Drafted]
      \/ row' = [row EXCEPT ![i] = Sent]
  BY DEF FinishReply
<1> HIDE DEF i
<1>2. ASSUME i \in Rows
      PROVE  /\ Drafted.job = "done" /\ (row[i].asked > 0 => Drafted.asked > 0)
             /\ Sent.job = "done" /\ Sent.asked = row[i].asked
  <2>1. row[i] \in Row
    BY <1>2 DEF TypeOK
  <2>2. Done \in Row /\ Done.job = "done" /\ Done.asked = row[i].asked
    BY <2>1 DEF Row, Jobs
  <2> HIDE DEF Done
  <2>3. Drafted.asked = Done.asked + 1 /\ Drafted.job = Done.job
        /\ Sent.asked = Done.asked /\ Sent.job = Done.job
    BY <2>2 DEF Row
  <2>4. Done.asked \in Nat
    BY <2>2 DEF Row
  <2>5. QED
    BY <2>2, <2>3, <2>4
<1> HIDE DEF Drafted, Sent
<1>3. CASE \E s \in {"queued", "done"} : SetJob(i, s)
  BY <1>3, RowStepJob DEF Jobs
<1>4. CASE row' = [row EXCEPT ![i] = Drafted] \/ row' = [row EXCEPT ![i] = Sent]
  BY <1>2, <1>4, RowStepOne
<1>5. QED
  BY <1>1, <1>3, <1>4

\* The locks keep an approval that is being decided open.
LEMMA DecidingKept == Typed /\ [Next]_vars => Deciding'
<1> SUFFICES ASSUME TypeOK, Deciding, [Next]_vars PROVE Deciding'
  BY DEF Typed
<1> USE DEF thread, desk, admin
<1>1. ASSUME NEW d \in Txs, NEW x, x.kind # "approve", OpenTx(d, x), RowStep PROVE Deciding'
  <2>1. \A e \in Doing("approve")' : e \in Doing("approve") /\ tx'[e] = tx[e]
    BY <1>1 DEF OpenTx, Doing, TypeOK
  <2>2. QED
    BY <1>1, <2>1, DecidingSame
<1>2. ASSUME NEW d \in Txs, EndTx(d), RowStep PROVE Deciding'
  <2>1. OpenTx(d, IdleTx) /\ IdleTx.kind # "approve"
    BY <1>2 DEF EndTx, OpenTx, IdleTx
  <2>2. QED
    BY <1>1, <1>2, <2>1
<1>3. ASSUME tx' = tx, RowStep PROVE Deciding'
  BY <1>3, DecidingSame DEF Doing
<1>4. ASSUME NEW d \in Txs, NEW m \in Mails, ReadMail(d, m) PROVE Deciding'
  <2> DEFINE x == [IdleTx EXCEPT !.kind = "ingest", !.mail = m]
  <2>1. x.kind # "approve" /\ OpenTx(d, x) /\ row' = row
    BY <1>4 DEF ReadMail, IdleTx
  <2>2. QED
    BY <1>1, <2>1, RowStepSame
<1>5. ASSUME NEW d \in Txs, NEW o \in Outcomes, ReadOutcome(d, o) PROVE Deciding'
  <2> DEFINE x == [IdleTx EXCEPT !.kind = "outcome", !.outcome = o, !.calls = Latest]
  <2>1. x.kind # "approve" /\ OpenTx(d, x) /\ row' = row
    BY <1>5 DEF ReadOutcome, IdleTx
  <2>2. QED
    BY <1>1, <2>1, RowStepSame
<1>6. ASSUME NEW d \in Txs, ReadOverdue(d) PROVE Deciding'
  <2>1. PICK S : OpenTx(d, [IdleTx EXCEPT !.kind = "sweep", !.calls = S]) /\ row' = row
    BY <1>6 DEF ReadOverdue
  <2> DEFINE x == [IdleTx EXCEPT !.kind = "sweep", !.calls = S]
  <2>2. x.kind # "approve" /\ OpenTx(d, x)
    BY <2>1 DEF IdleTx
  <2>3. QED
    BY <1>1, <2>1, <2>2, RowStepSame
<1>7. ASSUME NEW d \in Txs, IngestMail(d) PROVE Deciding'
  BY <1>2, <1>7, RowStepIngest DEF IngestMail
<1>8. ASSUME NEW d \in Txs, RecordOutcome(d) \/ GiveUpCalls(d) \/ SkipReply(d) PROVE Deciding'
  BY <1>2, <1>8, RowStepSame DEF RecordOutcome, GiveUpCalls, SkipReply
<1>9. ASSUME NEW d \in Txs, NEW i \in Rows, ClaimReply(d, i) PROVE Deciding'
  <2> DEFINE x == [IdleTx EXCEPT !.kind = "reply", !.row = i]
  <2>1. x.kind # "approve" /\ OpenTx(d, x) /\ SetJob(i, "running")
    BY <1>9 DEF ClaimReply, IdleTx
  <2>2. RowStep
    BY <2>1, RowStepJob DEF Jobs
  <2>3. QED
    BY <1>1, <2>1, <2>2
<1>10. ASSUME NEW d \in Txs, GateReply(d) PROVE Deciding'
  <2>1. tx[d].kind = "reply" /\ row' = row
    BY <1>10 DEF GateReply, Ungated, Judge
  <2>2. PICK v : OpenTx(d, [tx[d] EXCEPT !.verdict = v])
    BY <1>10 DEF GateReply, Judge
  <2> DEFINE x == [tx[d] EXCEPT !.verdict = v]
  <2>3. x.kind # "approve"
    BY <2>1 DEF TypeOK, Tx
  <2>4. QED
    BY <1>1, <2>1, <2>2, <2>3, RowStepSame
<1>11. ASSUME NEW d \in Txs, FinishReply(d) PROVE Deciding'
  BY <1>2, <1>11, RowStepFinish DEF FinishReply
<1>12. ASSUME NEW d \in Txs, NEW i \in Rows, GateApproval(d, i) PROVE Deciding'
  <2>1. /\ Doing("approve") = {} /\ row[i].asked > 0 /\ row' = row
        /\ OpenTx(d, [IdleTx EXCEPT !.kind = "approve", !.row = i, !.verdict = "allow"])
    BY <1>12 DEF GateApproval
  <2>2. tx'[d].row = i /\ \A e \in Txs \ {d} : tx'[e] = tx[e]
    BY <2>1 DEF OpenTx, IdleTx, TypeOK
  <2>3. \A e \in Doing("approve")' : e = d
    BY <2>1, <2>2 DEF Doing
  <2>4. QED
    BY <2>1, <2>2, <2>3 DEF Deciding
<1>13. ASSUME NEW d \in Txs, FinishApproval(d) PROVE Deciding'
  <2>1. EndTx(d) /\ d \in Doing("approve") /\ row' = [row EXCEPT ![tx[d].row].asked = @ - 1]
    BY <1>13 DEF FinishApproval, Doing
  <2>2. Doing("approve")' = {}
    BY <2>1 DEF Deciding, Doing, EndTx, IdleTx, TypeOK
  <2>3. tx[d].row \in Rows /\ row[tx[d].row].asked > 0
    BY <2>1 DEF Deciding
  <2>4. \A i \in Rows : row'[i].job = "free" => row'[i].asked = 0
    BY <2>1, <2>3 DEF Deciding, TypeOK, Row
  <2>5. QED
    BY <2>2, <2>4 DEF Deciding
<1>14. ASSUME NEW d \in Txs, Abort(d) PROVE Deciding'
  <2>1. row' = row \/ \E s \in Jobs \ {"free"} : SetJob(tx[d].row, s)
    BY <1>14 DEF Abort, Jobs
  <2>2. RowStep
    BY <2>1, RowStepSame, RowStepJob
  <2>3. QED
    BY <1>2, <1>14, <2>2 DEF Abort
<1>15. ASSUME NEW i \in Rows, AskRetry(i) \/ Requeue(i) \/ SweepReply(i) PROVE Deciding'
  <2>1. tx' = tx /\ (row' = row \/ SetJob(i, "queued"))
    BY <1>15 DEF AskRetry, Requeue, SweepReply
  <2>2. RowStep
    BY <2>1, RowStepSame, RowStepJob DEF Jobs
  <2>3. QED
    BY <1>3, <2>1, <2>2
<1>16. ASSUME NEW i \in Rows, RejectReply(i) PROVE Deciding'
  <2>1. tx' = tx /\ row' = [row EXCEPT ![i].asked = @ - 1] /\ row[i].asked \in Nat
    BY <1>16 DEF RejectReply, TypeOK, Row
  <2>2. \A j \in Rows \ {i} : row'[j] = row[j]
    BY <2>1 DEF TypeOK
  <2>3. row'[i].asked = row[i].asked - 1 /\ row'[i].job = row[i].job
    BY <2>1 DEF TypeOK, Row
  <2>4. row[i].asked > 0 /\ ((\E d \in Doing("approve") : tx[d].row = i) => row[i].asked > 1)
    BY <1>16, <2>1 DEF RejectReply, OneToDecide
  <2>5. \A d \in Doing("approve") : row'[tx[d].row].asked > 0
    BY <2>1, <2>2, <2>3, <2>4 DEF Deciding
  <2>6. \A j \in Rows : row'[j].job = "free" => row'[j].asked = 0
    BY <2>2, <2>3, <2>4 DEF Deciding
  <2>7. QED
    BY <2>1, <2>5, <2>6 DEF Deciding, Doing
<1>17. ASSUME Receive PROVE Deciding'
  BY <1>3, <1>17, RowStepIngest DEF Receive
<1>18. ASSUME Close PROVE Deciding'
  <2>1. RowStep
    BY <1>18 DEF Close, TypeOK, Row, Deciding, RowStep
  <2>2. QED
    BY <1>3, <1>18, <2>1 DEF Close
<1>19. ASSUME \/ \E v \in Voices : ApproveVoice(v) \/ RejectVoice(v)
              \/ Escalate \/ Resolve \/ StopProspect \/ BookMeeting \/ Hold \/ UNCHANGED vars
       PROVE  Deciding'
  <2>1. tx' = tx /\ row' = row
    BY <1>19 DEF ApproveVoice, RejectVoice, Escalate, Resolve, StopProspect, BookMeeting, Hold, vars
  <2>2. QED
    BY <1>3, <2>1, RowStepSame
<1>20. QED
  BY <1>4, <1>5, <1>6, <1>7, <1>8, <1>9, <1>10, <1>11, <1>12, <1>13, <1>14, <1>15, <1>16,
     <1>17, <1>18, <1>19, StepCases

LEMMA InitDeciding == Init => Deciding
BY DEF Init, Deciding, Doing, IdleTx, FreeRow

\* The variables keep their types, for any number of messages, calls and
\* transactions (the rows of replies.py, voice.py and dronahq.py): no approval
\* is decided that is not open, no escalation closed that was not.
THEOREM ConversationTypeCorrect == Spec => []TypeOK
<1>1. Init => Typed
  BY InitTyped, InitDeciding DEF Typed
<1>2. Typed /\ [Next]_vars => Typed'
  BY TypePreserved, DecidingKept DEF Typed
<1>3. Typed => TypeOK
  BY DEF Typed
<1>4. QED
  BY <1>1, <1>2, <1>3, PTL DEF Spec

-----------------------------------------------------------------------------
(* An escalated prospect has an open escalation.                           *)

LEMMA EscalatedPreserved ==
  TypeOK /\ EscalatedIsOpen /\ [Next]_vars => EscalatedIsOpen'
<1> SUFFICES ASSUME TypeOK, EscalatedIsOpen, [Next]_vars PROVE EscalatedIsOpen'
  OBVIOUS
<1> USE DEF thread, desk, admin
<1>1. ASSUME NEW m, Ingest(m) PROVE EscalatedIsOpen'
  BY <1>1 DEF Ingest, After, PlanCall, EscalatedIsOpen, TypeOK
<1>2. ASSUME NEW d \in Txs, GiveUpCalls(d) PROVE EscalatedIsOpen'
  <2>1. Cardinality(tx[d].calls) \in Nat
    <3>1. IsFiniteSet(tx[d].calls)
      BY ConversationAssumption, FS_Subset DEF TypeOK, Tx
    <3>2. QED
      BY <3>1, FS_CardinalityType
  <2>2. open' = open + Cardinality(tx[d].calls) /\ state' = state
    BY <1>2 DEF GiveUpCalls
  <2>3. QED
    BY <2>1, <2>2 DEF EscalatedIsOpen, TypeOK
<1>3. ASSUME NEW d \in Txs, RecordOutcome(d) PROVE EscalatedIsOpen'
  BY <1>3 DEF RecordOutcome, AfterCall, EscalatedIsOpen, TypeOK
<1>4. ASSUME NEW d \in Txs, IngestMail(d) PROVE EscalatedIsOpen'
  BY <1>1, <1>4 DEF IngestMail
<1>5. ASSUME Receive PROVE EscalatedIsOpen'
  BY <1>1, <1>5 DEF Receive
<1>6. ASSUME Escalate \/ Resolve \/ StopProspect \/ BookMeeting \/ Hold \/ Close PROVE EscalatedIsOpen'
  BY <1>6 DEF Escalate, Resolve, StopProspect, BookMeeting, Hold, Close, EscalatedIsOpen, TypeOK
<1>7. ASSUME NEW v \in Voices, ApproveVoice(v) \/ RejectVoice(v) PROVE EscalatedIsOpen'
  BY <1>7 DEF ApproveVoice, PlaceCall, Dispatched, Scripted, RejectVoice, EscalatedIsOpen
<1>8. ASSUME UNCHANGED <<state, open>> PROVE EscalatedIsOpen'
  BY <1>8 DEF EscalatedIsOpen
<1>9. ASSUME NEW d \in Txs,
             \/ \E m \in Mails : ReadMail(d, m)
             \/ \E i \in Rows : ClaimReply(d, i)
             \/ SkipReply(d) \/ GateReply(d) \/ FinishReply(d)
             \/ \E i \in Rows : GateApproval(d, i)
             \/ FinishApproval(d)
             \/ \E o \in Outcomes : ReadOutcome(d, o)
             \/ ReadOverdue(d) \/ Abort(d)
      PROVE  UNCHANGED <<state, open>>
  BY <1>9 DEF ReadMail, ClaimReply, SkipReply, GateReply, Judge, FinishReply, GateApproval,
              FinishApproval, ReadOutcome, ReadOverdue, Abort
<1>10. ASSUME NEW i \in Rows, AskRetry(i) \/ Requeue(i) \/ SweepReply(i) \/ RejectReply(i) PROVE UNCHANGED <<state, open>>
  BY <1>10 DEF AskRetry, Requeue, SweepReply, RejectReply
<1>11. CASE UNCHANGED vars
  BY <1>8, <1>11 DEF vars
<1>12. CASE Next
  BY <1>2, <1>3, <1>4, <1>5, <1>6, <1>7, <1>8, <1>9, <1>10, <1>12, StepCases
<1>13. QED
  BY <1>11, <1>12

\* However an enrollment came to be escalated, somebody has an escalation to
\* close (ingest_reply, ingest_outcome, escalate_manually, resolve_escalation).
THEOREM EscalationsStayOpen == Spec => []EscalatedIsOpen
<1>1. Init => EscalatedIsOpen
  BY DEF Init, EscalatedIsOpen
<1>2. QED
  BY <1>1, EscalatedPreserved, ConversationTypeCorrect, PTL DEF Spec

-----------------------------------------------------------------------------
(* One call at most waits for approval.                                    *)

LEMMA PlanOpensOne ==
  ASSUME TypeOK, PlanCall PROVE OneVoiceApproval'
<1>1. OpenVoices' \subseteq {New(FreeVoices)}
  BY DEF PlanCall, OpenVoices, TypeOK
<1>2. IsFiniteSet({New(FreeVoices)}) /\ Cardinality({New(FreeVoices)}) = 1
  BY FS_Singleton
<1>3. QED
  BY <1>1, <1>2, FS_Subset DEF OneVoiceApproval

\* A step that opens no approval leaves at most those that were open.
LEMMA FewerOpen ==
  ASSUME OneVoiceApproval, OpenVoices' \subseteq OpenVoices
  PROVE  OneVoiceApproval'
<1>1. IsFiniteSet(OpenVoices)
  BY ConversationAssumption, FS_Subset DEF OpenVoices
<1>2. Cardinality(OpenVoices') <= Cardinality(OpenVoices)
  BY <1>1, FS_Subset
<1>3. Cardinality(OpenVoices') \in Nat /\ Cardinality(OpenVoices) \in Nat
  BY <1>1, FS_Subset, FS_CardinalityType
<1>4. QED
  BY <1>2, <1>3 DEF OneVoiceApproval

LEMMA OneVoicePreserved ==
  TypeOK /\ OneVoiceApproval /\ [Next]_vars => OneVoiceApproval'
<1> SUFFICES ASSUME TypeOK, OneVoiceApproval, [Next]_vars PROVE OneVoiceApproval'
  OBVIOUS
<1> USE DEF thread, desk, admin
<1>1. ASSUME UNCHANGED voice PROVE OneVoiceApproval'
  BY <1>1, FewerOpen DEF OpenVoices
<1>2. ASSUME NEW m, Ingest(m) PROVE OneVoiceApproval'
  <2>1. UNCHANGED voice \/ PlanCall
    BY <1>2 DEF Ingest
  <2>2. QED
    BY <1>1, <2>1, PlanOpensOne
<1>3. ASSUME NEW v \in Voices, ApproveVoice(v) \/ RejectVoice(v) PROVE OneVoiceApproval'
  <2>1. OpenVoices' \subseteq OpenVoices
    BY <1>3 DEF ApproveVoice, RejectVoice, OpenVoices, TypeOK
  <2>2. QED
    BY <2>1, FewerOpen
<1>4. ASSUME NEW d \in Txs, IngestMail(d) PROVE OneVoiceApproval'
  BY <1>2, <1>4 DEF IngestMail
<1>5. ASSUME Receive PROVE OneVoiceApproval'
  BY <1>2, <1>5 DEF Receive
<1>6. ASSUME NEW d \in Txs,
             \/ \E m \in Mails : ReadMail(d, m)
             \/ \E i \in Rows : ClaimReply(d, i)
             \/ SkipReply(d) \/ GateReply(d) \/ FinishReply(d)
             \/ \E i \in Rows : GateApproval(d, i)
             \/ FinishApproval(d)
             \/ \E o \in Outcomes : ReadOutcome(d, o)
             \/ RecordOutcome(d) \/ ReadOverdue(d) \/ GiveUpCalls(d) \/ Abort(d)
      PROVE  UNCHANGED voice
  BY <1>6 DEF ReadMail, ClaimReply, SkipReply, GateReply, Judge, FinishReply, GateApproval,
              FinishApproval, ReadOutcome, RecordOutcome, ReadOverdue, GiveUpCalls, Abort
<1>7. ASSUME \/ \E i \in Rows : AskRetry(i) \/ Requeue(i) \/ SweepReply(i) \/ RejectReply(i)
             \/ Escalate \/ Resolve \/ StopProspect \/ BookMeeting \/ Hold \/ Close
      PROVE  UNCHANGED voice
  BY <1>7 DEF AskRetry, Requeue, SweepReply, RejectReply, Escalate, Resolve, StopProspect, BookMeeting, Hold, Close
<1>8. CASE UNCHANGED vars
  BY <1>1, <1>8 DEF vars
<1>9. CASE Next
  BY <1>1, <1>3, <1>4, <1>5, <1>6, <1>7, <1>9, StepCases
<1>10. QED
  BY <1>8, <1>9

\* plan_call() looks for an open approval and inserts one under the lock of the
\* enrollment, so a manager never has two calls to decide.
THEOREM OneCallWaits == Spec => []OneVoiceApproval
<1>1. Init => OneVoiceApproval
  <2>1. Init => OpenVoices = {}
    BY DEF Init, OpenVoices
  <2>2. QED
    BY <2>1, FS_EmptySet DEF OneVoiceApproval
<1>2. QED
  BY <1>1, OneVoicePreserved, ConversationTypeCorrect, PTL DEF Spec

-----------------------------------------------------------------------------
(* Who may still send after the opt-out.                                   *)

Sending == {"reply", "approve"}

\* A transaction that sends is about a stored message; an approval's was allowed.
Busy == \A d \in Txs :
  /\ tx[d].kind \in Sending => tx[d].row \in Rows /\ row[tx[d].row].job # "free"
  /\ tx[d].kind = "approve" => tx[d].verdict = "allow"

\* One reply is past its gate, one approval is decided.
OnePast == \A d, e \in Txs :
  tx[d].kind \in Sending /\ tx[e].kind = tx[d].kind /\ tx[d].verdict # "none" /\ tx[e].verdict # "none"
    => d = e

\* Before the opt-out no message is late, and while the gate's consent to a
\* message other than a confirmation is still to be used, none of its kind is.
Last ==
  /\ ~suppressed => \A k \in Sending : late[k] = 0
  /\ \A d \in Txs :
       tx[d].kind \in Sending /\ tx[d].verdict = "allow" /\ ~row[tx[d].row].ack
         => late[tx[d].kind] = 0

StragglerInv == TypeOK /\ Deciding /\ Busy /\ OnePast /\ Last /\ OneStraggler

\* A stored message keeps its status and what it confirms.
RowsKept == \A i \in Rows :
  row[i].job # "free" => row'[i].job # "free" /\ row'[i].ack = row[i].ack

LEMMA SetJobKeeps ==
  ASSUME TypeOK, NEW i, NEW s \in Jobs \ {"free"}, SetJob(i, s) PROVE RowsKept
BY DEF TypeOK, Row, SetJob, RowsKept

LEMMA IngestKeeps ==
  ASSUME TypeOK, NEW m, Ingest(m) PROVE RowsKept /\ (suppressed => suppressed')
<1>1. New(FreeRows) \in FreeRows
  BY DEF Ingest, New
<1>2. PICK x : row' = [row EXCEPT ![New(FreeRows)] = x]
  BY DEF Ingest
<1>3. RowsKept
  BY <1>1, <1>2 DEF TypeOK, FreeRows, RowsKept
<1>4. QED
  BY <1>3 DEF Ingest

\* No step frees a row, and the suppression list only grows.
LEMMA StepKeeps ==
  ASSUME TypeOK, [Next]_vars PROVE RowsKept /\ (suppressed => suppressed')
<1> USE DEF thread, desk, admin
<1>1. ASSUME UNCHANGED row PROVE RowsKept
  BY <1>1 DEF RowsKept
<1>2. CASE \E d \in Txs : IngestMail(d)
  BY <1>2, IngestKeeps DEF IngestMail
<1>3. CASE Receive
  BY <1>3, IngestKeeps DEF Receive
<1>4. CASE \E d \in Txs, i \in Rows : ClaimReply(d, i)
  BY <1>4, SetJobKeeps DEF ClaimReply, Jobs
<1>5. ASSUME NEW d \in Txs, FinishReply(d) PROVE RowsKept /\ suppressed' = suppressed
  <2> DEFINE i == tx[d].row
             Done == [row[i] EXCEPT !.job = "done"]
  <2>1. suppressed' = suppressed
    BY <1>5 DEF FinishReply
  <2>2. \/ \E s \in {"queued", "done"} : SetJob(i, s)
        \/ row' = [row EXCEPT ![i] = [Done EXCEPT !.asked = @ + 1]]
        \/ row' = [row EXCEPT ![i] = [Done EXCEPT !.sent = TRUE]]
    BY <1>5 DEF FinishReply
  <2>3. i \in Rows => /\ [Done EXCEPT !.asked = @ + 1].job = "done"
                      /\ [Done EXCEPT !.asked = @ + 1].ack = row[i].ack
                      /\ [Done EXCEPT !.sent = TRUE].job = "done"
                      /\ [Done EXCEPT !.sent = TRUE].ack = row[i].ack
    BY DEF TypeOK, Row
  <2> HIDE DEF i, Done
  <2>4. RowsKept
    BY <2>2, <2>3, SetJobKeeps DEF TypeOK, RowsKept, Jobs
  <2>5. QED
    BY <2>1, <2>4
<1>6. CASE \E d \in Txs : FinishApproval(d)
  BY <1>6 DEF FinishApproval, TypeOK, Row, RowsKept
<1>7. CASE \E i \in Rows : Requeue(i) \/ SweepReply(i) \/ RejectReply(i)
  <2>1. ASSUME NEW i \in Rows, Requeue(i) \/ SweepReply(i) PROVE RowsKept /\ suppressed' = suppressed
    BY <2>1, SetJobKeeps DEF Requeue, SweepReply, Jobs
  <2>2. ASSUME NEW i \in Rows, RejectReply(i) PROVE RowsKept /\ suppressed' = suppressed
    BY <2>2 DEF RejectReply, TypeOK, Row, RowsKept
  <2>3. QED
    BY <1>7, <2>1, <2>2
<1>12. CASE Close
  BY <1>12 DEF Close, TypeOK, Row, RowsKept
<1>8. CASE \E d \in Txs : Abort(d)
  <2>1. PICK d \in Txs : Abort(d)
    BY <1>8
  <2>2. UNCHANGED suppressed
    BY <2>1 DEF Abort
  <2>3. UNCHANGED row \/ \E s \in {"queued", "failed"} : SetJob(tx[d].row, s)
    BY <2>1 DEF Abort
  <2>4. QED
    BY <2>2, <2>3, <1>1, SetJobKeeps DEF Jobs
<1>9. CASE \E d \in Txs :
             \/ \E m \in Mails : ReadMail(d, m)
             \/ SkipReply(d) \/ GateReply(d) \/ \E i \in Rows : GateApproval(d, i)
             \/ \E o \in Outcomes : ReadOutcome(d, o)
             \/ RecordOutcome(d) \/ ReadOverdue(d) \/ GiveUpCalls(d)
  <2>1. UNCHANGED <<row, suppressed>>
    BY <1>9 DEF ReadMail, SkipReply, GateReply, Judge, GateApproval, ReadOutcome, RecordOutcome,
                ReadOverdue, GiveUpCalls
  <2>2. QED
    BY <2>1, <1>1
<1>10. CASE \/ \E i \in Rows : AskRetry(i)
            \/ \E v \in Voices : ApproveVoice(v) \/ RejectVoice(v)
            \/ Escalate \/ Resolve \/ StopProspect \/ BookMeeting \/ Hold \/ UNCHANGED vars
  BY <1>10, <1>1 DEF AskRetry, ApproveVoice, RejectVoice, Escalate, Resolve, StopProspect, BookMeeting,
                     Hold, vars
<1>11. QED
  BY <1>2, <1>3, <1>4, <1>5, <1>6, <1>7, <1>8, <1>9, <1>10, <1>12, StepCases

\* How a step may change the transactions and the count of late messages.
TxStep ==
  \/ UNCHANGED <<tx, late>>
  \/ \E d \in Txs, x \in Tx :
       /\ OpenTx(d, x) /\ UNCHANGED late
       /\ x.kind \in Sending => x.kind = "reply" /\ x.verdict = "none" /\ x.row \in Rows
                                /\ row'[x.row].job # "free"
  \/ \E d \in Txs : GateReply(d)
  \/ \E d \in Txs : FinishReply(d)
  \/ \E d \in Txs, i \in Rows : GateApproval(d, i)
  \/ \E d \in Txs : FinishApproval(d)

LEMMA TxStepCases == ASSUME TypeOK, [Next]_vars PROVE TxStep
<1> USE DEF thread, desk, admin
<1>1. ASSUME NEW d \in Txs, EndTx(d), UNCHANGED late PROVE TxStep
  <2>1. OpenTx(d, IdleTx) /\ IdleTx.kind \notin Sending
    BY <1>1 DEF EndTx, OpenTx, IdleTx, Sending
  <2>2. QED
    BY <2>1, <1>1, IdleType DEF TxStep
<1>2. ASSUME NEW d \in Txs, NEW m \in Mails, ReadMail(d, m) PROVE TxStep
  <2> DEFINE x == [IdleTx EXCEPT !.kind = "ingest", !.mail = m]
  <2>1. x \in Tx /\ x.kind \notin Sending
    BY IdleType DEF Tx, Kinds, Sending
  <2>2. OpenTx(d, x) /\ UNCHANGED late
    BY <1>2 DEF ReadMail
  <2>3. QED
    BY <2>1, <2>2 DEF TxStep
<1>3. ASSUME NEW d \in Txs, NEW i \in Rows, ClaimReply(d, i) PROVE TxStep
  <2> DEFINE x == [IdleTx EXCEPT !.kind = "reply", !.row = i]
  <2>1. x \in Tx /\ x.kind = "reply" /\ x.verdict = "none" /\ x.row = i
    BY IdleType DEF Tx, Kinds, IdleTx
  <2>2. OpenTx(d, x) /\ UNCHANGED late /\ row'[i].job # "free"
    BY <1>3 DEF ClaimReply, SetJob, TypeOK, Row
  <2>3. QED
    BY <2>1, <2>2 DEF TxStep
<1>4. ASSUME NEW d \in Txs, NEW o \in Outcomes, ReadOutcome(d, o) PROVE TxStep
  <2> DEFINE x == [IdleTx EXCEPT !.kind = "outcome", !.outcome = o, !.calls = Latest]
  <2>1. x \in Tx /\ x.kind \notin Sending
    BY IdleType DEF Tx, Kinds, Sending, Latest, Awaiting
  <2>2. OpenTx(d, x) /\ UNCHANGED late
    BY <1>4 DEF ReadOutcome
  <2>3. QED
    BY <2>1, <2>2 DEF TxStep
<1>5. ASSUME NEW d \in Txs, ReadOverdue(d) PROVE TxStep
  <2>1. PICK S \in SUBSET Awaiting : OpenTx(d, [IdleTx EXCEPT !.kind = "sweep", !.calls = S])
    BY <1>5 DEF ReadOverdue
  <2> DEFINE x == [IdleTx EXCEPT !.kind = "sweep", !.calls = S]
  <2>2. x \in Tx /\ x.kind \notin Sending
    BY IdleType DEF Tx, Kinds, Sending, Awaiting
  <2>3. OpenTx(d, x) /\ UNCHANGED late
    BY <1>5, <2>1 DEF ReadOverdue
  <2>4. QED
    BY <2>2, <2>3 DEF TxStep
<1>6. ASSUME NEW d \in Txs, IngestMail(d) \/ RecordOutcome(d) \/ GiveUpCalls(d) \/ SkipReply(d) \/ Abort(d)
      PROVE  TxStep
  BY <1>1, <1>6 DEF IngestMail, SkipReply, RecordOutcome, GiveUpCalls, Abort
<1>7. ASSUME \/ \E i \in Rows : AskRetry(i) \/ Requeue(i) \/ SweepReply(i) \/ RejectReply(i)
             \/ \E v \in Voices : ApproveVoice(v) \/ RejectVoice(v)
             \/ Receive \/ Escalate \/ Resolve \/ StopProspect \/ BookMeeting \/ Hold \/ Close
             \/ UNCHANGED vars
      PROVE  UNCHANGED <<tx, late>>
  BY <1>7 DEF AskRetry, Requeue, SweepReply, RejectReply, ApproveVoice, RejectVoice, Receive, Escalate, Resolve,
              StopProspect, BookMeeting, Hold, Close, vars
<1>8. QED
  BY <1>2, <1>3, <1>4, <1>5, <1>6, <1>7, StepCases DEF TxStep

\* A transaction that was sending is about the same message after the step.
LEMMA SameMessage ==
  ASSUME StragglerInv, RowsKept, NEW d \in Txs, tx[d].kind \in Sending
  PROVE  row'[tx[d].row].job # "free" /\ row'[tx[d].row].ack = row[tx[d].row].ack
BY DEF StragglerInv, Busy, RowsKept

LEMMA StragglerPreserved == StragglerInv /\ [Next]_vars => StragglerInv'
<1> SUFFICES ASSUME StragglerInv, [Next]_vars PROVE StragglerInv'
  OBVIOUS
<1>1. TypeOK /\ TypeOK' /\ Deciding /\ Deciding'
  BY TypePreserved, DecidingKept DEF StragglerInv, Typed
<1>2. RowsKept /\ (suppressed => suppressed') /\ TxStep
  BY <1>1, StepKeeps, TxStepCases
<1>3. CASE UNCHANGED <<tx, late>>
  BY <1>1, <1>2, <1>3, SameMessage
     DEF StragglerInv, Busy, OnePast, Last, OneStraggler
<1>4. ASSUME NEW d \in Txs, NEW x \in Tx, OpenTx(d, x), UNCHANGED late,
             x.kind \in Sending => x.kind = "reply" /\ x.verdict = "none" /\ x.row \in Rows
                                   /\ row'[x.row].job # "free"
      PROVE  StragglerInv'
  <2>1. tx'[d] = x /\ \A e \in Txs \ {d} : tx'[e] = tx[e]
    BY <1>1, <1>4 DEF OpenTx, TypeOK
  <2>2. Busy' /\ OnePast'
    BY <1>2, <1>4, <2>1, SameMessage DEF StragglerInv, Busy, OnePast, Sending
  <2>3. Last'
    BY <1>2, <1>4, <2>1, SameMessage DEF StragglerInv, Last
  <2>4. QED
    BY <1>1, <1>4, <2>2, <2>3 DEF StragglerInv, OneStraggler
<1>5. ASSUME NEW d \in Txs, GateReply(d) PROVE StragglerInv'
  <2>1. UNCHANGED <<row, suppressed, late>> /\ Ungated(d)
        /\ \A e \in Txs \ {d} : tx[e].kind = "reply" => tx[e].verdict = "none"
    BY <1>5 DEF SkipReply, GateReply, Judge, Doing, thread
  <2>2. PICK other \in BOOLEAN, ask \in BOOLEAN :
          OpenTx(d, [tx[d] EXCEPT !.verdict = Verdict(row[tx[d].row].ack, other, ask)])
    BY <1>5 DEF SkipReply, GateReply, Judge
  <2> DEFINE v == Verdict(row[tx[d].row].ack, other, ask)
  <2>3. row[tx[d].row].ack \in BOOLEAN
    BY <1>1, <2>1 DEF Ungated, StragglerInv, Busy, Sending, TypeOK, Row
  <2>4. v = "allow" => ~suppressed \/ row[tx[d].row].ack
    BY <1>1, <2>3, VerdictType DEF TypeOK
  <2> HIDE DEF v
  <2>5. /\ tx'[d].kind = "reply" /\ tx'[d].row = tx[d].row /\ tx'[d].verdict = v
        /\ \A e \in Txs \ {d} : tx'[e] = tx[e]
    BY <1>1, <2>1, <2>2 DEF OpenTx, TypeOK, Tx, Ungated, v
  <2>6. Busy'
    BY <2>1, <2>5 DEF StragglerInv, Busy, Ungated
  <2>7. OnePast'
    BY <2>1, <2>5 DEF StragglerInv, OnePast, Ungated
  <2>8. Last'
    BY <2>1, <2>4, <2>5 DEF StragglerInv, Last, Ungated
  <2>9. QED
    BY <1>1, <2>1, <2>6, <2>7, <2>8 DEF StragglerInv, OneStraggler
<1>6. ASSUME NEW d \in Txs, NEW i \in Rows, GateApproval(d, i) PROVE StragglerInv'
  <2>1. /\ UNCHANGED <<row, suppressed, late>> /\ row[i].job # "free"
        /\ \A e \in Txs : tx[e].kind # "approve"
    BY <1>1, <1>6 DEF GateApproval, Doing, thread, Deciding
  <2>2. ~suppressed
    BY <1>6 DEF GateApproval, Verdict
  <2>3. /\ tx'[d].kind = "approve" /\ tx'[d].row = i /\ tx'[d].verdict = "allow"
        /\ \A e \in Txs \ {d} : tx'[e] = tx[e]
    BY <1>1, <1>6 DEF GateApproval, OpenTx, TypeOK, IdleTx
  <2>4. Busy' /\ OnePast'
    BY <2>1, <2>3 DEF StragglerInv, Busy, OnePast
  <2>5. Last'
    BY <2>1, <2>2, <2>3 DEF StragglerInv, Last
  <2>6. QED
    BY <1>1, <2>1, <2>4, <2>5 DEF StragglerInv, OneStraggler
<1>7. ASSUME NEW d \in Txs, NEW k \in Sending, tx[d].kind = k, EndTx(d), UNCHANGED suppressed,
             UNCHANGED late \/ (tx[d].verdict = "allow" /\ Leaves(k, row[tx[d].row].ack))
      PROVE  StragglerInv'
  <2>1. /\ tx'[d].kind \notin Sending
        /\ \A e \in Txs \ {d} : tx'[e] = tx[e]
    BY <1>1, <1>7 DEF EndTx, TypeOK, IdleTx, Sending
  <2>2. Busy' /\ OnePast'
    BY <1>2, <2>1, SameMessage DEF StragglerInv, Busy, OnePast, Sending
  <2>3. CASE UNCHANGED late
    BY <1>1, <1>2, <1>7, <2>1, <2>2, <2>3, SameMessage DEF StragglerInv, Last, OneStraggler
  <2>4. CASE ~UNCHANGED late
    <3>1. /\ tx[d].verdict = "allow" /\ suppressed /\ ~row[tx[d].row].ack
          /\ late' = [late EXCEPT ![k] = @ + 1]
      BY <1>7, <2>4 DEF Leaves
    <3>2. late[k] = 0
      BY <1>7, <3>1 DEF StragglerInv, Last
    <3>3. late'[k] = 1 /\ \A l \in Sending \ {k} : late'[l] = late[l]
      BY <1>1, <3>1, <3>2 DEF TypeOK, Sending
    <3>4. OneStraggler'
      BY <1>1, <3>3 DEF StragglerInv, OneStraggler, TypeOK, Sending
    <3>5. ASSUME NEW e \in Txs \ {d}, tx[e].kind = k PROVE tx[e].verdict = "none"
      BY <1>7, <3>1, <3>5 DEF StragglerInv, OnePast
    <3>6. Last'
      BY <1>2, <1>7, <2>1, <3>1, <3>3, <3>5, SameMessage DEF StragglerInv, Last
    <3>7. QED
      BY <1>1, <2>2, <3>4, <3>6 DEF StragglerInv
  <2>5. QED
    BY <2>3, <2>4
<1>8. ASSUME NEW d \in Txs, FinishReply(d) PROVE StragglerInv'
  BY <1>7, <1>8 DEF FinishReply, Sending, desk
<1>9. ASSUME NEW d \in Txs, FinishApproval(d) PROVE StragglerInv'
  <2>1. tx[d].verdict = "allow"
    BY <1>9 DEF FinishApproval, StragglerInv, Busy
  <2>2. QED
    BY <1>7, <1>9, <2>1 DEF FinishApproval, Sending, desk
<1>10. QED
  BY <1>2, <1>3, <1>4, <1>5, <1>6, <1>8, <1>9 DEF TxStep

\* An opt-out stops the conversation but for one reply and one approval past
\* their gates (send_reply, approve_item and the locks of gate.py).
THEOREM RepliesStraggle == Spec => []OneStraggler
<1>1. Init => StragglerInv
  BY InitTyped, InitDeciding DEF Init, IdleTx, StragglerInv, Busy, OnePast, Last, OneStraggler, Sending
<1>2. StragglerInv => OneStraggler
  BY DEF StragglerInv
<1>3. QED
  BY <1>1, <1>2, StragglerPreserved, PTL DEF Spec

-----------------------------------------------------------------------------
(* No confirmation is refused: what AckLeaves needs besides fairness.      *)

\* The gate's refusals are of messages that acknowledge nothing.
NoAckRefused == \A d \in Txs :
  tx[d].kind = "reply" /\ tx[d].verdict = "refuse" => ~row[tx[d].row].ack

LEMMA NoAckRefusedKept ==
  ASSUME TypeOK, Busy, NoAckRefused, [Next]_vars PROVE NoAckRefused'
<1>1. RowsKept /\ TxStep
  BY StepKeeps, TxStepCases
<1>2. ASSUME NEW e \in Txs, tx'[e] = tx[e], tx'[e].kind = "reply", tx'[e].verdict = "refuse"
      PROVE  ~row'[tx'[e].row].ack
  BY <1>1, <1>2 DEF Busy, Sending, RowsKept, NoAckRefused
<1>3. ASSUME NEW d \in Txs, \A e \in Txs \ {d} : tx'[e] = tx[e],
             tx'[d].kind = "reply" /\ tx'[d].verdict = "refuse" => ~row'[tx'[d].row].ack
      PROVE  NoAckRefused'
  BY <1>2, <1>3 DEF NoAckRefused
<1>4. CASE UNCHANGED tx
  BY <1>2, <1>4 DEF NoAckRefused
<1>5. ASSUME NEW d \in Txs, NEW x \in Tx, OpenTx(d, x), x.kind \in Sending => x.verdict = "none"
      PROVE  NoAckRefused'
  <2>1. tx'[d] = x /\ \A e \in Txs \ {d} : tx'[e] = tx[e]
    BY <1>5 DEF OpenTx, TypeOK
  <2>2. QED
    BY <1>3, <1>5, <2>1 DEF Sending
<1>6. ASSUME NEW d \in Txs, GateReply(d) PROVE NoAckRefused'
  <2>1. row' = row
    BY <1>6 DEF GateReply, Judge, thread
  <2>2. PICK other \in BOOLEAN, ask \in BOOLEAN :
          OpenTx(d, [tx[d] EXCEPT !.verdict = Verdict(row[tx[d].row].ack, other, ask)])
    BY <1>6 DEF GateReply, Judge
  <2> DEFINE v == Verdict(row[tx[d].row].ack, other, ask)
  <2>3. v = "refuse" => ~row[tx[d].row].ack
    BY DEF Verdict
  <2> HIDE DEF v
  <2>4. /\ tx'[d].row = tx[d].row /\ tx'[d].verdict = v
        /\ \A e \in Txs \ {d} : tx'[e] = tx[e]
    BY <2>2 DEF OpenTx, TypeOK, Tx, v
  <2>5. QED
    BY <1>3, <2>1, <2>3, <2>4
<1>7. ASSUME NEW d \in Txs, FinishReply(d) \/ FinishApproval(d) PROVE NoAckRefused'
  <2>1. tx'[d].kind = "idle" /\ \A e \in Txs \ {d} : tx'[e] = tx[e]
    BY <1>7 DEF FinishReply, FinishApproval, EndTx, IdleTx, TypeOK
  <2>2. QED
    BY <1>3, <2>1
<1>8. ASSUME NEW d \in Txs, NEW i \in Rows, GateApproval(d, i) PROVE NoAckRefused'
  <2>1. tx'[d].kind = "approve" /\ \A e \in Txs \ {d} : tx'[e] = tx[e]
    BY <1>8 DEF GateApproval, OpenTx, IdleTx, TypeOK
  <2>2. QED
    BY <1>3, <2>1
<1>9. QED
  BY <1>1, <1>4, <1>5, <1>6, <1>7, <1>8 DEF TxStep

\* The gate never answers the confirmation of an opt-out or of an escalation
\* with a refusal, whatever the campaign, the claims and the quotas are by the
\* time it is judged: it holds it back, asks a manager, or lets it leave
\* (send_reply() and its exemption).
THEOREM ConfirmationsAreNotRefused == Spec => []NoAckRefused
<1>1. Init => StragglerInv /\ NoAckRefused
  BY InitTyped, InitDeciding
     DEF Init, IdleTx, StragglerInv, Busy, OnePast, Last, OneStraggler, Sending, NoAckRefused
<1>2. StragglerInv /\ NoAckRefused /\ [Next]_vars => StragglerInv' /\ NoAckRefused'
  BY StragglerPreserved, NoAckRefusedKept DEF StragglerInv
<1>3. QED
  BY <1>1, <1>2, PTL DEF Spec

-----------------------------------------------------------------------------
(* A call that has its outcome awaits none again: what CallSettles needs    *)
(* besides fairness.                                                        *)

SettlesOnce ==
  [][\A c \in Calls : call[c] \notin {"free", "awaiting"} => call'[c] \notin {"free", "awaiting"}]_vars

Below(S, x) == {y \in S : y <= x}

\* A finite set of numbers has a smallest: the one below which there is the
\* smallest part of the set.
LEMMA Smallest ==
  ASSUME NEW S, S \subseteq Nat, IsFiniteSet(S), S # {}
  PROVE  \E x \in S : \A y \in S : x <= y
<1> DEFINE T == {Below(S, x) : x \in S}
<1>1. T # {} /\ T \subseteq SUBSET S
  BY DEF Below
<1>2. IsWellFoundedOn(StrictSubsetOrdering(S), SUBSET S)
  BY FS_StrictSubsetOrderingWellFounded, FS_FiniteSubsetsOfFinite
<1> HIDE DEF T
<1>3. PICK m \in T : \A n \in T : ~(<<n, m>> \in StrictSubsetOrdering(S))
  BY <1>1, <1>2, WFMin
<1>4. PICK x \in S : m = Below(S, x)
  BY DEF T
<1>5. ASSUME NEW y \in S, y < x PROVE FALSE
  <2>1. x \in Nat /\ y \in Nat /\ x <= x /\ ~(x <= y) /\ \A z \in S : z <= y => z <= x
    BY <1>5
  <2>2. Below(S, y) \subseteq Below(S, x) /\ x \in Below(S, x) /\ x \notin Below(S, y)
    BY <2>1 DEF Below
  <2>3. <<Below(S, y), Below(S, x)>> \in StrictSubsetOrdering(S)
    BY <2>2 DEF StrictSubsetOrdering, Below
  <2>4. QED
    BY <1>3, <1>4, <2>3 DEF T
<1>6. \A y \in S : x \in Nat /\ y \in Nat /\ (y < x \/ x <= y)
  OBVIOUS
<1>7. QED
  BY <1>5, <1>6

\* The number a new call gets is free.
LEMMA NextCallIsFree ==
  ASSUME CallLeft
  PROVE  NextCall \in FreeCalls
<1>1. FreeCalls \subseteq Nat /\ IsFiniteSet(FreeCalls)
  BY ConversationAssumption, FS_Subset DEF FreeCalls
<1> DEFINE pending == {d \in Doing("outcome") : tx[d].calls = {}}
<1>2. IsFiniteSet(pending)
  BY ConversationAssumption, FS_Subset DEF Doing
<1>3. Cardinality(FreeCalls) \in Nat /\ Cardinality(pending) \in Nat
  BY <1>1, <1>2, FS_CardinalityType
<1>4. Cardinality(FreeCalls) > Cardinality(pending)
  BY DEF CallLeft
<1> HIDE DEF pending
<1>5. FreeCalls # {}
  BY <1>3, <1>4, FS_EmptySet
<1>6. \E c \in FreeCalls : \A x \in FreeCalls : c <= x
  BY <1>1, <1>5, Smallest
<1>7. QED
  BY <1>6 DEF NextCall

LEMMA StepSettles ==
  ASSUME TypeOK, [Next]_vars, NEW c \in Calls, call[c] \notin {"free", "awaiting"}
  PROVE  call'[c] \notin {"free", "awaiting"}
<1> USE DEF thread, desk, admin
<1>1. ASSUME NEW v \in Voices, ApproveVoice(v) PROVE call'[c] = call[c]
  <2>1. NextCall \in FreeCalls
    BY <1>1, NextCallIsFree DEF ApproveVoice
  <2>2. c # NextCall
    BY <2>1 DEF FreeCalls
  <2>3. QED
    BY <1>1, <2>2 DEF ApproveVoice, PlaceCall, Dispatched, Scripted, TypeOK
<1>2. ASSUME NEW d \in Txs, RecordOutcome(d) PROVE call'[c] \in Outcomes \cup {call[c]}
  BY <1>2 DEF RecordOutcome, SetOutcome, TypeOK, Tx
<1>3. ASSUME NEW d \in Txs, GiveUpCalls(d) PROVE call'[c] \in {"unknown", call[c]}
  BY <1>3 DEF GiveUpCalls
<1>4. ASSUME NEW d \in Txs, \/ \E m \in Mails : ReadMail(d, m)
                            \/ IngestMail(d)
                            \/ \E i \in Rows : ClaimReply(d, i) \/ GateApproval(d, i)
                            \/ SkipReply(d) \/ GateReply(d) \/ FinishReply(d) \/ FinishApproval(d)
                            \/ \E o \in Outcomes : ReadOutcome(d, o)
                            \/ ReadOverdue(d) \/ Abort(d)
      PROVE  call' = call
  BY <1>4 DEF ReadMail, IngestMail, ClaimReply, GateApproval, SkipReply, GateReply, Judge, FinishReply,
              FinishApproval, ReadOutcome, ReadOverdue, Abort
<1>5. ASSUME \/ \E i \in Rows : AskRetry(i) \/ Requeue(i) \/ SweepReply(i) \/ RejectReply(i)
             \/ \E v \in Voices : RejectVoice(v)
             \/ Receive \/ Escalate \/ Resolve \/ StopProspect \/ BookMeeting \/ Hold \/ Close
             \/ UNCHANGED vars
      PROVE  call' = call
  BY <1>5 DEF AskRetry, Requeue, SweepReply, RejectReply, RejectVoice, Receive, Escalate, Resolve, StopProspect,
              BookMeeting, Hold, Close, vars
<1>6. call'[c] \in Outcomes \cup {"unknown", call[c]}
  BY <1>1, <1>2, <1>3, <1>4, <1>5, StepCases
<1>7. QED
  BY <1>6 DEF Outcomes

\* However calls, webhooks and sweeps overlap, a call that was settled stays
\* so, by an outcome or by the sweep: a new call never takes its row
\* (place_call() and ingest_outcome() of voice.py, sweep_awaiting_outcome() of
\* dronahq.py).
THEOREM CallsSettleOnce == Spec => SettlesOnce
<1>1. TypeOK /\ [Next]_vars =>
        [\A c \in Calls : call[c] \notin {"free", "awaiting"} => call'[c] \notin {"free", "awaiting"}]_vars
  BY StepSettles
<1>2. QED
  BY <1>1, ConversationTypeCorrect, PTL DEF Spec, SettlesOnce
=============================================================================
