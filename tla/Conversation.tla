---------------------------- MODULE Conversation ----------------------------
(***************************************************************************)
(* The conversation with one enrolled prospect: inbound messages read and  *)
(* answered, replies and calls that wait for a manager, outcomes the voice *)
(* service posts, calls nobody reports on, and the escalations a person    *)
(* closes (backend/orchestrator/replies.py, voice.py, dronahq.py,          *)
(* backend/channels/inbound.py, backend/mcp/tools.py).                     *)
(*                                                                         *)
(* A transaction whose decision rests on a read that another one may       *)
(* change before its writes is split there: the look for a mail already    *)
(* stored, the gate of a reply or an approval, the look for the call an    *)
(* outcome is about, the list of overdue calls. What is left is one action *)
(* per handler.                                                            *)
(***************************************************************************)
EXTENDS Integers, FiniteSets

CONSTANTS
  Mails,   \* emails in the mailbox: their external ids
  Rows,    \* ids the inbound messages may have
  Voices,  \* ids the voice approvals may have
  Calls,   \* ids the calls may have, given in their order
  Txs,     \* transactions open at once: worker threads and API requests
  Budget,  \* bound: events from outside (texts, stops, switches, failures, ...)
  None

ASSUME ConversationAssumption ==
  /\ IsFiniteSet(Rows) /\ IsFiniteSet(Voices) /\ IsFiniteSet(Calls) /\ IsFiniteSet(Txs)
  /\ Rows \cup Voices \cup Calls \subseteq Nat \ {0}
  /\ None \notin Mails
  /\ Budget \in Nat

VARIABLES
  state,       \* enrollments.state
  slots,       \* enrollments.slots: slots were offered
  row,         \* inbound messages: their mail, their reply job, its messages
  voice,       \* approvals of kind voice
  call,        \* calls.disposition
  open,        \* escalations that are open
  handled,     \* some escalation was resolved
  suppressed,  \* the prospect is on the suppression list
  held,        \* the campaign is paused, its Writer off or the kill switch on
  closed,      \* the campaign is completed or archived
  asking,      \* open retry requests that have read a reply job as failed
  tx,          \* the open transactions
  late,        \* history: messages that left after the opt-out
  budget       \* bound: outside events left

thread == <<state, slots, row>>
desk   == <<voice, call, open, handled>>
admin  == <<held, closed, asking>>
vars   == <<thread, desk, suppressed, admin, tx, late, budget>>

States   == {"contacted", "replied", "awaiting_voice", "escalated", "meeting", "stopped", "opted_out"}
Classes  == {"ooo", "unsubscribe", "escalate", "not_interested", "positive", "book", "objection"}
Outcomes == {"interested", "callback", "not_interested", "escalate"}
Jobs     == {"free", "none", "queued", "running", "failed", "done", "cancelled"}
Verdicts == {"none", "hold", "refuse", "ask", "allow"}
Kinds    == {"idle", "ingest", "reply", "approve", "outcome", "sweep"}

\* An inbound message: whether its reply is an acknowledgement, the status of
\* the reply's job, whether a message went out under the reply's idempotency
\* key, and how many approvals of drafted replies are open.
Row == [mail : Mails \cup {None}, ack : BOOLEAN, job : Jobs, sent : BOOLEAN, asked : Nat]

\* An open transaction: the mail it reads, the reply it sends, the calls it is
\* about, the outcome it records and the gate's verdict.
Tx == [kind : Kinds, mail : Mails \cup {None}, row : Rows \cup {0},
       calls : SUBSET Calls, outcome : Outcomes, verdict : Verdicts]

IdleTx == [kind |-> "idle", mail |-> None, row |-> 0, calls |-> {},
           outcome |-> "callback", verdict |-> "none"]
FreeRow == [mail |-> None, ack |-> FALSE, job |-> "free", sent |-> FALSE, asked |-> 0]

TypeOK ==
  /\ state \in States /\ slots \in BOOLEAN
  /\ row \in [Rows -> Row]
  /\ voice \in [Voices -> {"free", "open", "approved", "rejected"}]
  /\ call \in [Calls -> {"free", "awaiting", "unknown"} \cup Outcomes]
  /\ open \in Nat /\ handled \in BOOLEAN
  /\ suppressed \in BOOLEAN /\ held \in BOOLEAN /\ closed \in BOOLEAN
  /\ asking \in [Rows -> Nat]
  /\ tx \in [Txs -> Tx]
  /\ late \in [{"reply", "approve"} -> Nat]
  /\ budget \in 0..Budget

Init ==
  /\ state = "contacted" /\ slots = FALSE
  /\ row = [i \in Rows |-> FreeRow]
  /\ voice = [v \in Voices |-> "free"]
  /\ call = [c \in Calls |-> "free"]
  /\ open = 0 /\ handled = FALSE
  /\ suppressed = FALSE /\ held = FALSE /\ closed = FALSE
  /\ asking = [i \in Rows |-> 0]
  /\ tx = [d \in Txs |-> IdleTx]
  /\ late = [k \in {"reply", "approve"} |-> 0]
  /\ budget = Budget

-----------------------------------------------------------------------------
(* The rows a handler reads, and its transaction.                          *)

Idle(d)    == tx[d].kind = "idle"
Doing(k)   == {d \in Txs : tx[d].kind = k}
OpenTx(d, x) == tx' = [tx EXCEPT ![d] = x]
EndTx(d)   == tx' = [tx EXCEPT ![d] = IdleTx]
Event      == budget > 0 /\ budget' = budget - 1

FreeRows   == {i \in Rows : row[i].job = "free"}
Awaiting   == {c \in Calls : call[c] = "awaiting"}
FreeCalls  == {c \in Calls : call[c] = "free"}
FreeVoices == {v \in Voices : voice[v] = "free"}
OpenVoices == {v \in Voices : voice[v] = "open"}

\* A bound: an id is left for each transaction that may need one.
RowLeft  == Cardinality(FreeRows) > Cardinality(Doing("ingest"))
AskLeft(i) == asking[i] < Cardinality(Txs)
CallLeft == Cardinality(FreeCalls) > Cardinality({d \in Doing("outcome") : tx[d].calls = {}})

\* A fresh id; those of calls are given in order, so the greatest is the latest.
New(S)   == CHOOSE x \in S : TRUE
NextCall == CHOOSE c \in FreeCalls : \A x \in FreeCalls : c <= x
Latest   == {c \in Awaiting : \A x \in Awaiting : x <= c}

SetJob(i, s) == row' = [row EXCEPT ![i].job = s]

\* A mutant: the acknowledgement of an opt-out is not exempt.
VerdictAckBound(ack, other, ask) ==
  CASE held /\ ~(closed /\ other) -> "hold"
    [] suppressed \/ other \/ closed -> "refuse"
    [] ask -> "ask"
    [] OTHER -> "allow"

\* gate.evaluate() for a reply, and send_reply()'s exemption: a block, defer or
\* replan lets an acknowledgement go. other stands for the checks the model
\* has no state for (channel, claim, quotas), ask for the campaign's approval
\* rule. In a closed campaign the kill switch still holds, the Writer does not.
Verdict(ack, other, ask) ==
  CASE held /\ ~(closed /\ other) -> "hold"
    [] (suppressed /\ ~ack) \/ other \/ closed -> IF ack THEN "allow" ELSE "refuse"
    [] ask -> "ask"
    [] OTHER -> "allow"

\* A message of kind k leaves. An acknowledgement, of an opt-out or of an
\* escalation, is meant to leave after the opt-out too and is not counted.
Leaves(k, ack) == late' = IF suppressed /\ ~ack THEN [late EXCEPT ![k] = @ + 1] ELSE late

-----------------------------------------------------------------------------
(* ingest_reply().                                                         *)

\* What the class of a message, by rule or by model, makes of the enrollment.
Warm(cls) == cls = "positive" \/ (cls = "book" /\ ~slots)
After(cls) ==
  CASE cls = "ooo"            -> state
    [] cls = "unsubscribe"    -> "opted_out"
    [] cls = "escalate"       -> "escalated"
    [] cls = "not_interested" -> "stopped"
    [] cls = "book" /\ slots  -> "meeting"
    [] OTHER                  -> "replied"

\* plan_call(): nothing while a voice approval is open.
PlanCall ==
  /\ OpenVoices = {}
  /\ FreeVoices # {}
  /\ voice' = [voice EXCEPT ![New(FreeVoices)] = "open"]
  /\ state' = "awaiting_voice"

\* The inbound row, the state, and the reply job unless the class gets no
\* answer. A warm reply may plan a call as well. The advisory lock of the
\* enrollment orders two of these, as the row they update first would.
Ingest(m) ==
  \E cls \in Classes :
    /\ FreeRows # {}
    /\ row' = [row EXCEPT ![New(FreeRows)] =
         [mail |-> m, ack |-> cls \in {"unsubscribe", "escalate"},
          job |-> IF cls \in {"ooo", "not_interested"} THEN "none" ELSE "queued",
          sent |-> FALSE, asked |-> 0]]
    /\ suppressed' = (suppressed \/ cls = "unsubscribe")
    /\ slots' = (slots \/ Warm(cls))
    /\ open' = IF cls = "escalate" THEN open + 1 ELSE open
    /\ \/ state' = After(cls) /\ UNCHANGED voice
       \/ Warm(cls) /\ PlanCall

\* process_email(): the mail is not stored yet, as this poll sees it.
ReadMail(d, m) ==
  /\ Idle(d) /\ RowLeft
  /\ \A i \in Rows : row[i].mail # m
  /\ OpenTx(d, [IdleTx EXCEPT !.kind = "ingest", !.mail = m])
  /\ UNCHANGED <<thread, desk, suppressed, admin, late, budget>>

IngestMail(d) ==
  /\ tx[d].kind = "ingest"
  /\ Ingest(tx[d].mail)
  /\ EndTx(d)
  /\ UNCHANGED <<call, handled, admin, late, budget>>

\* The SMS webhook and POST /inbound: no look for a message already stored.
Receive ==
  /\ Event /\ RowLeft
  /\ Ingest(None)
  /\ UNCHANGED <<call, handled, admin, tx, late>>

-----------------------------------------------------------------------------
(* send_reply(): the claim of the job, the gate behind the prospect's lock, *)
(* and one commit for each verdict.                                         *)

\* claim() takes the queued jobs of live campaigns.
ClaimReply(d, i) ==
  /\ Idle(d) /\ row[i].job = "queued" /\ ~held /\ ~closed
  /\ SetJob(i, "running")
  /\ OpenTx(d, [IdleTx EXCEPT !.kind = "reply", !.row = i])
  /\ UNCHANGED <<state, slots, desk, suppressed, admin, late, budget>>

Ungated(d) == tx[d].kind = "reply" /\ tx[d].verdict = "none"

\* run_one() finds the claimed job no longer running. Past that look nothing
\* tells the run that its job was queued again or given to another.
SkipReply(d) ==
  /\ Ungated(d) /\ row[tx[d].row].job # "running"
  /\ EndTx(d)
  /\ UNCHANGED <<thread, desk, suppressed, admin, late, budget>>

Judge(d) ==
  /\ \E other, ask \in BOOLEAN :
       OpenTx(d, [tx[d] EXCEPT !.verdict = Verdict(row[tx[d].row].ack, other, ask)])
  /\ UNCHANGED <<thread, desk, suppressed, admin, late, budget>>

GateReply(d) ==
  /\ Ungated(d)
  /\ \A x \in Doing("reply") \ {d} : tx[x].verdict = "none"
  /\ Judge(d)

\* The job is put back, or done: refused, drafted for a manager without an
\* idempotency key, or sent under the key, which a second run finds taken.
\* Each writes the job whatever it has become.
FinishReply(d) ==
  /\ tx[d].kind = "reply"
  /\ LET i == tx[d].row
         Done == [row[i] EXCEPT !.job = "done"]
     IN
     \/ tx[d].verdict = "hold"   /\ SetJob(i, "queued") /\ UNCHANGED late
     \/ tx[d].verdict = "refuse" /\ SetJob(i, "done") /\ UNCHANGED late
     \/ /\ tx[d].verdict = "ask"
        /\ row' = [row EXCEPT ![i] = [Done EXCEPT !.asked = @ + 1]]
        /\ UNCHANGED late
     \/ tx[d].verdict = "allow" /\ row[i].sent /\ SetJob(i, "done") /\ UNCHANGED late
     \/ /\ tx[d].verdict = "allow" /\ ~row[i].sent
        /\ row' = [row EXCEPT ![i] = [Done EXCEPT !.sent = TRUE]]
        /\ Leaves("reply", row[i].ack)
  /\ EndTx(d)
  /\ UNCHANGED <<state, slots, desk, suppressed, admin, budget>>

\* POST /agent-runs/{id}/retry looks for a failed job without locking it, and
\* then queues the job whatever it has become.
AskRetry(i) ==
  /\ row[i].job = "failed" /\ AskLeft(i)
  /\ asking' = [asking EXCEPT ![i] = @ + 1]
  /\ UNCHANGED <<thread, desk, suppressed, held, closed, tx, late, budget>>

Requeue(i) ==
  /\ asking[i] > 0
  /\ asking' = [asking EXCEPT ![i] = @ - 1]
  /\ SetJob(i, "queued")
  /\ UNCHANGED <<state, slots, desk, suppressed, held, closed, tx, late, budget>>

\* maintenance(): a job that has run for three minutes is queued again, its
\* worker alive or not.
SweepReply(i) ==
  /\ Event /\ row[i].job = "running"
  /\ SetJob(i, "queued")
  /\ UNCHANGED <<state, slots, desk, suppressed, admin, tx, late>>

-----------------------------------------------------------------------------
(* approve_item() and reject_item().                                       *)

\* A mutant: the approval's row and the quotas are not locked.
GateApprovalNoLock(d, i) ==
  /\ Idle(d) /\ row[i].asked > 0
  /\ Verdict(FALSE, FALSE, FALSE) = "allow"
  /\ OpenTx(d, [IdleTx EXCEPT !.kind = "approve", !.row = i, !.verdict = "allow"])
  /\ UNCHANGED <<thread, desk, suppressed, admin, late, budget>>

\* The approval's row and the quota locks, then the gate, without the rule on
\* approvals and without the exemption of an acknowledgement. A refusal keeps
\* the approval open and changes nothing.
GateApproval(d, i) ==
  /\ Idle(d) /\ row[i].asked > 0 /\ Doing("approve") = {}
  /\ Verdict(FALSE, FALSE, FALSE) = "allow"
  /\ OpenTx(d, [IdleTx EXCEPT !.kind = "approve", !.row = i, !.verdict = "allow"])
  /\ UNCHANGED <<thread, desk, suppressed, admin, late, budget>>

FinishApproval(d) ==
  /\ tx[d].kind = "approve"
  /\ row' = [row EXCEPT ![tx[d].row].asked = @ - 1]
  /\ Leaves("approve", row[tx[d].row].ack)
  /\ EndTx(d)
  /\ UNCHANGED <<state, slots, desk, suppressed, admin, budget>>

\* An open approval of the row is not the one a transaction has locked.
OneToDecide(i) ==
  row[i].asked > IF \E d \in Doing("approve") : tx[d].row = i THEN 1 ELSE 0

\* reject_item() does not look whether the approval is still open: one decided
\* before is rejected again, which the rows kept here do not show.
RejectReply(i) ==
  /\ OneToDecide(i)
  /\ row' = [row EXCEPT ![i].asked = @ - 1]
  /\ UNCHANGED <<state, slots, desk, suppressed, admin, tx, late, budget>>

RejectVoice(v) ==
  /\ voice[v] # "free"
  /\ voice' = [voice EXCEPT ![v] = "rejected"]
  /\ state' = "replied"
  /\ UNCHANGED <<slots, row, call, open, handled, suppressed, admin, tx, late, budget>>

\* trigger_call(): the voice service takes the call, which awaits its outcome.
Dispatched == call' = [call EXCEPT ![NextCall] = "awaiting"] /\ UNCHANGED state

\* record_call(): the script is interested and books a meeting.
Scripted == call' = [call EXCEPT ![NextCall] = "interested"] /\ state' = "meeting"

\* place_call(): the script, where telephony is off or refuses the call.
PlaceCall == Dispatched \/ Scripted

\* No gate stands before the call.
ApproveVoice(v) ==
  /\ voice[v] = "open" /\ CallLeft
  /\ voice' = [voice EXCEPT ![v] = "approved"]
  /\ PlaceCall
  /\ UNCHANGED <<slots, row, open, handled, suppressed, admin, tx, late, budget>>

-----------------------------------------------------------------------------
(* ingest_outcome() and sweep_awaiting_outcome().                          *)

\* The latest call that awaits an outcome. With none the outcome is of a call
\* not placed here; a stored one with its disposition and recording is
\* returned and nothing changes.
ReadOutcome(d, o) ==
  /\ Event /\ Idle(d)
  /\ Awaiting = {} => CallLeft
  /\ OpenTx(d, [IdleTx EXCEPT !.kind = "outcome", !.outcome = o, !.calls = Latest])
  /\ UNCHANGED <<thread, desk, suppressed, admin, late>>

\* What an outcome makes of the enrollment.
AfterCall(o) ==
  CASE o = "interested"     -> "meeting"
    [] o = "not_interested" -> "stopped"
    [] o = "escalate"       -> "escalated"
    [] OTHER                -> state

\* The call is written by its id, whatever it has become since it was read.
SetOutcome(d) ==
  LET about == IF tx[d].calls = {} THEN {NextCall} ELSE tx[d].calls
  IN call' = [c \in Calls |-> IF c \in about THEN tx[d].outcome ELSE call[c]]

\* A mutant: the outcome that asks for a person opens no escalation.
RecordOutcomeQuietly(d) ==
  /\ tx[d].kind = "outcome"
  /\ SetOutcome(d)
  /\ state' = AfterCall(tx[d].outcome)
  /\ EndTx(d)
  /\ UNCHANGED <<slots, row, voice, open, handled, suppressed, admin, late, budget>>

RecordOutcome(d) ==
  /\ tx[d].kind = "outcome"
  /\ SetOutcome(d)
  /\ state' = AfterCall(tx[d].outcome)
  /\ open' = IF tx[d].outcome = "escalate" THEN open + 1 ELSE open
  /\ EndTx(d)
  /\ UNCHANGED <<slots, row, voice, handled, suppressed, admin, late, budget>>

\* A mutant: the sweep goes by the enrollment's state, not by its calls.
ReadOverdueByState(d) ==
  /\ Idle(d) /\ state = "awaiting_voice"
  /\ \E S \in SUBSET Awaiting \ {{}} :
       OpenTx(d, [IdleTx EXCEPT !.kind = "sweep", !.calls = S])
  /\ UNCHANGED <<thread, desk, suppressed, admin, late, budget>>

\* The calls that have waited for ten minutes.
ReadOverdue(d) ==
  /\ Idle(d)
  /\ \E S \in SUBSET Awaiting \ {{}} :
       OpenTx(d, [IdleTx EXCEPT !.kind = "sweep", !.calls = S])
  /\ UNCHANGED <<thread, desk, suppressed, admin, late, budget>>

\* Each is written by its id and gets an escalation; the enrollment keeps its
\* state.
GiveUpCalls(d) ==
  /\ tx[d].kind = "sweep"
  /\ call' = [c \in Calls |-> IF c \in tx[d].calls THEN "unknown" ELSE call[c]]
  /\ open' = open + Cardinality(tx[d].calls)
  /\ EndTx(d)
  /\ UNCHANGED <<thread, voice, handled, suppressed, admin, late, budget>>

-----------------------------------------------------------------------------
(* People and tools.                                                       *)

\* escalate_manually() and the create_escalation tool.
Escalate ==
  /\ Event
  /\ state' = "escalated" /\ open' = open + 1
  /\ UNCHANGED <<slots, row, voice, call, handled, suppressed, admin, tx, late>>

\* A mutant: a resolved escalation counts as resolved once more.
ResolveTwice ==
  /\ open > 0 \/ handled
  /\ open' = open - 1 /\ handled' = TRUE
  /\ state' = "replied"
  /\ UNCHANGED <<slots, row, voice, call, suppressed, admin, tx, late, budget>>

\* resolve_escalation(): an open one is closed; one resolved before is resolved
\* again. Either hands the enrollment back.
Resolve ==
  /\ \/ open > 0 /\ open' = open - 1 /\ handled' = TRUE
     \/ handled /\ UNCHANGED <<open, handled>>
  /\ state' = "replied"
  /\ UNCHANGED <<slots, row, voice, call, suppressed, admin, tx, late, budget>>

\* stop_prospect(); the book_meeting tool, Calendly's webhook.
StopProspect ==
  /\ Event /\ state' = "stopped"
  /\ UNCHANGED <<slots, row, desk, suppressed, admin, tx, late>>

BookMeeting ==
  /\ Event /\ state' = "meeting"
  /\ UNCHANGED <<slots, row, desk, suppressed, admin, tx, late>>

Hold ==
  /\ Event /\ held' = ~held
  /\ UNCHANGED <<thread, desk, suppressed, closed, asking, tx, late>>

\* close() cancels what is queued; a job queued afterwards stays where it is.
Close ==
  /\ Event /\ ~closed /\ closed' = TRUE
  /\ row' = [i \in Rows |-> IF row[i].job = "queued" THEN [row[i] EXCEPT !.job = "cancelled"]
                                                     ELSE row[i]]
  /\ UNCHANGED <<state, slots, desk, suppressed, held, asking, tx, late>>

\* A transaction fails or its process dies: nothing it wrote stays. A reply
\* job goes back to the queue or, on its last attempt, fails.
Abort(d) ==
  /\ Event /\ ~Idle(d)
  /\ IF tx[d].kind = "reply" THEN \E s \in {"queued", "failed"} : SetJob(tx[d].row, s)
                             ELSE UNCHANGED row
  /\ EndTx(d)
  /\ UNCHANGED <<state, slots, desk, suppressed, admin, late>>

-----------------------------------------------------------------------------
ReplyStep(d) ==
  (\E i \in Rows : ClaimReply(d, i)) \/ SkipReply(d) \/ GateReply(d) \/ FinishReply(d)

DeskStep(d) ==
  (\E i \in Rows : GateApproval(d, i)) \/ FinishApproval(d)

CallStep(d) ==
  (\E o \in Outcomes : ReadOutcome(d, o)) \/ RecordOutcome(d) \/ ReadOverdue(d) \/ GiveUpCalls(d)

MailStep(d) == (\E m \in Mails : ReadMail(d, m)) \/ IngestMail(d)

Next ==
  \/ \E d \in Txs : MailStep(d) \/ ReplyStep(d) \/ DeskStep(d) \/ CallStep(d) \/ Abort(d)
  \/ \E i \in Rows : AskRetry(i) \/ Requeue(i) \/ SweepReply(i) \/ RejectReply(i)
  \/ \E v \in Voices : ApproveVoice(v) \/ RejectVoice(v)
  \/ Receive \/ Escalate \/ Resolve \/ StopProspect \/ BookMeeting \/ Hold \/ Close

\* What a transaction does once it is open.
Commit(d) == IngestMail(d) \/ FinishReply(d) \/ FinishApproval(d) \/ RecordOutcome(d) \/ GiveUpCalls(d)

\* An open transaction goes on to its end, the prospect's lock included; the
\* worker claims what is queued and every tick looks for overdue calls.
\* Managers, prospects and the voice service owe nothing.
Fairness ==
  /\ \A d \in Txs : WF_vars(Commit(d) \/ GateReply(d))
  /\ WF_vars(\E d \in Txs, i \in Rows : ClaimReply(d, i))
  /\ WF_vars(\E d \in Txs : ReadOverdue(d))

Spec     == Init /\ [][Next]_vars
FairSpec == Spec /\ Fairness

-----------------------------------------------------------------------------
\* An enrollment in the state escalated has an open escalation somebody will
\* find: replies.py, voice.py, dronahq.py and the MCP tool write the two in
\* several orders, and an escalation may be resolved twice.
EscalatedIsOpen == state = "escalated" => open > 0

\* At most one call waits for a manager's approval, however many warm replies
\* arrive and whatever was decided before (replies.py, plan_call).
OneVoiceApproval == Cardinality(OpenVoices) <= 1

\* After the opt-out at most the one reply and the one approval already past
\* their gate still leave, acknowledgements aside: also when the sweep or a late
\* retry has two transactions send the same reply. It is the prospect's lock
\* and the quota locks that keep it to one each.
OneStraggler == \A k \in DOMAIN late : late[k] <= 1

\* The acknowledgement of an opt-out or an escalation leaves, unless the
\* campaign is held or closed, its rule asks a manager, or the channel fails
\* for good.
AckLeaves ==
  \A i \in Rows :
    (row[i].job = "queued" /\ row[i].ack)
      ~> (row[i].sent \/ row[i].asked > 0 \/ row[i].job = "failed" \/ held \/ closed)

\* A live call does not await its outcome for ever: one arrives or the sweep
\* gives it up.
CallSettles == \A c \in Calls : (call[c] = "awaiting") ~> (call[c] # "awaiting")

\* docs/execution-plan.md:790: a call is placed only after the Guardian allows
\* it. A live call is never placed to a prospect who opted out, nor while the
\* campaign is held.
CallsAreGated ==
  [][\A c \in Calls : call[c] # "awaiting" /\ call'[c] = "awaiting" => ~suppressed /\ ~held]_vars
=============================================================================
