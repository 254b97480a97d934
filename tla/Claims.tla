------------------------------- MODULE Claims -------------------------------
(***************************************************************************)
(* The campaigns that enrolled one prospect compete for its contact claim  *)
(* (backend/conflicts/claims.py): research and qualification jobs          *)
(* (backend/orchestrator/handlers.py), the ladder, conflicts and their     *)
(* manager, the endings that release the claim (replies.py).               *)
(*                                                                         *)
(* A qualification judges (a slow call), decides with the claim it reads   *)
(* then, and commits: any other transaction may commit between the         *)
(* decision and its commit. The other handlers are one action each: what   *)
(* they read before they work does not change what they write. A job may   *)
(* come back: the sweep queues one whose worker is only slow, and a        *)
(* manager retries one given up, twice at once if two requests read it     *)
(* before either wrote.                                                    *)
(***************************************************************************)
EXTENDS Integers, FiniteSets

CONSTANTS
  Campaigns,   \* the campaigns that enrolled the prospect
  Priority,    \* campaigns.priority
  Customers,   \* campaigns of the customer-relationship template
  Scores,      \* scores of the qualified band
  Txs,         \* transactions open at once: worker threads and API requests
  Repeats,     \* bound: jobs that may be given up or run again
  Budget,      \* bound: events from outside (replies, stops, decisions, ...)
  None

ASSUME ClaimsAssumption ==
  /\ IsFiniteSet(Campaigns) /\ None \notin Campaigns
  /\ Priority \in [Campaigns -> Nat] /\ Customers \subseteq Campaigns
  /\ Scores \subseteq Nat /\ None \notin Scores /\ Scores # {} /\ Budget \in Nat

VARIABLES
  state,       \* enrollments.state
  score,       \* enrollments.score
  sent,        \* campaigns with an outbound message
  talked,      \* campaigns with an inbound message
  pending,     \* campaigns whose plan has pending steps
  queued,      \* queued jobs: campaign and step
  failed,      \* jobs given up after their attempts
  late,        \* jobs that a second request to retry them read while failed
  rerun,       \* history: campaigns whose judgement was queued a second time
  review,      \* the open borderline approvals of each campaign
  judged,      \* campaigns whose borderline approval was decided
  active,      \* contact_claims with status 'active'
  row,         \* conflicts by (holder, challenger): the statuses on file
  suppressed,  \* the prospect is on the suppression list
  closed,      \* campaigns completed or archived
  deleted,     \* campaigns erased
  tx,          \* the open transactions
  budget       \* bound: outside events left

enrolled == <<state, score, sent, talked, pending>>
jobs     == <<queued, failed, late, rerun>>
claims   == <<active, row>>
world    == <<suppressed, closed, deleted, judged>>
vars     == <<enrolled, jobs, review, claims, world, tx, budget>>

States   == {"new", "researched", "rejected", "borderline", "qualified", "deferred", "contacted", "replied", "ended"}
Ended    == {"rejected", "ended"}
Verdicts == {"none", "reject", "borderline", "block", "own", "create", "win", "hold", "tie"}
Pairs    == Campaigns \X Campaigns
Jobs     == Campaigns \X {"research", "qualify", "plan"}

\* An open transaction: its handler, the holder it read, what it decided.
Tx == [step : {"idle", "qualify", "review"}, camp : Campaigns \cup {None},
       saw : Campaigns \cup {None}, verdict : Verdicts, score : Scores \cup {None}]

Idle == [step |-> "idle", camp |-> None, saw |-> None, verdict |-> "none", score |-> None]

TypeOK ==
  /\ state \in [Campaigns -> States]
  /\ score \in [Campaigns -> Scores \cup {None}]
  /\ sent \subseteq Campaigns /\ talked \subseteq Campaigns /\ pending \subseteq Campaigns
  /\ queued \subseteq Jobs /\ failed \subseteq Jobs /\ late \subseteq Jobs
  /\ rerun \subseteq Campaigns
  /\ review \in [Campaigns -> Nat] /\ judged \subseteq Campaigns
  /\ active \subseteq Campaigns
  /\ row \in [Pairs -> SUBSET {"open", "logged", "resolved"}]
  /\ suppressed \in BOOLEAN /\ closed \subseteq Campaigns /\ deleted \subseteq closed
  /\ tx \in [Txs -> Tx]
  /\ budget \in 0..Budget

Init ==
  /\ state = [c \in Campaigns |-> "new"]
  /\ score = [c \in Campaigns |-> None]
  /\ sent = {} /\ talked = {} /\ pending = {}
  /\ queued = Campaigns \X {"research"} /\ failed = {} /\ late = {}
  /\ rerun = {} /\ review = [c \in Campaigns |-> 0] /\ judged = {}
  /\ active = {} /\ row = [p \in Pairs |-> {}]
  /\ suppressed = FALSE /\ closed = {} /\ deleted = {}
  /\ tx = [t \in Txs |-> Idle]
  /\ budget = Budget

-----------------------------------------------------------------------------
(* The claim. *)

IsCustomer(c) == c \in Customers

LadderSilent(h, c, s) ==
  IF IsCustomer(c) /\ ~IsCustomer(h) THEN {"win"}
  ELSE IF IsCustomer(h) THEN {"hold"}
  ELSE IF Priority[h] # Priority[c] THEN {IF Priority[h] > Priority[c] THEN "hold" ELSE "win"}
  ELSE {"hold", "tie"}

\* The ladder between the holder h and the challenger c with score s: the
\* verdicts it can give the challenger. The last rung compares times.
Ladder(h, c, s) ==
  IF h \in talked THEN {"hold"}
  ELSE IF IsCustomer(c) /\ ~IsCustomer(h) THEN {"win"}
  ELSE IF IsCustomer(h) THEN {"hold"}
  ELSE IF Priority[h] # Priority[c] THEN {IF Priority[h] > Priority[c] THEN "hold" ELSE "win"}
  ELSE IF score[h] # None /\ s # None /\ score[h] # s THEN {IF score[h] > s THEN "hold" ELSE "win"}
  ELSE {"hold", "tie"}

\* resolve_claim() as far as it reads: the verdicts for c with score s.
Resolve(c, s) ==
  IF suppressed THEN {"block"}
  ELSE IF active = {} THEN {"create"}
  ELSE IF c \in active THEN {"own"}
  ELSE UNION {Ladder(h, c, s) : h \in active}

\* add_conflict(): one unresolved row per ordered pair.
AddConflict(h, c, status) ==
  row' = IF row[<<h, c>>] \cap {"open", "logged"} # {} THEN row
         ELSE [row EXCEPT ![<<h, c>>] = @ \cup {status}]

\* release_claim(): the holder's claim ends and one deferred enrollment is
\* woken. S is the state the caller left, Q the queue.
ReleaseClaim(c, S, Q) ==
  LET waiting == {o \in Campaigns \ {c} : S[o] = "deferred"}
  IN IF c \notin active
     THEN active' = active /\ state' = S /\ queued' = Q
     ELSE /\ active' = active \ {c}
          /\ IF waiting = {} THEN state' = S /\ queued' = Q
             ELSE \E o \in waiting :
                    /\ state' = [S EXCEPT ![o] = "qualified"]
                    /\ queued' = Q \cup {<<o, "plan">>}

\* A job that has decided holds the lock of its enrollment's row.
Locked(c) == \E t \in Txs : tx[t].camp = c /\ tx[t].step = "qualify"

Outside == budget > 0 /\ budget' = budget - 1

-----------------------------------------------------------------------------
(* Jobs. *)

Qualify(c) == <<c, "qualify">>

\* The job leaves the queue and enqueues others; or the sweep took its slow
\* worker for a dead one, and another worker has the job as well.
Done(j, others) ==
  \/ queued' = (queued \ {j}) \cup others /\ UNCHANGED <<rerun, budget>>
  \/ /\ j \in Repeats /\ queued' = queued \cup others /\ Outside
     /\ rerun' = IF j[2] = "plan" THEN rerun ELSE rerun \cup {j[1]}

\* do_research(): the state is set whatever it became meanwhile.
Research(c) ==
  /\ <<c, "research">> \in queued /\ c \notin closed
  /\ state' = [state EXCEPT ![c] = "researched"]
  /\ Done(<<c, "research">>, {Qualify(c)})
  /\ UNCHANGED <<score, sent, talked, pending, failed, late, review, claims, world, tx>>

\* do_qualify() up to the claim: the prospect is rejected, sent to review, or
\* decided against the claim as the job reads it. finish_job() waits for another
\* run of the job that has decided.
Judge(t, c) ==
  /\ tx[t] = Idle /\ Qualify(c) \in queued /\ c \notin closed /\ ~Locked(c)
  /\ Done(Qualify(c), {})
  /\ \E s \in Scores :
       \E v \in {"reject", "borderline"} \cup Resolve(c, s), h \in IF active = {} THEN {None} ELSE active :
         tx' = [tx EXCEPT ![t] = [step |-> "qualify", camp |-> c, saw |-> h, verdict |-> v, score |-> s]]
  /\ UNCHANGED <<enrolled, failed, late, review, claims, world>>

\* record_failure(), after three attempts.
GiveUp(j) ==
  /\ j \in queued \cap Repeats /\ j[1] \notin closed /\ Outside
  /\ queued' = queued \ {j} /\ failed' = failed \cup {j}
  /\ UNCHANGED <<enrolled, late, rerun, review, claims, world, tx>>

\* retry(): a manager has a failed job run again; another request may have read
\* the failed job as well.
Retry(j) ==
  /\ j \in failed
  /\ failed' = failed \ {j} /\ queued' = queued \cup {j}
  /\ \/ UNCHANGED <<late, budget>>
     \/ late' = late \cup {j} /\ Outside
  /\ UNCHANGED <<enrolled, rerun, review, claims, world, tx>>

\* That request queues the job again, whatever it became.
LateRetry(j) ==
  /\ j \in late /\ ~Locked(j[1])
  /\ late' = late \ {j} /\ failed' = failed \ {j} /\ queued' = queued \cup {j}
  /\ rerun' = IF j[2] = "plan" THEN rerun ELSE rerun \cup {j[1]}
  /\ UNCHANGED <<enrolled, review, claims, world, tx, budget>>

ApproveUnlocked(t, c) ==
  /\ tx[t] = Idle /\ review[c] > 0
  /\ \E v \in Resolve(c, score[c]), h \in IF active = {} THEN {None} ELSE active :
       tx' = [tx EXCEPT ![t] = [step |-> "review", camp |-> c, saw |-> h, verdict |-> v, score |-> score[c]]]
  /\ Outside
  /\ UNCHANGED <<enrolled, jobs, review, claims, world>>

\* approve_item() of a borderline approval: it locks the approval's row.
Approve(t, c) ==
  /\ tx[t] = Idle /\ review[c] > 0
  /\ review' = [review EXCEPT ![c] = @ - 1]
  /\ \E v \in Resolve(c, score[c]), h \in IF active = {} THEN {None} ELSE active :
       tx' = [tx EXCEPT ![t] = [step |-> "review", camp |-> c, saw |-> h, verdict |-> v, score |-> score[c]]]
  /\ Outside
  /\ UNCHANGED <<enrolled, jobs, claims, world>>

\* A review waits for the row of an enrollment that a job has locked.
Ready(t, verdicts) ==
  /\ tx[t].verdict \in verdicts
  /\ tx[t].step = "review" => ~Locked(tx[t].camp)

\* The commits: the enrollment of the transaction gets state s, its score and,
\* when it qualified, a plan job.
Settle(t, s) ==
  LET c == tx[t].camp IN
  /\ state' = [state EXCEPT ![c] = s]
  /\ score' = [score EXCEPT ![c] = tx[t].score]
  /\ queued' = IF s = "qualified" THEN queued \cup {<<c, "plan">>} ELSE queued
  /\ tx' = [tx EXCEPT ![t] = Idle]
  /\ judged' = IF tx[t].step = "review" THEN judged \cup {c} ELSE judged
  /\ UNCHANGED <<sent, talked, failed, late, rerun, suppressed, closed, deleted, budget>>

\* The state of an enrollment whose verdict leaves the claims alone.
Plain(verdict) ==
  CASE verdict = "reject"     -> "rejected"
    [] verdict = "borderline" -> "borderline"
    [] verdict = "block"      -> "ended"
    [] verdict = "own"        -> "qualified"

\* A campaign judged again may have the claim already, and a prospect that is
\* rejected or sent to review then keeps it.
CommitPlain(t) ==
  /\ Ready(t, {"reject", "borderline", "block", "own"})
  /\ Settle(t, Plain(tx[t].verdict))
  /\ review' = IF tx[t].verdict = "borderline" THEN [review EXCEPT ![tx[t].camp] = @ + 1] ELSE review
  /\ UNCHANGED <<pending, claims>>

\* create_claim(): the unique index lets one active claim in.
CommitCreate(t) ==
  /\ Ready(t, {"create"}) /\ active = {}
  /\ active' = {tx[t].camp}
  /\ Settle(t, "qualified")
  /\ UNCHANGED <<pending, review, row>>

CommitDeferQuietly(t) ==
  /\ Ready(t, {"hold", "tie"})
  /\ Settle(t, "deferred")
  /\ UNCHANGED <<pending, review, active, row>>

CommitDefer(t) ==
  /\ Ready(t, {"hold", "tie"})
  /\ AddConflict(tx[t].saw, tx[t].camp, "open")
  /\ Settle(t, "deferred")
  /\ UNCHANGED <<pending, review, active>>

\* transfer_claim(): whoever holds the claim by now loses it, and every other
\* campaign its pending steps.
Blocked(t) == tx[t].verdict = "win" /\ \E o \in pending \ {tx[t].camp} : Locked(o)

CommitWin(t) ==
  /\ Ready(t, {"win"}) /\ ~Blocked(t)
  /\ active' = {tx[t].camp}
  /\ pending' = pending \cap {tx[t].camp}
  /\ AddConflict(tx[t].saw, tx[t].camp, "logged")
  /\ Settle(t, "qualified")
  /\ UNCHANGED review

\* The transaction rolls back: a claim was inserted first, two of them wait for
\* each other, or the process or the call died. The approval is open as before,
\* the job is queued again.
Restored(t) ==
  /\ tx' = [tx EXCEPT ![t] = Idle]
  /\ \/ /\ tx[t].step = "review"
        /\ review' = [review EXCEPT ![tx[t].camp] = @ + 1]
        /\ UNCHANGED queued
     \/ /\ tx[t].step = "qualify"
        /\ queued' = queued \cup {Qualify(tx[t].camp)}
        /\ UNCHANGED review
  /\ UNCHANGED <<enrolled, failed, late, rerun, claims, world>>

CollideInPlace(t) ==
  /\ tx[t].verdict = "create" /\ active # {}
  /\ UNCHANGED vars

Collide(t) ==
  /\ \/ tx[t].verdict = "create" /\ active # {}
     \/ tx[t].verdict = "win" /\ active \notin {{}, {tx[t].saw}}
     \/ Blocked(t) /\ \E u \in Txs \ {t} : Blocked(u) /\ tx[u].step = "qualify"
  /\ Restored(t) /\ UNCHANGED budget

Die(t) == tx[t] # Idle /\ Restored(t) /\ Outside

\* do_plan() does not look at the state of the enrollment. A swept plan job is
\* made a second time.
Plan(c) ==
  /\ <<c, "plan">> \in queued /\ c \notin closed /\ ~Locked(c)
  /\ Done(<<c, "plan">>, {})
  /\ pending' = pending \cup {c}
  /\ UNCHANGED <<state, score, sent, talked, failed, late, review, claims, world, tx>>

-----------------------------------------------------------------------------
(* Touches, answers and people. *)

\* A touch passes the gate's claim check when nobody else holds the claim.
Contact(c) ==
  /\ state[c] \in {"qualified", "contacted"} /\ c \in pending /\ c \notin closed /\ ~Locked(c)
  /\ ~suppressed /\ active \subseteq {c}
  /\ state' = [state EXCEPT ![c] = "contacted"]
  /\ sent' = sent \cup {c}
  /\ UNCHANGED <<score, talked, pending, jobs, review, claims, world, tx, budget>>

\* scan_due(): four touches without a reply.
Exhaust(c) ==
  /\ state[c] = "contacted" /\ c \in pending /\ c \notin closed /\ ~Locked(c)
  /\ pending' = pending \ {c}
  /\ ReleaseClaim(c, [state EXCEPT ![c] = "ended"], queued)
  /\ Outside
  /\ UNCHANGED <<score, sent, talked, failed, late, rerun, review, row, world, tx>>

\* ingest_reply(): a conversation keeps the claim, "not interested" and a
\* booking end it, an opt-out ends every enrollment and wakes nobody.
Reply(c) ==
  /\ c \in sent /\ \A o \in Campaigns : ~Locked(o)
  /\ talked' = talked \cup {c}
  /\ Outside
  /\ \/ /\ state' = [state EXCEPT ![c] = "replied"]
        /\ pending' = pending \ {c}
        /\ UNCHANGED <<queued, active, suppressed>>
     \/ /\ ReleaseClaim(c, [state EXCEPT ![c] = "ended"], queued)
        /\ pending' = pending \ {c}
        /\ UNCHANGED suppressed
     \/ /\ suppressed' = TRUE
        /\ state' = [o \in Campaigns |-> IF o \in deleted THEN state[o] ELSE "ended"]
        /\ pending' = {} /\ active' = {}
        /\ UNCHANGED queued
  /\ UNCHANGED <<score, sent, failed, late, rerun, review, row, closed, deleted, judged, tx>>

StopKeepsClaim(c) ==
  /\ state[c] # "ended" /\ c \notin deleted /\ ~Locked(c)
  /\ pending' = pending \ {c}
  /\ state' = [state EXCEPT ![c] = "ended"]
  /\ Outside
  /\ UNCHANGED <<score, sent, talked, jobs, review, claims, world, tx>>

\* stop_prospect() and reject_item() of a first touch.
Stop(c) ==
  /\ state[c] # "ended" /\ c \notin deleted /\ ~Locked(c)
  /\ pending' = pending \ {c}
  /\ ReleaseClaim(c, [state EXCEPT ![c] = "ended"], queued)
  /\ Outside
  /\ UNCHANGED <<score, sent, talked, failed, late, rerun, review, row, world, tx>>

\* reject_item() of a borderline approval releases nothing, and does not look
\* whether the approval is still open.
RejectReview(c) ==
  /\ \/ review[c] > 0 /\ review' = [review EXCEPT ![c] = @ - 1]
     \/ c \in judged /\ review' = review
  /\ ~Locked(c)
  /\ judged' = judged \cup {c}
  /\ state' = [state EXCEPT ![c] = "rejected"]
  /\ Outside
  /\ UNCHANGED <<score, sent, talked, pending, jobs, claims, suppressed, closed, deleted, tx>>

\* resolve_conflict(): a manager gives the claim to one campaign of a
\* conflict, whatever its enrollment is doing, also of one decided before.
ResolveConflict(p, w) ==
  LET l == IF w = p[1] THEN p[2] ELSE p[1]
      lost == IF state[l] \in {"qualified", "contacted"} THEN [state EXCEPT ![l] = "deferred"] ELSE state
  IN /\ row[p] # {} /\ w \in {p[1], p[2]} \ deleted /\ ~Locked(w) /\ ~Locked(l)
     /\ \E status \in row[p] : row' = [row EXCEPT ![p] = (@ \ {status}) \cup {"resolved"}]
     /\ active' = {w}
     /\ pending' = pending \ {l}
     /\ state' = IF state[w] = "deferred" THEN [lost EXCEPT ![w] = "qualified"] ELSE lost
     /\ queued' = IF state[w] = "deferred" THEN queued \cup {<<w, "plan">>} ELSE queued
     /\ Outside
     /\ UNCHANGED <<score, sent, talked, failed, late, rerun, review, world, tx>>

\* The suppression list also changes by hand.
Suppress ==
  /\ suppressed' = ~suppressed /\ Outside
  /\ UNCHANGED <<enrolled, jobs, review, claims, closed, deleted, judged, tx>>

\* close(): the queued jobs are cancelled; the claim stays.
Close(c) ==
  /\ c \notin closed
  /\ closed' = closed \cup {c}
  /\ queued' = {j \in queued : j[1] # c}
  /\ Outside
  /\ UNCHANGED <<enrolled, failed, late, rerun, review, claims, suppressed, deleted, judged, tx>>

DeleteLive(c) ==
  /\ c \notin deleted /\ ~Locked(c)
  /\ deleted' = deleted \cup {c}
  /\ active' = active \ {c}
  /\ UNCHANGED <<enrolled, jobs, review, row, suppressed, closed, judged, tx, budget>>

\* delete(): the rows of the campaign go, and its name leaves the conflicts.
\* A transaction still at work on one of them can only roll back.
Delete(c) ==
  /\ c \in closed \ deleted /\ ~Locked(c)
  /\ deleted' = deleted \cup {c}
  /\ active' = active \ {c}
  /\ pending' = pending \ {c} /\ review' = [review EXCEPT ![c] = 0] /\ judged' = judged \ {c}
  /\ sent' = sent \ {c} /\ talked' = talked \ {c}
  /\ queued' = {j \in queued : j[1] # c} /\ failed' = {j \in failed : j[1] # c}
  /\ late' = {j \in late : j[1] # c}
  /\ state' = [state EXCEPT ![c] = "ended"]
  /\ row' = [p \in Pairs |-> IF c \in {p[1], p[2]} THEN {} ELSE row[p]]
  /\ tx' = [t \in Txs |-> IF tx[t].camp = c THEN Idle ELSE tx[t]]
  /\ UNCHANGED <<score, rerun, suppressed, closed, budget>>

-----------------------------------------------------------------------------
JobStep(t) ==
  \/ \E c \in Campaigns : Judge(t, c)
  \/ CommitPlain(t) \/ CommitCreate(t) \/ CommitDefer(t) \/ CommitWin(t) \/ Collide(t)

Next ==
  \/ \E t \in Txs : JobStep(t) \/ Die(t) \/ \E c \in Campaigns : Approve(t, c)
  \/ \E c \in Campaigns :
       \/ Research(c) \/ Plan(c) \/ Contact(c) \/ Exhaust(c) \/ Reply(c) \/ Stop(c)
       \/ RejectReview(c) \/ Close(c) \/ Delete(c)
  \/ \E j \in Jobs : GiveUp(j) \/ Retry(j) \/ LateRetry(j)
  \/ \E p \in Pairs, w \in Campaigns : ResolveConflict(p, w)
  \/ Suppress

\* The worker pool keeps claiming and finishing jobs; nobody else has to act.
Fairness ==
  /\ \A c \in Campaigns : WF_vars(Research(c))
  /\ \A t \in Txs : WF_vars(JobStep(t))

Spec == Init /\ [][Next]_vars /\ Fairness

-----------------------------------------------------------------------------
(* Properties. *)

\* One campaign at most holds the claim: the partial unique index of
\* contact_claims, against every pair of ladders and managers at once.
OneClaim == \A c, d \in active : c = d

\* Unless its judgement was queued a second time, a campaign judges its prospect
\* in one place: its job is queued, at work or given up, or waits for a manager,
\* so no two verdicts of one enrollment race (the chain research, qualify, review
\* of handlers.py; the row lock of approve_item(); the requeue of a transaction
\* that rolled back; retry() of a job given up).
Waits(c, step) == <<c, step>> \in queued \cup failed

Alone(c) ==
  /\ ~(Waits(c, "research") /\ Waits(c, "qualify"))
  /\ \A step \in {"research", "qualify"} : <<c, step>> \notin queued \cap failed
  /\ review[c] <= 1
  /\ review[c] = 1 => ~Waits(c, "research") /\ ~Waits(c, "qualify")
  /\ \A t \in Txs : tx[t].camp = c =>
       /\ ~Waits(c, "research") /\ ~Waits(c, "qualify") /\ review[c] = 0
       /\ \A u \in Txs : tx[u].camp = c => u = t

OneJudgement == \A c \in Campaigns \ rerun : Alone(c)

\* The claims implement ClaimLedger: a held claim only moves by a ladder the
\* holder could lose when it was read, or by a manager deciding a conflict.
HolderOf(S) == IF S = {} THEN None ELSE CHOOSE c \in Campaigns : c \in S
Duels(f)    == {d \in Pairs : \E t \in Txs : f[t].verdict = "win" /\ d = <<f[t].camp, f[t].saw>>}
Disputes(r) == {d \in Pairs : r[<<d[2], d[1]>>] # {}}

Ledger ==
  INSTANCE ClaimLedger WITH
    holder <- HolderOf(active), answered <- talked, duels <- Duels(tx), disputes <- Disputes(row)

LedgerSpec == Ledger!Spec

\* A deferred enrollment is a party to a conflict on file, so a manager can
\* settle it; only erasing a campaign takes the case away (add_conflict() in
\* every branch of resolve_claim() that defers, resolve_conflict()).
WaitersHaveACase ==
  deleted = {} =>
    \A c \in Campaigns :
      state[c] = "deferred" => \E p \in Pairs : c \in {p[1], p[2]} /\ row[p] # {}

\* An enrollment that has ended holds no claim, unless somebody reached past
\* the chain of its judgement: a manager decided a conflict of its campaign, or
\* its borderline approval and then rejected it, or the judgement was queued a
\* second time and rejected what the first had given the claim (every ending of
\* replies.py and scan_due() releases, whatever jobs and approvals were under
\* way).
EndedHoldsNothing ==
  \A c \in active :
    state[c] \in Ended => \/ deleted # {} \/ c \in judged \/ c \in rerun
                         \/ \E p \in Pairs : c \in {p[1], p[2]} /\ "resolved" \in row[p]

\* Every research job leads to a verdict, or is given up: the campaigns of a
\* prospect come to rest although jobs die, run again, and claims collide.
AtWork(c) ==
  /\ c \notin closed
  /\ \/ \E step \in {"research", "qualify"} : <<c, step>> \in queued
     \/ \E t \in Txs : tx[t].camp = c

Decided == (\E c \in Campaigns : AtWork(c)) ~> (\A c \in Campaigns : ~AtWork(c))
=============================================================================
