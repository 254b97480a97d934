------------------------------ MODULE JobQueue ------------------------------
(***************************************************************************)
(* The job queue of one campaign: the rows of the jobs table and the       *)
(* worker processes that claim them, run their handlers, record their      *)
(* failures and sweep the stale ones (backend/orchestrator/worker.py), the *)
(* operator calls that change the rows from outside (close, retry, cancel) *)
(* and the switches the claim query reads.                                 *)
(*                                                                         *)
(* A transaction is one action, except claim(), whose count of running     *)
(* jobs and whose selection of queued ones are two statements of a READ    *)
(* COMMITTED transaction, and the retry endpoint, whose check and whose     *)
(* update are two as well: other transactions may commit between them.     *)
(***************************************************************************)
EXTENDS Integers, FiniteSets

CONSTANTS
  Jobs,         \* ids the jobs table may hold
  StepOf,       \* jobs.step of each job
  Workers,      \* worker processes (the worker service, the embedded one)
  Cap,          \* PER_CAMPAIGN_CAP
  GiveUp,       \* the attempt at which record_failure stops retrying
  MaxRuns,      \* bound: claims of one job between two resets of its count
  MaxTrouble,   \* bound: crashes, lost failure records and manual retries
  NoJob

ASSUME CapAssumption == Cap \in Nat \ {0}
ASSUME GiveUpAssumption == GiveUp \in Nat \ {0}
ASSUME BoundAssumption == MaxRuns \in Nat /\ MaxTrouble \in Nat
ASSUME JobAssumption ==
  /\ IsFiniteSet(Jobs)
  /\ NoJob \notin Jobs
  /\ StepOf \in [Jobs -> {"research", "qualify", "plan", "draft", "reply"}]

\* JOB_AGENT: the agent whose switch a job of this step obeys.
AgentOf(j) ==
  CASE StepOf[j] = "research" -> "Researcher"
    [] StepOf[j] = "qualify"  -> "Qualifier"
    [] StepOf[j] = "plan"     -> "Sequencer"
    [] StepOf[j] = "draft"    -> "Writer"
    [] StepOf[j] = "reply"    -> "Responder"

Agents == {AgentOf(j) : j \in Jobs}
Drafts == {j \in Jobs : StepOf[j] = "draft"}
Gated  == {j \in Jobs : StepOf[j] \in {"draft", "reply"}}

VARIABLES
  camp,      \* campaigns.status
  kill,      \* global_settings.kill_switch
  agentOn,   \* campaign_agents.enabled
  status,    \* jobs.status, "absent" before the row is inserted
  attempts,  \* jobs.attempts
  due,       \* queued: run_at has passed; running: started_at is stale
  asking,    \* open retry requests that have read the job as failed
  taken,     \* history: how often the job was queued again though it was not free
  finished,  \* history: how often a handler has committed the job as done
  step,      \* where each worker is in its tick
  room,      \* claim(): the free places counted for the campaign
  batch,     \* jobs claimed in this tick and not started yet
  cur,       \* the job whose handler is running
  seen,      \* attempts of each claimed job, as claim() returned it
  trouble    \* bound: crashes, lost records and manual retries so far

switches == <<camp, kill, agentOn>>
rows     == <<status, attempts, due>>
history  == <<taken, finished>>
procs    == <<step, room, batch, cur, seen>>
vars     == <<switches, rows, asking, history, procs, trouble>>

Status == {"absent", "queued", "running", "done", "failed", "cancelled"}
Steps  == {"idle", "counted", "ready", "handling", "failing", "down"}

TypeOK ==
  /\ camp \in {"live", "paused", "closed"}
  /\ kill \in BOOLEAN
  /\ agentOn \in [Agents -> BOOLEAN]
  /\ status \in [Jobs -> Status]
  /\ attempts \in [Jobs -> Nat]
  /\ due \in [Jobs -> BOOLEAN]
  /\ asking \in [Jobs -> Nat]
  /\ taken \in [Jobs -> Nat] /\ finished \in [Jobs -> Nat]
  /\ step \in [Workers -> Steps]
  /\ room \in [Workers -> 0..Cap]
  /\ batch \in [Workers -> SUBSET Jobs]
  /\ cur \in [Workers -> Jobs \cup {NoJob}]
  /\ seen \in [Workers -> [Jobs -> Nat]]
  /\ trouble \in 0..MaxTrouble

WithStatus(s) == {j \in Jobs : status[j] = s}
Running == WithStatus("running")

\* The jobs worker w has claimed and not finished with.
Held(w) == batch[w] \cup {j \in Jobs : cur[w] = j}

Holders(j) == {w \in Workers : j \in Held(w)}
Hold == [j \in Jobs |-> Holders(j)]

\* A run of the job is still to come: its row waits in the queue, may be
\* retried, is not written yet, or was left running by a worker that is gone.
Open(j) ==
  \/ status[j] \in {"absent", "queued", "failed"}
  \/ status[j] = "running" /\ Holders(j) = {}

\* The jobs of S are queued again: one that is neither open nor already in the
\* queue is taken from the worker that holds it, or from its verdict.
Taken(S) == [j \in Jobs |-> IF j \in S /\ ~Open(j) THEN taken[j] + 1 ELSE taken[j]]

\* status with the jobs of S set to s.
SetAll(S, s) == [j \in Jobs |-> IF j \in S THEN s ELSE status[j]]

Init ==
  /\ camp = "live" /\ kill = FALSE
  /\ agentOn = [a \in Agents |-> TRUE]
  /\ status \in [Jobs -> {"absent", "queued"}]
  /\ attempts = [j \in Jobs |-> 0]
  /\ due = [j \in Jobs |-> FALSE]
  /\ asking = [j \in Jobs |-> 0]
  /\ taken = [j \in Jobs |-> 0] /\ finished = [j \in Jobs |-> 0]
  /\ step = [w \in Workers |-> "idle"]
  /\ room = [w \in Workers |-> 0]
  /\ batch = [w \in Workers |-> {}]
  /\ cur = [w \in Workers |-> NoJob]
  /\ seen = [w \in Workers |-> [j \in Jobs |-> 0]]
  /\ trouble = 0

\* Worker w is finished with its current job.
LetGo(w) ==
  /\ cur' = [cur EXCEPT ![w] = NoJob]
  /\ step' = [step EXCEPT ![w] = "ready"]
  /\ seen' = [seen EXCEPT ![w][cur[w]] = 0]
  /\ UNCHANGED <<room, batch>>

Claimable ==
  {j \in WithStatus("queued") :
     due[j] /\ agentOn[AgentOf(j)] /\ attempts[j] < MaxRuns}

\* The claim of the jobs of S by worker w.
Mark(w, S) ==
  /\ status' = SetAll(S, "running")
  /\ due' = [j \in Jobs |-> due[j] /\ j \notin S]
  /\ attempts' = [j \in Jobs |-> IF j \in S THEN attempts[j] + 1 ELSE attempts[j]]
  /\ seen' = [seen EXCEPT ![w] =
                [j \in Jobs |-> IF j \in S THEN attempts[j] + 1 ELSE 0]]
  /\ batch' = [batch EXCEPT ![w] = S]
  /\ step' = [step EXCEPT ![w] = IF S = {} THEN "idle" ELSE "ready"]
  /\ room' = [room EXCEPT ![w] = 0]
  /\ UNCHANGED <<switches, asking, history, cur, trouble>>

-----------------------------------------------------------------------------
(* Mutants: the actions below as a plausible mistake would have them. The  *)
(* runs must notice each one; Next uses none.                              *)

\* The sweep walks the live campaigns only, as the rest of maintenance() does.
SweepLiveOnly(w) ==
  LET stale == {j \in Running : due[j]} IN
  /\ step[w] = "idle" /\ camp = "live"
  /\ stale # {}
  /\ status' = SetAll(stale, "queued")
  /\ taken' = Taken(stale)
  /\ UNCHANGED <<switches, attempts, due, asking, finished, procs, trouble>>

\* One place too many.
CountRoomOneMore(w) ==
  /\ step[w] = "idle"
  /\ camp = "live" /\ ~kill
  /\ Cardinality(Running) < Cap
  /\ room' = [room EXCEPT ![w] = Cap - Cardinality(Running) + 1]
  /\ step' = [step EXCEPT ![w] = "counted"]
  /\ UNCHANGED <<switches, rows, asking, history, batch, cur, seen, trouble>>

\* The selection forgets its limit.
TakeAll(w) ==
  /\ step[w] = "counted"
  /\ Mark(w, Claimable)

\* The retry endpoint forgets its 409 for a job that is done.
AskRetrySettled(j) ==
  /\ status[j] \in {"failed", "done"}
  /\ trouble < MaxTrouble /\ trouble' = trouble + 1
  /\ asking' = [asking EXCEPT ![j] = @ + 1]
  /\ UNCHANGED <<switches, rows, history, procs>>

\* The selection takes rows whose claim looks old as well, to save the sweep.
TakeStale(w) ==
  /\ step[w] = "counted"
  /\ \E S \in SUBSET (Claimable \cup {j \in Running : due[j]}) :
       /\ Cardinality(S) <= room[w]
       /\ Mark(w, S)

\* Closing cancels the running jobs too.
CloseRunning ==
  /\ camp # "closed" /\ camp' = "closed"
  /\ status' = SetAll(WithStatus("queued") \cup Running, "cancelled")
  /\ UNCHANGED <<kill, agentOn, attempts, due, asking, history, procs, trouble>>

-----------------------------------------------------------------------------
(* The worker's tick: maintenance, claim, run the batch.                   *)

\* maintenance(): one UPDATE puts every stale running job back in the queue.
SweepStale(w) ==
  LET stale == {j \in Running : due[j]} IN
  /\ step[w] = "idle"
  /\ stale # {}
  /\ status' = SetAll(stale, "queued")
  /\ taken' = Taken(stale)
  /\ UNCHANGED <<switches, attempts, due, asking, finished, procs, trouble>>

\* claim(), first half: the kill switch, the live campaigns, and the room left.
CountRoom(w) ==
  /\ step[w] = "idle"
  /\ camp = "live" /\ ~kill
  /\ Cardinality(Running) < Cap
  /\ room' = [room EXCEPT ![w] = Cap - Cardinality(Running)]
  /\ step' = [step EXCEPT ![w] = "counted"]
  /\ UNCHANGED <<switches, rows, asking, history, batch, cur, seen, trouble>>

\* claim(), second half: select for update skip locked, limit room, mark running.
TakeJobs(w) ==
  /\ step[w] = "counted"
  /\ \E S \in SUBSET Claimable :
       /\ Cardinality(S) <= room[w]
       /\ Cardinality(S) = room[w] \/ S = Claimable
       /\ Mark(w, S)

\* run_one(): the fresh read finds the job still running, so its handler starts.
BeginJob(w) ==
  /\ step[w] = "ready"
  /\ \E j \in batch[w] :
       /\ status[j] = "running"
       /\ cur' = [cur EXCEPT ![w] = j]
       /\ batch' = [batch EXCEPT ![w] = @ \ {j}]
  /\ step' = [step EXCEPT ![w] = "handling"]
  /\ UNCHANGED <<switches, rows, asking, history, room, seen, trouble>>

\* run_one(): the fresh read finds another status, so the job is left alone.
SkipJob(w) ==
  /\ step[w] = "ready"
  /\ \E j \in batch[w] :
       /\ status[j] # "running"
       /\ batch' = [batch EXCEPT ![w] = @ \ {j}]
       /\ seen' = [seen EXCEPT ![w][j] = 0]
  /\ UNCHANGED <<switches, rows, asking, history, step, room, cur, trouble>>

EndBatch(w) ==
  /\ step[w] = "ready" /\ batch[w] = {}
  /\ step' = [step EXCEPT ![w] = "idle"]
  /\ UNCHANGED <<switches, rows, asking, history, room, batch, cur, seen, trouble>>

\* finish_job(): "done" whatever the row says by now; the handler may have
\* enqueued follow-up jobs in the same transaction.
FinishJob(w) ==
  /\ step[w] = "handling"
  /\ \E new \in SUBSET WithStatus("absent") :
       status' = [SetAll(new, "queued") EXCEPT ![cur[w]] = "done"]
  /\ due' = [due EXCEPT ![cur[w]] = FALSE]
  /\ finished' = [finished EXCEPT ![cur[w]] = @ + 1]
  /\ LetGo(w)
  /\ UNCHANGED <<switches, attempts, asking, taken, trouble>>

\* _requeue_later(): the gate said hold, the job goes back for a minute.
HoldJob(w) ==
  /\ step[w] = "handling" /\ cur[w] \in Gated
  /\ status' = [status EXCEPT ![cur[w]] = "queued"]
  /\ due' = [due EXCEPT ![cur[w]] = FALSE]
  /\ LetGo(w)
  /\ UNCHANGED <<switches, attempts, asking, history, trouble>>

\* do_draft(): another step of the enrollment waits for approval.
DropDraft(w) ==
  /\ step[w] = "handling" /\ cur[w] \in Drafts
  /\ status' = [status EXCEPT ![cur[w]] = "cancelled"]
  /\ LetGo(w)
  /\ UNCHANGED <<switches, attempts, due, asking, history, trouble>>

\* The handler raises and its transaction rolls back.
RaiseJob(w) ==
  /\ step[w] = "handling"
  /\ step' = [step EXCEPT ![w] = "failing"]
  /\ UNCHANGED <<switches, rows, asking, history, room, batch, cur, seen, trouble>>

\* record_failure(): decides on the attempts claim() returned, not on the row.
RecordFailure(w) ==
  LET j == cur[w] IN
  /\ step[w] = "failing"
  /\ status' = [status EXCEPT ![j] = IF seen[w][j] < GiveUp THEN "queued" ELSE "failed"]
  /\ due' = [due EXCEPT ![j] = FALSE]
  /\ LetGo(w)
  /\ UNCHANGED <<switches, attempts, asking, history, trouble>>

\* record_failure() itself fails: it is logged and the row stays running.
LoseFailure(w) ==
  /\ step[w] = "failing"
  /\ trouble < MaxTrouble /\ trouble' = trouble + 1
  /\ LetGo(w)
  /\ UNCHANGED <<switches, rows, asking, history>>

\* The process dies: its claims and its open transaction are gone.
Crash(w) ==
  /\ step[w] # "down"
  /\ trouble < MaxTrouble /\ trouble' = trouble + 1
  /\ step' = [step EXCEPT ![w] = "down"]
  /\ room' = [room EXCEPT ![w] = 0]
  /\ batch' = [batch EXCEPT ![w] = {}]
  /\ cur' = [cur EXCEPT ![w] = NoJob]
  /\ seen' = [seen EXCEPT ![w] = [j \in Jobs |-> 0]]
  /\ UNCHANGED <<switches, rows, asking, history>>

Restart(w) ==
  /\ step[w] = "down"
  /\ step' = [step EXCEPT ![w] = "idle"]
  /\ UNCHANGED <<switches, rows, asking, history, room, batch, cur, seen, trouble>>

-----------------------------------------------------------------------------
(* Everything else that writes the rows or the switches.                   *)

\* run_at passes for a queued job, or the three minutes for a running one.
TimePasses(j) ==
  /\ status[j] \in {"queued", "running"} /\ ~due[j]
  /\ due' = [due EXCEPT ![j] = TRUE]
  /\ UNCHANGED <<switches, status, attempts, asking, history, procs, trouble>>

\* enqueue() from an API request: a send, a reply, an approval, a run-now.
Enqueue(j) ==
  /\ status[j] = "absent"
  /\ status' = [status EXCEPT ![j] = "queued"]
  /\ UNCHANGED <<switches, attempts, due, asking, history, procs, trouble>>

\* cancel_pending_steps(cancel_jobs=True): only draft jobs, only queued ones.
CancelDrafts ==
  \E S \in SUBSET (WithStatus("queued") \cap Drafts) :
    /\ S # {}
    /\ status' = SetAll(S, "cancelled")
    /\ UNCHANGED <<switches, attempts, due, asking, history, procs, trouble>>

\* POST /agent-runs/{id}/retry, first half: the row is read without a lock,
\* and the request goes on only if it says failed.
AskRetry(j) ==
  /\ status[j] = "failed"
  /\ trouble < MaxTrouble /\ trouble' = trouble + 1
  /\ asking' = [asking EXCEPT ![j] = @ + 1]
  /\ UNCHANGED <<switches, rows, history, procs>>

\* Second half: the job starts over, whatever its row says by now.
Requeue(j) ==
  /\ asking[j] > 0
  /\ asking' = [asking EXCEPT ![j] = @ - 1]
  /\ status' = [status EXCEPT ![j] = "queued"]
  /\ attempts' = [attempts EXCEPT ![j] = 0]
  /\ due' = [due EXCEPT ![j] = TRUE]
  /\ taken' = Taken({j})
  /\ UNCHANGED <<switches, finished, procs, trouble>>

PauseCampaign ==
  /\ camp = "live" /\ camp' = "paused"
  /\ UNCHANGED <<kill, agentOn, rows, asking, history, procs, trouble>>

ResumeCampaign ==
  /\ camp = "paused" /\ camp' = "live"
  /\ UNCHANGED <<kill, agentOn, rows, asking, history, procs, trouble>>

\* close(): the queued jobs are cancelled, the running ones are not.
CloseCampaign ==
  /\ camp # "closed" /\ camp' = "closed"
  /\ status' = SetAll(WithStatus("queued"), "cancelled")
  /\ UNCHANGED <<kill, agentOn, attempts, due, asking, history, procs, trouble>>

SetKill ==
  /\ kill' = ~kill
  /\ UNCHANGED <<camp, agentOn, rows, asking, history, procs, trouble>>

ToggleAgent(a) ==
  /\ agentOn' = [agentOn EXCEPT ![a] = ~@]
  /\ UNCHANGED <<camp, kill, rows, asking, history, procs, trouble>>

-----------------------------------------------------------------------------
WorkerStep(w) ==
  \/ SweepStale(w) \/ CountRoom(w) \/ TakeJobs(w)
  \/ BeginJob(w) \/ SkipJob(w) \/ EndBatch(w)
  \/ FinishJob(w) \/ HoldJob(w) \/ DropDraft(w)
  \/ RaiseJob(w) \/ RecordFailure(w) \/ LoseFailure(w)
  \/ Crash(w) \/ Restart(w)

JobStep(j) == TimePasses(j) \/ Enqueue(j) \/ AskRetry(j) \/ Requeue(j)

OperatorStep ==
  \/ CancelDrafts \/ PauseCampaign \/ ResumeCampaign \/ CloseCampaign
  \/ SetKill \/ \E a \in Agents : ToggleAgent(a)

Next ==
  \/ \E w \in Workers : WorkerStep(w)
  \/ \E j \in Jobs : JobStep(j)
  \/ OperatorStep

Spec == Init /\ [][Next]_vars

\* A worker that is inside a tick goes on with it.
Progress(w) ==
  \/ TakeJobs(w) \/ BeginJob(w) \/ SkipJob(w) \/ EndBatch(w)
  \/ FinishJob(w) \/ HoldJob(w) \/ DropDraft(w) \/ RaiseJob(w)
  \/ RecordFailure(w) \/ LoseFailure(w) \/ Restart(w)

\* run_forever() loops, a dead process is restarted, clocks advance, and
\* maintenance() opens a tick whenever five seconds have passed.
Fairness ==
  /\ \A w \in Workers : WF_vars(Progress(w)) /\ SF_vars(SweepStale(w))
  /\ \A j \in Jobs : WF_vars(TimePasses(j))

FairSpec == Spec /\ Fairness

-----------------------------------------------------------------------------
(* Properties.                                                             *)

\* PER_CAMPAIGN_CAP: no more than Cap jobs of the campaign run at once. It
\* holds for one worker process: count and selection are then never split.
CapRespected == Cardinality(Running) <= Cap

\* Every run of a job is accounted for. Workers that hold it, handlers that
\* have committed it and the run still to come are at most one more than the
\* times it was queued again though it was not free: by the sweep that took it
\* from a worker still alive, or by a retry that came after another one. None
\* of finish_job(), _requeue_later() and record_failure(), which write the row
\* whatever it says, makes a further run.
RunsAccounted ==
  \A j \in Jobs :
    finished[j] + Cardinality(Holders(j)) + (IF Open(j) THEN 1 ELSE 0) <= 1 + taken[j]

\* A job that was done or cancelled is queued again by a late retry alone, and
\* otherwise rewritten only by a worker it had been taken from.
SettledStaysSettled ==
  [][\A j \in Jobs :
       status[j] \in {"done", "cancelled"} /\ status'[j] # status[j] =>
         \/ taken'[j] = taken[j] + 1
         \/ taken[j] > 0 /\ \E w \in Workers : cur[w] = j /\ cur'[w] = NoJob]_vars

\* A job fails for good only after GiveUp claims since its last reset, although
\* record_failure() trusts the count claim() returned and never re-reads it,
\* unless the job was taken from the worker that reports the failure.
GiveUpIsEarned ==
  \A j \in Jobs : status[j] = "failed" /\ taken[j] = 0 => attempts[j] >= GiveUp

\* No job stays running for ever: its handler settles it, or the worker that
\* held it is gone and the sweep returns it to the queue.
RunningSettles ==
  \A j \in Jobs : status[j] = "running" ~> status[j] # "running"

\* The queue is the ledger of JobLedger: a verdict comes from a worker that
\* was given the job and has not let go of it, and only a sweep or a retry that
\* read the job as failed puts it back. Every worker process has a cap of its own.
Ledger == INSTANCE JobLedger
            WITH Jobs <- Jobs, Executors <- Workers, Cap <- Cap * Cardinality(Workers),
                 status <- status, asked <- asking, hold <- Hold
LedgerSpec == Ledger!Spec

=============================================================================
