------------------------------ MODULE Campaign ------------------------------
(***************************************************************************)
(* The life of one campaign (backend/orchestrator/campaigns_svc.py,        *)
(* controls.py, prompts_svc.py, discovery.py): the draft and its           *)
(* checklist, edits and their version snapshots, the dry run, activation,  *)
(* pause and resume, closing, deletion, and the prospects found or         *)
(* imported for it with their first job.                                   *)
(*                                                                         *)
(* Every handler of the API reads the campaign's row without a lock,       *)
(* checks it, works (for seconds in a dry run or a discovery) and writes:  *)
(* an operation is a Begin, which reads, and a commit, which writes;       *)
(* any other transaction may commit between the two.                       *)
(***************************************************************************)
EXTENDS Integers, Sequences, FiniteSets

CONSTANTS
  Prospects,   \* people a discovery or an import may bring
  Roles,       \* agents with prompt versions
  Writer,      \* the one whose prompt a dry run drafts with
  Channels,    \* channels with a daily limit
  Txs,         \* API requests open at once
  Limits,      \* daily limits an operator may set
  Budget,      \* bound: operations begun
  None

ASSUME CampaignAssumption ==
  Budget \in Nat /\ Limits \subseteq Nat /\ Limits # {} /\ Writer \in Roles

VARIABLES
  row,      \* the campaigns row; content is the revision of what a dry run judges
  dryOk,    \* campaigns.dry_ok
  daily,    \* channel_settings.daily_limit
  snaps,    \* campaign_versions, in the order they were written
  judged,   \* what the stored dry run judged: content, Writer prompt, version read
  active,   \* per role, the active prompt version
  saved,    \* per role, the last prompt version saved
  enr,      \* enrollments
  job,      \* the research job of each enrollment
  stray,    \* whose job was put back while an earlier run of it may go on
  esc,      \* who has an escalation for a job given up (agent_failure)
  tx,       \* open transactions: what they do, to what, and the row they read
  stale,    \* history: the fields a commit relied on after they had changed
  budget    \* bound: operations left

people == <<enr, job, stray, esc>>
prompts == <<active, saved>>
config == <<dryOk, daily, judged, prompts>>
vars   == <<row, snaps, config, people, tx, stale, budget>>

Statuses == {"draft", "live", "paused", "completed", "archived", "deleted"}
Closed   == {"completed", "archived", "deleted"}

Row == [status : Statuses, version : Nat, content : Nat, limit : [Channels -> Limits]]

Lifecycle == {"activate", "pause", "resume", "completed", "archived", "delete"}
Ops       == Lifecycle \cup {"edit", "edit_limit", "toggle", "dry_run", "promote", "discover", "import", "retry"}

\* What an operation is applied to.
Args(op) ==
  CASE op = "edit" -> {"field", "ground"}
    [] op \in {"edit_limit", "toggle"} -> Channels
    [] op = "promote" -> Roles
    [] op = "retry" -> Prospects
    [] OTHER -> {None}

\* The value it sets: a limit or the number of a prompt version.
Values(op) == IF op \in {"edit_limit", "toggle"} THEN Limits ELSE Nat

\* An open transaction of one operation, and no transaction.
Open(op) == [op : {op}, arg : Args(op), to : Values(op), saw : Row]
Idle     == [op |-> "idle"]

TypeOK ==
  /\ row \in Row /\ dryOk \in BOOLEAN
  /\ daily \in [Channels -> Limits]
  /\ snaps \in Seq([version : Nat, kind : {"create", "edit", "prompt"}])
  /\ judged \in [content : Nat, prompt : Nat, version : Nat]
  /\ active \in [Roles -> Nat] /\ saved \in [Roles -> Nat]
  /\ enr \in [Prospects -> {"none", "new", "researched"}]
  /\ job \in [Prospects -> {"none", "queued", "running", "done", "cancelled", "failed"}]
  /\ stray \subseteq Prospects /\ esc \subseteq Prospects
  /\ DOMAIN tx = Txs /\ \A t \in Txs : tx[t] = Idle \/ \E op \in Ops : tx[t] \in Open(op)
  /\ \A p \in Prospects : enr[p] = "none" => job[p] = "none" /\ p \notin stray \cup esc
  /\ stale \subseteq {"status", "version", "content", "limit"}
  /\ budget \in 0..Budget

\* create(): a draft of version 1 with its snapshot, the same daily limits on
\* the campaign's row and on the channels', and one active prompt per role.
Draft(limit) ==
  /\ row = [status |-> "draft", version |-> 1, content |-> 0, limit |-> limit]
  /\ dryOk = FALSE
  /\ daily = limit
  /\ snaps = <<[version |-> 1, kind |-> "create"]>>
  /\ judged = [content |-> 0, prompt |-> 1, version |-> 1]
  /\ active = [r \in Roles |-> 1] /\ saved = [r \in Roles |-> 1]
  /\ enr = [p \in Prospects |-> "none"] /\ job = [p \in Prospects |-> "none"]
  /\ stray = {} /\ esc = {}

\* A campaign is created with the limits every new one has, or by duplicate()
\* with those of another one; everything else duplicate() starts afresh.
Init ==
  /\ \E limit \in [Channels -> Limits] : Draft(limit)
  /\ tx = [t \in Txs |-> Idle]
  /\ stale = {} /\ budget = Budget

-----------------------------------------------------------------------------
(* Begin: what an operation reads and refuses. *)

\* The pre-launch items the operations here change: the dry run and the
\* prompts. The others (ICP, knowledge, channel, rep) are taken as met.
Checklist == dryOk /\ \A r \in Roles : active[r] > 0

AcceptsCompleted(op) ==
  CASE op = "activate" -> {"draft"}
    [] op \in {"pause", "completed"} -> {"live", "paused"}
    [] op = "resume" -> {"paused", "completed"}
    [] OTHER -> Statuses \ {"deleted"}

\* The status each operation accepts.
Accepts(op) ==
  CASE op = "activate"  -> {"draft"}
    [] op = "pause"     -> {"live"}
    [] op = "resume"    -> {"paused"}
    [] op = "completed" -> {"live", "paused"}
    [] op = "archived"  -> {"completed", "draft", "paused", "live"}
    [] op = "delete"    -> {"archived"}
    [] op \in {"edit", "edit_limit", "discover"} -> {"draft", "live", "paused"}
    [] OTHER -> Statuses \ {"deleted"}

Begin(t, op, arg, to) ==
  /\ budget > 0 /\ tx[t] = Idle
  /\ row.status \in Accepts(op)
  /\ tx' = [tx EXCEPT ![t] = [op |-> op, arg |-> arg, to |-> to, saw |-> row]]
  /\ budget' = budget - 1
  /\ UNCHANGED <<row, snaps, config, people, stale>>

BeginLifecycle(t) ==
  \E op \in Lifecycle : Begin(t, op, None, 0) /\ (op = "activate" => Checklist)

\* update() of a plain or of a grounding-relevant field or of a ch_limit;
\* toggle_channel() with a daily limit.
BeginSettings(t) ==
  \/ \E f \in {"field", "ground"} : Begin(t, "edit", f, 0)
  \/ \E op \in {"edit_limit", "toggle"}, ch \in Channels, n \in Limits : Begin(t, op, ch, n)

\* The value of a dry run is the Writer prompt it drafts with.
BeginDryRun(t) == Begin(t, "dry_run", None, active[Writer])

Doing(t, op) == tx[t] # Idle /\ tx[t].op = op

\* A role whose prompts nobody is activating or saving.
Unlocked(r) == \A t \in Txs : Doing(t, "promote") => tx[t].arg # r

\* prompts_svc.activate() under the role's lock, for another saved version.
BeginPromote(t) ==
  \E r \in Roles : \E v \in 1..saved[r] :
    Unlocked(r) /\ active[r] # v /\ Begin(t, "promote", r, v)

BeginEnrol(t) == \E op \in {"discover", "import"} : Begin(t, op, None, 0)

\* The retry endpoint takes a failed job only; it locks nothing.
BeginRetry(t) == \E p \in Prospects : job[p] = "failed" /\ Begin(t, "retry", p, 0)

-----------------------------------------------------------------------------
(* Commit: what it writes, whatever the row became meanwhile. *)

\* The transaction ends; it relied on the fields F of the row as it read them.
Ends(t, F) ==
  /\ tx' = [tx EXCEPT ![t] = Idle]
  /\ stale' = stale \cup {f \in F : tx[t].saw[f] # row[f]}
  /\ UNCHANGED budget

\* An update finds no row once the campaign is deleted.
Alive == row.status # "deleted"

ActivateForgets(t) ==
  /\ Doing(t, "activate") /\ Alive
  /\ row' = [row EXCEPT !.status = "live"]
  /\ Ends(t, {"status"}) /\ UNCHANGED <<snaps, config, people>>

\* activate(): live, and a research job for every new prospect without one.
Activate(t) ==
  /\ Doing(t, "activate") /\ Alive
  /\ row' = [row EXCEPT !.status = "live"]
  /\ job' = [p \in Prospects |-> IF enr[p] = "new" /\ job[p] = "none" THEN "queued" ELSE job[p]]
  /\ Ends(t, {"status"}) /\ UNCHANGED <<snaps, config, enr, stray, esc>>

PauseResume(t) ==
  \E op \in {"pause", "resume"} :
    /\ Doing(t, op) /\ Alive
    /\ row' = [row EXCEPT !.status = IF op = "pause" THEN "paused" ELSE "live"]
    /\ Ends(t, {"status"}) /\ UNCHANGED <<snaps, config, people>>

\* close(): what is queued at this moment is cancelled.
Close(t) ==
  \E op \in {"completed", "archived"} :
    /\ Doing(t, op) /\ Alive
    /\ row' = [row EXCEPT !.status = op]
    /\ job' = [p \in Prospects |-> IF job[p] = "queued" THEN "cancelled" ELSE job[p]]
    /\ Ends(t, {"status"}) /\ UNCHANGED <<snaps, config, enr, stray, esc>>

DeleteLeavesJobs(t) ==
  /\ Doing(t, "delete") /\ Alive
  /\ row' = [row EXCEPT !.status = "deleted"]
  /\ enr' = [p \in Prospects |-> "none"]
  /\ Ends(t, {"status"}) /\ UNCHANGED <<snaps, config, job, stray, esc>>

\* delete(): the campaign and everything scoped to it; a worker still running
\* one of its jobs finds no row to write.
Delete(t) ==
  /\ Doing(t, "delete") /\ Alive
  /\ row' = [row EXCEPT !.status = "deleted"]
  /\ enr' = [p \in Prospects |-> "none"] /\ job' = [p \in Prospects |-> "none"]
  /\ stray' = {} /\ esc' = {}
  /\ Ends(t, {"status"}) /\ UNCHANGED <<snaps, config>>

\* snapshot() under version v.
Snapshot(v, kind) == snaps' = Append(snaps, [version |-> v, kind |-> kind])

\* The row after an edit.
Edited == [row EXCEPT !.version = @ + 1]

EditFromRead(t) ==
  /\ Doing(t, "edit") /\ Alive
  /\ row' = Edited
  /\ Snapshot(tx[t].saw.version + 1, "edit")
  /\ Ends(t, {}) /\ UNCHANGED <<config, people>>

EditKeepsDryRun(t) ==
  /\ Doing(t, "edit") /\ Alive
  /\ row' = [Edited EXCEPT !.content = IF tx[t].arg = "ground" THEN @ + 1 ELSE @]
  /\ Snapshot(row.version + 1, "edit")
  /\ Ends(t, {}) /\ UNCHANGED <<config, people>>

\* update() of a field: the version is counted up on the row and read back
\* for the snapshot; a change of what the dry run judged withdraws its result.
Edit(t) ==
  /\ Doing(t, "edit") /\ Alive
  /\ IF tx[t].arg = "ground"
     THEN row' = [Edited EXCEPT !.content = @ + 1] /\ dryOk' = FALSE
     ELSE row' = Edited /\ UNCHANGED dryOk
  /\ Snapshot(row.version + 1, "edit")
  /\ Ends(t, {}) /\ UNCHANGED <<daily, judged, prompts, people>>

\* A change of a daily limit is under way.
Limiting(t) == Doing(t, "edit_limit") \/ Doing(t, "toggle")

\* The daily limits with one channel's changed, merged into those read.
Merged(t) == [tx[t].saw.limit EXCEPT ![tx[t].arg] = tx[t].to]

\* update() and toggle_channel() of a daily limit: it goes to the channel's
\* row, and merged into the limits read to the campaign's. Only update()
\* counts a version.
SetLimit(t) ==
  /\ Limiting(t) /\ Alive
  /\ IF tx[t].op = "edit_limit"
     THEN row' = [Edited EXCEPT !.limit = Merged(t)] /\ Snapshot(row.version + 1, "edit")
     ELSE row' = [row EXCEPT !.limit = Merged(t)] /\ UNCHANGED snaps
  /\ daily' = [daily EXCEPT ![tx[t].arg] = tx[t].to]
  /\ Ends(t, {"limit"}) /\ UNCHANGED <<dryOk, judged, prompts, people>>

\* dry_run(): each of its samples reads the Writer's active prompt again.
NextSample(t) ==
  /\ Doing(t, "dry_run") /\ tx[t].to # active[Writer]
  /\ tx' = [tx EXCEPT ![t].to = active[Writer]]
  /\ UNCHANGED <<row, snaps, config, people, stale, budget>>

\* dry_run(): three drafts and their grounding check on the content read; the
\* verdict is stored whatever was edited or activated meanwhile.
DryRun(t) ==
  /\ Doing(t, "dry_run") /\ Alive
  /\ dryOk' \in BOOLEAN
  /\ judged' = [content |-> tx[t].saw.content, prompt |-> tx[t].to, version |-> tx[t].saw.version]
  /\ Ends(t, {"content"}) /\ UNCHANGED <<row, snaps, daily, prompts, people>>

\* prompts_svc.activate(): the version is counted up on the row, the snapshot
\* takes one more than the version read. A dry run's result is left standing.
Promote(t) ==
  /\ Doing(t, "promote") /\ Alive
  /\ active' = [active EXCEPT ![tx[t].arg] = tx[t].to]
  /\ row' = [row EXCEPT !.version = @ + 1]
  /\ Snapshot(tx[t].saw.version + 1, "prompt")
  /\ Ends(t, {"version"}) /\ UNCHANGED <<dryOk, daily, judged, saved, people>>

\* Whom a request may bring: of those make_prospect() creates or finds on file
\* by their name, the ones the campaign has not enrolled.
Newcomers == {p \in Prospects : enr[p] = "none"}

\* The people an operation enrols are those Apollo's page and its reveals gave,
\* those of the reserve when it gave none, or those of an imported list.
Found(t, S) ==
  /\ Doing(t, "discover") \/ Doing(t, "import")
  /\ S \subseteq Newcomers /\ S # {}

\* discover(), import_rows(), import_linkedin(): all whom it brings are enrolled
\* in one transaction; they get their first job only if the campaign was no
\* draft when read.
Enrol(t) ==
  \E S \in SUBSET Prospects :
    /\ Found(t, S) /\ Alive
    /\ enr' = [p \in Prospects |-> IF p \in S THEN "new" ELSE enr[p]]
    /\ job' = [p \in Prospects |-> IF p \in S /\ tx[t].saw.status # "draft" THEN "queued" ELSE job[p]]
    /\ Ends(t, {"status"}) /\ UNCHANGED <<row, snaps, config, stray, esc>>

\* A job put back while a worker may still be running it.
PutBack(p) ==
  /\ job' = [job EXCEPT ![p] = "queued"]
  /\ stray' = IF job[p] = "running" THEN stray \cup {p} ELSE stray

\* retry(): the job is queued again whatever it became since it was read.
Retry(t) ==
  /\ Doing(t, "retry") /\ Alive /\ job[tx[t].arg] # "none"
  /\ PutBack(tx[t].arg)
  /\ Ends(t, {}) /\ UNCHANGED <<row, snaps, config, enr, esc>>

\* A request fails, finds nothing to write or repeats what is there.
Abort(t) ==
  /\ tx[t] # Idle
  /\ tx' = [tx EXCEPT ![t] = Idle]
  /\ UNCHANGED <<row, snaps, config, people, stale, budget>>

-----------------------------------------------------------------------------
(* Single steps: a saved prompt version, and the worker's research jobs.    *)

\* save_version() under the role's lock.
SavePrompt(r) ==
  /\ budget > 0 /\ budget' = budget - 1
  /\ Alive /\ Unlocked(r)
  /\ saved' = [saved EXCEPT ![r] = @ + 1]
  /\ UNCHANGED <<row, snaps, dryOk, daily, judged, active, people, tx, stale>>

\* The worker claims a job of a live campaign only.
Claim(p) ==
  /\ job[p] = "queued" /\ row.status = "live"
  /\ job' = [job EXCEPT ![p] = "running"]
  /\ UNCHANGED <<row, snaps, config, enr, stray, esc, tx, stale, budget>>

\* One worker leaves the job: the one it is running for, unless that is a later
\* one. At most one stray run of a job is followed.
Leaves(p) ==
  /\ job[p] = "running" \/ p \in stray
  /\ stray' = IF job[p] = "running" THEN stray ELSE stray \ {p}
  /\ UNCHANGED <<row, snaps, config, tx, stale, budget>>

\* do_research() ends.
Finish(p) ==
  /\ Leaves(p)
  /\ job' = [job EXCEPT ![p] = "done"] /\ enr' = [enr EXCEPT ![p] = "researched"]
  /\ UNCHANGED esc

\* record_failure() with attempts left, or an agent that holds its job.
Requeue(p) ==
  /\ Leaves(p)
  /\ job' = [job EXCEPT ![p] = "queued"]
  /\ UNCHANGED <<enr, esc>>

\* record_failure() after the last attempt: the job has failed, and an
\* escalation says so.
GiveUp(p) ==
  /\ Leaves(p)
  /\ job' = [job EXCEPT ![p] = "failed"] /\ esc' = esc \cup {p}
  /\ UNCHANGED enr

\* The sweep takes a job that has run too long back, dead or not.
Sweep(p) ==
  /\ job[p] = "running" /\ PutBack(p)
  /\ UNCHANGED <<row, snaps, config, enr, esc, tx, stale, budget>>

Begins(t) == BeginLifecycle(t) \/ BeginSettings(t) \/ BeginDryRun(t) \/ BeginPromote(t)
             \/ BeginEnrol(t) \/ BeginRetry(t)

Commits(t) ==
  \/ Activate(t) \/ PauseResume(t) \/ Close(t) \/ Delete(t)
  \/ Edit(t) \/ SetLimit(t) \/ DryRun(t) \/ Promote(t) \/ Enrol(t) \/ Retry(t)

Next ==
  \/ \E t \in Txs : Begins(t) \/ NextSample(t) \/ Commits(t) \/ Abort(t)
  \/ \E r \in Roles : SavePrompt(r)
  \/ \E p \in Prospects : Claim(p) \/ Finish(p) \/ Requeue(p) \/ GiveUp(p) \/ Sweep(p)

Spec == Init /\ [][Next]_vars

-----------------------------------------------------------------------------
(* What the operations keep although none of them locks the row it read.    *)

\* Each version has one snapshot: as many snapshots as versions, the snapshot
\* of an edit carries the number the edit got however many overlap
\* (campaigns_svc.py:142-144), and only a prompt activation that read the
\* version before another change can repeat an older number.
SnapshotsAddUp ==
  /\ Len(snaps) = row.version
  /\ \A i \in 1..Len(snaps) :
       IF snaps[i].kind = "prompt" THEN snaps[i].version \in 2..i ELSE snaps[i].version = i
  /\ "version" \notin stale => \A i \in 1..Len(snaps) : snaps[i].version = i

\* The campaign's limit of a channel, which the gate reads, and the channel's
\* own row agree, unless two changes of limits overlapped: the merge writes
\* back the other channels' limits as read (campaigns_svc.py:125, controls.py:77).
LimitsAgree == "limit" \notin stale => row.limit = daily

\* A Writer prompt other than the given one has been activated since a version.
Rewritten(prompt, version) ==
  prompt # active[Writer] => \E i \in version + 1 .. Len(snaps) : snaps[i].kind = "prompt"

\* A passed dry run speaks of the campaign's content as it is now: every edit of
\* what it judged withdraws it (campaigns_svc.py:142), and only one committed
\* during the run escapes (campaigns_svc.py:267). Of the Writer prompt it does
\* not: an activation leaves the verdict standing (prompts_svc.py:92-113), and
\* all that tells is a snapshot of an activation later than the version the
\* run read.
DryRunDescribes ==
  dryOk =>
    /\ judged.content # row.content => "content" \in stale
    /\ Rewritten(judged.prompt, judged.version)

\* In a live campaign every new prospect has its research job, queued, running
\* or done, or an escalation says that the job was given up: who arrives in the
\* draft gets it when the campaign is activated, who arrives later at once.
\* Only a prospect whose discovery read another status than it met, or a
\* campaign revived over its closing, lacks it (campaigns_svc.py:157-161,
\* discovery.py:222, worker.py:98-104).
NobodyForgotten ==
  \A p \in Prospects :
    row.status = "live" /\ enr[p] = "new" =>
      \/ job[p] \in {"queued", "running", "done"}
      \/ job[p] = "failed" /\ p \in esc
      \/ "status" \in stale /\ job[p] # "failed"

\* A closed campaign opens again, and an archived one is completed again, only
\* when a request that read the earlier status commits after the closing
\* (campaigns_svc.py:165-173, controls.py:38-45); nothing comes back from
\* deletion.
ClosedStays ==
  [][/\ row.status = "deleted" => row' = row /\ UNCHANGED people
     /\ row.status = "archived" /\ row'.status \notin {"archived", "deleted"} => "status" \in stale'
     /\ row.status = "completed" /\ row'.status \notin Closed => "status" \in stale']_vars
=============================================================================
