--------------------------- MODULE CampaignProofs ---------------------------
(* Proofs about Campaign: for any people, roles, channels, requests and      *)
(* bounds.                                                                   *)
EXTENDS Campaign, TLAPS

USE CampaignAssumption DEF people, prompts, config, vars

\* What an open request read: a status its operation accepts, and a version
\* that the row has only counted up since.
SawOK ==
  /\ row.version >= 1
  /\ \A t \in Txs : tx[t] # Idle =>
       /\ tx[t].saw.status \in Accepts(tx[t].op)
       /\ tx[t].saw.version >= 1 /\ tx[t].saw.version <= row.version

\* Who waits without a job waits in a draft, and whose job was cancelled was
\* cancelled by the closing, as long as no status was overwritten unseen.
JobsOK ==
  "status" \notin stale =>
    \A p \in Prospects : enr[p] = "new" =>
      /\ job[p] = "none" => row.status \in {"draft", "archived"}
      /\ job[p] = "cancelled" => row.status \in {"completed", "archived"}

\* A job given up has its escalation, whoever else wrote meanwhile.
FailuresAreTold == \A p \in Prospects : job[p] = "failed" => p \in esc

\* What a dry run drafts with is the prompt active since the version it read, or
\* an activation was recorded after that version.
RunsOK ==
  /\ judged.version <= row.version /\ Rewritten(judged.prompt, judged.version)
  /\ \A t \in Txs : Doing(t, "dry_run") => Rewritten(tx[t].to, tx[t].saw.version)

\* The content a passed verdict is about is the campaign's.
ContentOK == dryOk /\ judged.content # row.content => "content" \in stale

\* A deleted campaign has nobody left.
DeletedIsEmpty == row.status = "deleted" => \A p \in Prospects : enr[p] = "none"

IInv ==
  /\ TypeOK /\ SawOK /\ DeletedIsEmpty /\ SnapshotsAddUp /\ LimitsAgree
  /\ ContentOK /\ RunsOK /\ JobsOK /\ FailuresAreTold

\* A step of a worker or of the sweep on the job of p.
JobStepOf(p) == Claim(p) \/ Finish(p) \/ Requeue(p) \/ GiveUp(p) \/ Sweep(p)

-----------------------------------------------------------------------------
(* The operators the actions are built from. *)

LEMMA BeginsWork ==
  ASSUME TypeOK, NEW t \in Txs, Begins(t)
  PROVE  \E op \in Ops : \E arg \in Args(op), to \in Values(op) : Begin(t, op, arg, to)
<1>1. CASE BeginLifecycle(t)
  BY <1>1 DEF BeginLifecycle, Lifecycle, Ops, Args, Values
<1>2. CASE \E f \in {"field", "ground"} : Begin(t, "edit", f, 0)
  BY <1>2 DEF Ops, Args, Values
<1>3. CASE \E op \in {"edit_limit", "toggle"}, ch \in Channels, n \in Limits : Begin(t, op, ch, n)
  BY <1>3 DEF Ops, Args, Values
<1>4. CASE BeginDryRun(t)
  <2>1. active[Writer] \in Nat
    BY DEF TypeOK
  <2>2. QED BY <1>4, <2>1 DEF BeginDryRun, Ops, Args, Values
<1>5. CASE BeginPromote(t)
  <2>0. PICK r \in Roles : \E v \in 1..saved[r] : Begin(t, "promote", r, v)
    BY <1>5 DEF BeginPromote
  <2>1. PICK v \in 1..saved[r] : Begin(t, "promote", r, v)
    BY <2>0
  <2>2. v \in Nat
    BY DEF TypeOK
  <2>3. QED BY <2>1, <2>2 DEF Ops, Args, Values
<1>6. CASE BeginEnrol(t)
  BY <1>6 DEF BeginEnrol, Ops, Args, Values
<1>7. CASE BeginRetry(t)
  BY <1>7 DEF BeginRetry, Ops, Args, Values
<1>8. QED BY <1>1, <1>2, <1>3, <1>4, <1>5, <1>6, <1>7 DEF Begins, BeginSettings

\* An operation that is under way is open with its own argument and value.
LEMMA DoingIsOpen ==
  ASSUME TypeOK, NEW t \in Txs, NEW op \in Ops, Doing(t, op)
  PROVE  tx[t] \in Open(op)
BY DEF TypeOK, Doing, Open, Idle

LEMMA EndsFrees ==
  ASSUME TypeOK, NEW t \in Txs, NEW F \in SUBSET {"status", "version", "content", "limit"}, Ends(t, F)
  PROVE  /\ stale' \subseteq {"status", "version", "content", "limit"} /\ stale \subseteq stale'
         /\ \A f \in F : f \notin stale' => tx[t].saw[f] = row[f]
         /\ DOMAIN tx' = Txs /\ tx'[t] = Idle /\ \A s \in Txs \ {t} : tx'[s] = tx[s]
         /\ budget' = budget
BY DEF Ends, TypeOK

LEMMA RowParts ==
  ASSUME TypeOK
  PROVE  /\ row.status \in Statuses /\ row.version \in Nat /\ row.content \in Nat
         /\ row.limit \in [Channels -> Limits]
         /\ row = [status |-> row.status, version |-> row.version, content |-> row.content, limit |-> row.limit]
         /\ DOMAIN snaps = 1..Len(snaps) /\ Len(snaps) \in Nat
BY DEF TypeOK, Row

\* Changing one field of the row.
LEMMA RowChanges ==
  ASSUME TypeOK
  PROVE  /\ \A s \in Statuses : LET w == [row EXCEPT !.status = s] IN
              w \in Row /\ w.status = s /\ w.version = row.version /\ w.content = row.content /\ w.limit = row.limit
         /\ Edited \in Row /\ Edited.status = row.status /\ Edited.version = row.version + 1
         /\ Edited.content = row.content /\ Edited.limit = row.limit
         /\ LET w == [Edited EXCEPT !.content = @ + 1] IN
              w \in Row /\ w.status = row.status /\ w.version = row.version + 1 /\ w.limit = row.limit
<1>1. row = [status |-> row.status, version |-> row.version, content |-> row.content, limit |-> row.limit]
  BY RowParts
<1>2. Edited = [status |-> row.status, version |-> row.version + 1, content |-> row.content, limit |-> row.limit]
  BY <1>1 DEF Edited
<1>3. [Edited EXCEPT !.content = @ + 1]
        = [status |-> row.status, version |-> row.version + 1, content |-> row.content + 1, limit |-> row.limit]
  BY <1>2
<1>4. \A s \in Statuses : [row EXCEPT !.status = s]
        = [status |-> s, version |-> row.version, content |-> row.content, limit |-> row.limit]
  BY <1>1
<1>5. QED BY <1>2, <1>3, <1>4, RowParts DEF Row

\* A snapshot added to the others.
LEMMA SnapshotAdds ==
  ASSUME TypeOK, NEW v \in Nat, NEW kind \in {"edit", "prompt"}, Snapshot(v, kind)
  PROVE  /\ snaps' \in Seq([version : Nat, kind : {"create", "edit", "prompt"}])
         /\ Len(snaps') = Len(snaps) + 1
         /\ snaps'[Len(snaps) + 1] = [version |-> v, kind |-> kind]
         /\ \A i \in 1..Len(snaps) : snaps'[i] = snaps[i]
BY DEF TypeOK, Snapshot

-----------------------------------------------------------------------------
(* Type correctness and what open requests read. *)

\* A request opened by Begin is of its type and has read what it accepts.
LEMMA BeginType ==
  ASSUME TypeOK, SawOK, NEW t \in Txs, Begins(t)
  PROVE  TypeOK' /\ SawOK'
<1>1. PICK op \in Ops : \E arg \in Args(op), to \in Values(op) : Begin(t, op, arg, to)
  BY BeginsWork
<1>2. PICK arg \in Args(op), to \in Values(op) : Begin(t, op, arg, to)
  BY <1>1
<1>3. row \in Row /\ row.version >= 1
  BY DEF TypeOK, SawOK
<1>4. /\ tx'[t] = [op |-> op, arg |-> arg, to |-> to, saw |-> row] /\ DOMAIN tx' = Txs
      /\ \A s \in Txs \ {t} : tx'[s] = tx[s]
  BY <1>2 DEF Begin, TypeOK
<1>5. tx'[t] \in Open(op)
  BY <1>3, <1>4 DEF Open
<1>6. TypeOK'
  BY <1>2, <1>4, <1>5 DEF Begin, TypeOK
<1>7. SawOK'
  BY <1>2, <1>3, <1>4, RowParts DEF Begin, SawOK
<1>8. QED BY <1>6, <1>7

LEMMA LifecycleType ==
  ASSUME TypeOK, NEW t \in Txs, Activate(t) \/ PauseResume(t) \/ Close(t) \/ Delete(t)
  PROVE  /\ TypeOK' /\ row'.version = row.version
         /\ Ends(t, {"status"}) /\ UNCHANGED <<snaps, config>>
<1>1. /\ \E s \in Statuses : row' = [row EXCEPT !.status = s]
      /\ Ends(t, {"status"}) /\ UNCHANGED <<snaps, config>>
  BY DEF Activate, PauseResume, Close, Delete, Statuses
<1>2. row' \in Row /\ row'.version = row.version
  BY <1>1, RowChanges
<1>3. /\ enr' \in [Prospects -> {"none", "new", "researched"}]
      /\ job' \in [Prospects -> {"none", "queued", "running", "done", "cancelled", "failed"}]
      /\ stray' \subseteq Prospects /\ esc' \subseteq Prospects
      /\ \A p \in Prospects : enr'[p] = "none" => job'[p] = "none" /\ p \notin stray' \cup esc'
  <2>1. CASE Activate(t)
    BY <2>1 DEF Activate, TypeOK
  <2>2. CASE PauseResume(t)
    BY <2>2 DEF PauseResume, TypeOK
  <2>3. CASE Close(t)
    BY <2>3 DEF Close, TypeOK
  <2>4. CASE Delete(t)
    BY <2>4 DEF Delete, TypeOK
  <2>5. QED BY <2>1, <2>2, <2>3, <2>4
<1>4. QED BY <1>1, <1>2, <1>3, EndsFrees DEF TypeOK

LEMMA EditType ==
  ASSUME TypeOK, NEW t \in Txs, Edit(t)
  PROVE  /\ TypeOK' /\ row'.version = row.version + 1 /\ row'.limit = row.limit /\ row'.status = row.status
         /\ dryOk' => dryOk /\ row'.content = row.content
<1>1. /\ row' \in Row /\ row'.version = row.version + 1 /\ row'.limit = row.limit /\ row'.status = row.status
      /\ dryOk' => dryOk /\ row'.content = row.content
      /\ dryOk' \in BOOLEAN
  BY RowChanges DEF Edit, TypeOK
<1>2. row.version + 1 \in Nat /\ Snapshot(row.version + 1, "edit")
  BY RowParts DEF Edit
<1>3. snaps' \in Seq([version : Nat, kind : {"create", "edit", "prompt"}])
  BY <1>2, SnapshotAdds
<1>4. Ends(t, {}) /\ UNCHANGED <<daily, judged, prompts, people>>
  BY DEF Edit
<1>5. TypeOK'
  BY <1>1, <1>3, <1>4, EndsFrees DEF TypeOK
<1>6. QED BY <1>1, <1>5

\* A change of a limit sets the row's limit of one channel from those read.
LEMMA SetLimitType ==
  ASSUME TypeOK, NEW t \in Txs, SetLimit(t)
  PROVE  /\ TypeOK' /\ row'.status = row.status /\ row'.content = row.content
         /\ row'.limit = [tx[t].saw.limit EXCEPT ![tx[t].arg] = tx[t].to]
         /\ daily' = [daily EXCEPT ![tx[t].arg] = tx[t].to]
         /\ \/ row'.version = row.version + 1 /\ Snapshot(row.version + 1, "edit")
            \/ row'.version = row.version /\ UNCHANGED snaps
<1>1. tx[t].arg \in Channels /\ tx[t].to \in Limits /\ tx[t].saw \in Row
  BY DoingIsOpen DEF SetLimit, Limiting, Open, Args, Values, Ops
<1>2. Merged(t) \in [Channels -> Limits]
  BY <1>1 DEF Merged, Row
<1>3. /\ row' \in Row /\ row'.limit = Merged(t) /\ row'.status = row.status /\ row'.content = row.content
      /\ \/ row'.version = row.version + 1 /\ Snapshot(row.version + 1, "edit")
         \/ row'.version = row.version /\ UNCHANGED snaps
  <2>1. CASE tx[t].op = "edit_limit"
    <3>1. row' = [status |-> row.status, version |-> row.version + 1, content |-> row.content, limit |-> Merged(t)]
      <4>1. row' = [Edited EXCEPT !.limit = Merged(t)]
        BY <2>1 DEF SetLimit
      <4>2. Edited = [status |-> row.status, version |-> row.version + 1, content |-> row.content, limit |-> row.limit]
        BY RowParts DEF Edited
      <4>3. QED BY <4>1, <4>2
    <3>2. QED BY <2>1, <3>1, <1>2, RowParts DEF SetLimit, Row
  <2>2. CASE tx[t].op # "edit_limit"
    <3>1. row' = [status |-> row.status, version |-> row.version, content |-> row.content, limit |-> Merged(t)]
      BY <2>2, RowParts DEF SetLimit
    <3>2. QED BY <2>2, <3>1, <1>2, RowParts DEF SetLimit, Row
  <2>3. QED BY <2>1, <2>2
<1>4. snaps' \in Seq([version : Nat, kind : {"create", "edit", "prompt"}])
  <2>1. CASE Snapshot(row.version + 1, "edit")
    <3>1. row.version + 1 \in Nat
      BY RowParts
    <3>2. QED BY <2>1, <3>1, SnapshotAdds
  <2>2. CASE UNCHANGED snaps
    BY <2>2 DEF TypeOK
  <2>3. QED BY <1>3, <2>1, <2>2
<1>5. daily' \in [Channels -> Limits]
  BY <1>1 DEF SetLimit, TypeOK
<1>6. TypeOK'
  BY <1>3, <1>4, <1>5, EndsFrees DEF SetLimit, TypeOK
<1>7. QED BY <1>3, <1>6 DEF SetLimit, Merged

LEMMA DryRunType ==
  ASSUME TypeOK, NEW t \in Txs, DryRun(t)
  PROVE  TypeOK'
<1>1. tx[t].saw \in Row /\ tx[t].to \in Nat
  BY DoingIsOpen DEF DryRun, Open, Ops, Values
<1>2. QED BY <1>1, EndsFrees DEF DryRun, TypeOK, Row

LEMMA PromoteType ==
  ASSUME TypeOK, NEW t \in Txs, Promote(t)
  PROVE  /\ TypeOK' /\ row'.version = row.version + 1 /\ row'.status = row.status
         /\ row'.content = row.content /\ row'.limit = row.limit
<1>1. tx[t].saw \in Row /\ tx[t].arg \in Roles /\ tx[t].to \in Nat
  BY DoingIsOpen DEF Promote, Open, Ops, Args, Values
<1>2. /\ row' \in Row /\ row'.version = row.version + 1 /\ row'.status = row.status
      /\ row'.content = row.content /\ row'.limit = row.limit
  <2>1. row' = Edited
    BY DEF Promote, Edited
  <2>2. QED BY <2>1, RowChanges
<1>3. snaps' \in Seq([version : Nat, kind : {"create", "edit", "prompt"}])
  <2>1. tx[t].saw.version + 1 \in Nat /\ Snapshot(tx[t].saw.version + 1, "prompt")
    BY <1>1 DEF Promote, Row
  <2>2. QED BY <2>1, SnapshotAdds
<1>4. active' \in [Roles -> Nat]
  BY <1>1 DEF Promote, TypeOK
<1>5. Ends(t, {"version"}) /\ UNCHANGED <<dryOk, daily, judged, saved, people>>
  BY DEF Promote
<1>6. TypeOK'
  BY <1>2, <1>3, <1>4, <1>5, EndsFrees DEF TypeOK
<1>7. QED BY <1>2, <1>6

LEMMA EnrolType ==
  ASSUME TypeOK, NEW t \in Txs, Enrol(t)
  PROVE  TypeOK'
<1>1. PICK S \in SUBSET Prospects :
        /\ enr' = [p \in Prospects |-> IF p \in S THEN "new" ELSE enr[p]]
        /\ job' = [p \in Prospects |-> IF p \in S /\ tx[t].saw.status # "draft" THEN "queued" ELSE job[p]]
  BY DEF Enrol
<1>2. Ends(t, {"status"}) /\ UNCHANGED <<row, snaps, config, stray, esc>>
  BY DEF Enrol
<1>3. /\ enr' \in [Prospects -> {"none", "new", "researched"}]
      /\ job' \in [Prospects -> {"none", "queued", "running", "done", "cancelled", "failed"}]
  BY <1>1 DEF TypeOK
<1>4. \A p \in Prospects : enr'[p] = "none" => job'[p] = "none" /\ p \notin stray' \cup esc'
  BY <1>1, <1>2 DEF TypeOK
<1>5. QED
  BY <1>2, <1>3, <1>4, EndsFrees DEF TypeOK

LEMMA RetryType ==
  ASSUME TypeOK, NEW t \in Txs, Retry(t)
  PROVE  TypeOK'
<1>1. tx[t].arg \in Prospects
  BY DoingIsOpen DEF Retry, Open, Ops, Args
<1>2. Ends(t, {}) /\ UNCHANGED <<row, snaps, config, enr, esc>> /\ PutBack(tx[t].arg)
  BY DEF Retry
<1>3. enr[tx[t].arg] # "none"
  BY <1>1 DEF Retry, TypeOK
<1>4. /\ job' \in [Prospects -> {"none", "queued", "running", "done", "cancelled", "failed"}]
      /\ stray' \subseteq Prospects
      /\ \A p \in Prospects : enr'[p] = "none" => job'[p] = "none" /\ p \notin stray' \cup esc'
  BY <1>1, <1>2, <1>3 DEF PutBack, TypeOK
<1>5. QED BY <1>2, <1>4, EndsFrees DEF TypeOK

\* Whatever commits ends its transaction and never counts the version down.
LEMMA CommitType ==
  ASSUME TypeOK, NEW t \in Txs, Commits(t)
  PROVE  /\ TypeOK' /\ row'.version \in {row.version, row.version + 1}
         /\ tx'[t] = Idle /\ \A s \in Txs \ {t} : tx'[s] = tx[s]
<1>1. \E F \in SUBSET {"status", "version", "content", "limit"} : Ends(t, F)
  BY DEF Commits, Activate, PauseResume, Close, Delete, Edit, SetLimit, DryRun, Promote, Enrol, Retry
<1>2. TypeOK' /\ row'.version \in {row.version, row.version + 1}
  BY LifecycleType, EditType, SetLimitType, DryRunType, PromoteType, EnrolType, RetryType DEF Commits, DryRun, Enrol, Retry
<1>3. QED BY <1>1, <1>2, EndsFrees

\* Another sample of a dry run changes the prompt it drafts with, no more.
LEMMA NextSampleType ==
  ASSUME TypeOK, NEW t \in Txs, NextSample(t)
  PROVE  /\ TypeOK' /\ tx[t] # Idle /\ tx'[t].op = tx[t].op /\ tx'[t].saw = tx[t].saw
         /\ tx'[t].to = active[Writer] /\ \A s \in Txs \ {t} : tx'[s] = tx[s]
<1>1. tx[t] \in Open("dry_run") /\ active[Writer] \in Nat
  BY DoingIsOpen DEF NextSample, Ops, TypeOK
<1>2. /\ tx'[t] = [op |-> "dry_run", arg |-> tx[t].arg, to |-> active[Writer], saw |-> tx[t].saw]
      /\ DOMAIN tx' = Txs /\ \A s \in Txs \ {t} : tx'[s] = tx[s]
  BY <1>1 DEF NextSample, TypeOK, Open
<1>3. tx'[t] \in Open("dry_run")
  BY <1>1, <1>2 DEF Open, Values
<1>4. TypeOK'
  BY <1>2, <1>3 DEF NextSample, TypeOK, Ops
<1>5. QED BY <1>1, <1>2, <1>4 DEF NextSample, Open, Doing

LEMMA SawStep ==
  ASSUME TypeOK, SawOK, [Next]_vars
  PROVE  TypeOK' /\ SawOK'
<1>1. CASE UNCHANGED vars
  BY <1>1 DEF TypeOK, SawOK, Open, Row
<1>2. ASSUME NEW t \in Txs, Begins(t) PROVE TypeOK' /\ SawOK'
  BY <1>2, BeginType
<1>3. ASSUME NEW t \in Txs, Commits(t) PROVE TypeOK' /\ SawOK'
  <2>1. \A s \in Txs : tx[s] # Idle => tx[s].saw.version \in Nat
    BY DEF TypeOK, Open, Row
  <2>2. row.version \in Nat
    BY RowParts
  <2>3. QED BY <1>3, <2>1, <2>2, CommitType DEF SawOK
<1>4. ASSUME NEW t \in Txs, Abort(t) PROVE TypeOK' /\ SawOK'
  BY <1>4 DEF Abort, TypeOK, SawOK
<1>4a. ASSUME NEW t \in Txs, NextSample(t) PROVE TypeOK' /\ SawOK'
  BY <1>4a, NextSampleType DEF NextSample, SawOK
<1>5. ASSUME NEW r \in Roles, SavePrompt(r) PROVE TypeOK' /\ SawOK'
  BY <1>5 DEF SavePrompt, TypeOK, SawOK
<1>6. ASSUME NEW p \in Prospects, JobStepOf(p) PROVE TypeOK' /\ SawOK'
  BY <1>6 DEF JobStepOf, Claim, Finish, Requeue, GiveUp, Sweep, Leaves, PutBack, TypeOK, SawOK
<1>7. QED BY <1>1, <1>2, <1>3, <1>4, <1>4a, <1>5, <1>6 DEF Next, JobStepOf

-----------------------------------------------------------------------------
(* Snapshots, limits, the dry run. *)

\* What the commits and the other steps do to the version and its snapshots.
LEMMA SnapshotStep ==
  ASSUME TypeOK, SawOK, SnapshotsAddUp, [Next]_vars
  PROVE  SnapshotsAddUp'
<1>1. ASSUME row'.version = row.version, UNCHANGED snaps, stale \subseteq stale'
      PROVE  SnapshotsAddUp'
  BY <1>1 DEF SnapshotsAddUp
<1>2. ASSUME NEW v \in Nat, NEW kind \in {"edit", "prompt"}, Snapshot(v, kind),
             row'.version = row.version + 1, stale \subseteq stale',
             IF kind = "prompt" THEN v \in 2..row.version + 1 ELSE v = row.version + 1,
             "version" \notin stale' => v = row.version + 1
      PROVE  SnapshotsAddUp'
  <2>1. /\ Len(snaps') = Len(snaps) + 1 /\ snaps'[Len(snaps) + 1] = [version |-> v, kind |-> kind]
        /\ \A i \in 1..Len(snaps) : snaps'[i] = snaps[i]
    BY <1>2, SnapshotAdds
  <2>2. Len(snaps) = row.version /\ row.version \in Nat
    BY RowParts DEF SnapshotsAddUp
  <2>3. \A i \in 1..Len(snaps') : i \in 1..Len(snaps) \/ i = Len(snaps) + 1
    BY <2>1, <2>2
  <2>4. Len(snaps') = row'.version
    BY <1>2, <2>1, <2>2
  <2>5. ASSUME NEW i \in 1..Len(snaps')
        PROVE  /\ IF snaps'[i].kind = "prompt" THEN snaps'[i].version \in 2..i ELSE snaps'[i].version = i
               /\ "version" \notin stale' => snaps'[i].version = i
    <3>1. CASE i \in 1..Len(snaps)
      BY <1>2, <2>1, <3>1 DEF SnapshotsAddUp
    <3>2. CASE i = Len(snaps) + 1
      BY <1>2, <2>1, <2>2, <3>2
    <3>3. QED BY <2>3, <3>1, <3>2
  <2>6. QED BY <2>4, <2>5 DEF SnapshotsAddUp
<1>3. CASE UNCHANGED vars
  BY <1>1, <1>3
<1>4. ASSUME NEW t \in Txs, Begins(t) PROVE SnapshotsAddUp'
  BY <1>1, <1>4, BeginsWork DEF Begin
<1>5. ASSUME NEW t \in Txs, Commits(t) PROVE SnapshotsAddUp'
  <2>1. CASE Activate(t) \/ PauseResume(t) \/ Close(t) \/ Delete(t)
    BY <1>1, <2>1, LifecycleType, EndsFrees
  <2>2. CASE Edit(t)
    <3>1. row.version + 1 \in Nat /\ Snapshot(row.version + 1, "edit") /\ Ends(t, {})
      BY <2>2, RowParts DEF Edit
    <3>2. QED BY <1>2, <2>2, <3>1, EditType, EndsFrees
  <2>3. CASE SetLimit(t)
    <3>1. row.version + 1 \in Nat /\ Ends(t, {"limit"})
      BY <2>3, RowParts DEF SetLimit
    <3>2. CASE row'.version = row.version + 1 /\ Snapshot(row.version + 1, "edit")
      BY <1>2, <3>1, <3>2, EndsFrees
    <3>3. CASE row'.version = row.version /\ UNCHANGED snaps
      BY <1>1, <3>1, <3>3, EndsFrees
    <3>4. QED BY <2>3, <3>2, <3>3, SetLimitType
  <2>4. CASE DryRun(t)
    BY <1>1, <2>4, EndsFrees DEF DryRun
  <2>5. CASE Promote(t)
    <3>1. /\ Snapshot(tx[t].saw.version + 1, "prompt") /\ Ends(t, {"version"}) /\ tx[t] # Idle
          /\ row'.version = row.version + 1
      BY <2>5, PromoteType DEF Promote, Doing
    <3>2. tx[t].saw.version \in Nat /\ row.version \in Nat
      BY <3>1, RowParts DEF TypeOK, Open, Row
    <3>3. tx[t].saw.version >= 1 /\ tx[t].saw.version <= row.version
      BY <3>1 DEF SawOK
    <3>4. stale \subseteq stale' /\ ("version" \notin stale' => tx[t].saw.version = row.version)
      BY <3>1, EndsFrees
    <3>5. tx[t].saw.version + 1 \in 2..row.version + 1 /\ tx[t].saw.version + 1 \in Nat
      BY <3>2, <3>3
    <3>6. QED BY <1>2, <3>1, <3>4, <3>5
  <2>6. CASE Enrol(t) \/ Retry(t)
    BY <1>1, <2>6, EndsFrees DEF Enrol, Retry
  <2>7. QED BY <1>5, <2>1, <2>2, <2>3, <2>4, <2>5, <2>6 DEF Commits
<1>6. ASSUME NEW t \in Txs, Abort(t) \/ NextSample(t) PROVE SnapshotsAddUp'
  BY <1>1, <1>6 DEF Abort, NextSample
<1>7. ASSUME NEW r \in Roles, SavePrompt(r) PROVE SnapshotsAddUp'
  BY <1>1, <1>7 DEF SavePrompt
<1>8. ASSUME NEW p \in Prospects, JobStepOf(p) PROVE SnapshotsAddUp'
  BY <1>1, <1>8 DEF JobStepOf, Claim, Finish, Requeue, GiveUp, Sweep, Leaves, PutBack
<1>9. QED BY <1>3, <1>4, <1>5, <1>6, <1>7, <1>8 DEF Next, JobStepOf

LEMMA LimitStep ==
  ASSUME TypeOK, LimitsAgree, [Next]_vars
  PROVE  LimitsAgree'
<1>1. ASSUME row'.limit = row.limit, UNCHANGED daily, stale \subseteq stale' PROVE LimitsAgree'
  BY <1>1 DEF LimitsAgree
<1>2. CASE UNCHANGED vars
  BY <1>1, <1>2
<1>3. ASSUME NEW t \in Txs, Begins(t) PROVE LimitsAgree'
  BY <1>1, <1>3, BeginsWork DEF Begin
<1>4. ASSUME NEW t \in Txs, Commits(t) PROVE LimitsAgree'
  <2>1. CASE Activate(t) \/ PauseResume(t) \/ Close(t) \/ Delete(t)
    <3>1. \E s \in Statuses : row' = [row EXCEPT !.status = s]
      BY <2>1 DEF Activate, PauseResume, Close, Delete, Statuses
    <3>2. QED BY <1>1, <2>1, <3>1, RowChanges, LifecycleType, EndsFrees
  <2>2. CASE Edit(t)
    BY <1>1, <2>2, EditType, EndsFrees DEF Edit
  <2>3. CASE SetLimit(t)
    <3>1. /\ row'.limit = [tx[t].saw.limit EXCEPT ![tx[t].arg] = tx[t].to]
          /\ daily' = [daily EXCEPT ![tx[t].arg] = tx[t].to] /\ Ends(t, {"limit"})
      BY <2>3, SetLimitType DEF SetLimit
    <3>2. "limit" \notin stale' => tx[t].saw.limit = row.limit /\ "limit" \notin stale
      BY <3>1, EndsFrees
    <3>3. QED BY <3>1, <3>2 DEF LimitsAgree
  <2>4. CASE DryRun(t)
    BY <1>1, <2>4, EndsFrees DEF DryRun
  <2>5. CASE Promote(t)
    BY <1>1, <2>5, PromoteType, EndsFrees DEF Promote
  <2>6. CASE Enrol(t) \/ Retry(t)
    BY <1>1, <2>6, EndsFrees DEF Enrol, Retry
  <2>7. QED BY <1>4, <2>1, <2>2, <2>3, <2>4, <2>5, <2>6 DEF Commits
<1>5. ASSUME NEW t \in Txs, Abort(t) \/ NextSample(t) PROVE LimitsAgree'
  BY <1>1, <1>5 DEF Abort, NextSample
<1>6. ASSUME NEW r \in Roles, SavePrompt(r) PROVE LimitsAgree'
  BY <1>1, <1>6 DEF SavePrompt
<1>7. ASSUME NEW p \in Prospects, JobStepOf(p) PROVE LimitsAgree'
  BY <1>1, <1>7 DEF JobStepOf, Claim, Finish, Requeue, GiveUp, Sweep, Leaves, PutBack
<1>8. QED BY <1>2, <1>3, <1>4, <1>5, <1>6, <1>7 DEF Next, JobStepOf

LEMMA ContentStep ==
  ASSUME TypeOK, ContentOK, [Next]_vars
  PROVE  ContentOK'
<1>1. ASSUME dryOk' => dryOk /\ row'.content = row.content, UNCHANGED judged, stale \subseteq stale'
      PROVE  ContentOK'
  BY <1>1 DEF ContentOK
<1>2. CASE UNCHANGED vars
  BY <1>1, <1>2
<1>3. ASSUME NEW t \in Txs, Begins(t) PROVE ContentOK'
  BY <1>1, <1>3, BeginsWork DEF Begin
<1>4. ASSUME NEW t \in Txs, Commits(t) PROVE ContentOK'
  <2>1. CASE Activate(t) \/ PauseResume(t) \/ Close(t) \/ Delete(t)
    <3>1. \E s \in Statuses : row' = [row EXCEPT !.status = s]
      BY <2>1 DEF Activate, PauseResume, Close, Delete, Statuses
    <3>2. QED BY <1>1, <2>1, <3>1, RowChanges, LifecycleType, EndsFrees
  <2>2. CASE Edit(t)
    BY <1>1, <2>2, EditType, EndsFrees DEF Edit
  <2>3. CASE SetLimit(t)
    BY <1>1, <2>3, SetLimitType, EndsFrees DEF SetLimit
  <2>4. CASE DryRun(t)
    <3>1. "content" \notin stale' => tx[t].saw.content = row.content
      BY <2>4, EndsFrees DEF DryRun
    <3>2. QED BY <2>4, <3>1 DEF DryRun, ContentOK
  <2>5. CASE Promote(t)
    BY <1>1, <2>5, PromoteType, EndsFrees DEF Promote
  <2>6. CASE Enrol(t) \/ Retry(t)
    BY <1>1, <2>6, EndsFrees DEF Enrol, Retry
  <2>7. QED BY <1>4, <2>1, <2>2, <2>3, <2>4, <2>5, <2>6 DEF Commits
<1>5. ASSUME NEW t \in Txs, Abort(t) \/ NextSample(t) PROVE ContentOK'
  BY <1>1, <1>5 DEF Abort, NextSample
<1>6. ASSUME NEW r \in Roles, SavePrompt(r) PROVE ContentOK'
  BY <1>1, <1>6 DEF SavePrompt
<1>7. ASSUME NEW p \in Prospects, JobStepOf(p) PROVE ContentOK'
  BY <1>1, <1>7 DEF JobStepOf, Claim, Finish, Requeue, GiveUp, Sweep, Leaves, PutBack
<1>8. QED BY <1>2, <1>3, <1>4, <1>5, <1>6, <1>7 DEF Next, JobStepOf

\* A step adds an activation's snapshot, or leaves the active prompts as they
\* are and adds none or an edit's.
LEMMA SnapsGrow ==
  ASSUME TypeOK, [Next]_vars
  PROVE  \/ UNCHANGED <<snaps, active>>
         \/ UNCHANGED active /\ \E v \in Nat : Snapshot(v, "edit")
         \/ \E v \in Nat : Snapshot(v, "prompt")
<1>1. ASSUME NEW t \in Txs, Begins(t) PROVE UNCHANGED <<snaps, active>>
  BY <1>1, BeginsWork DEF Begin
<1>2. ASSUME NEW t \in Txs, Edit(t) \/ SetLimit(t)
      PROVE  UNCHANGED active /\ (UNCHANGED snaps \/ \E v \in Nat : Snapshot(v, "edit"))
  <2>1. row.version + 1 \in Nat
    BY RowParts
  <2>2. QED BY <1>2, <2>1 DEF Edit, SetLimit
<1>3. ASSUME NEW t \in Txs, Promote(t) PROVE \E v \in Nat : Snapshot(v, "prompt")
  <2>1. tx[t].saw.version + 1 \in Nat
    BY <1>3, DoingIsOpen DEF Promote, Open, Ops, Row
  <2>2. QED BY <1>3, <2>1 DEF Promote
<1>4. ASSUME NEW t \in Txs, Commits(t), ~(Edit(t) \/ SetLimit(t) \/ Promote(t)) PROVE UNCHANGED <<snaps, active>>
  BY <1>4 DEF Commits, Activate, PauseResume, Close, Delete, DryRun, Enrol, Retry
<1>5. QED
  BY <1>1, <1>2, <1>3, <1>4
  DEF Next, Abort, NextSample, SavePrompt, Claim, Finish, Requeue, GiveUp, Sweep, Leaves, Commits

\* What was recorded after a version stays recorded.
LEMMA RecordsStay ==
  ASSUME TypeOK, SnapshotsAddUp, [Next]_vars
  PROVE  \A a, v \in Nat :
           v <= row.version /\ Rewritten(a, v) /\ a # active'[Writer] =>
             \E i \in v + 1 .. Len(snaps') : snaps'[i].kind = "prompt"
<1> SUFFICES ASSUME NEW a \in Nat, NEW v \in Nat, v <= row.version, Rewritten(a, v), a # active'[Writer]
             PROVE  \E i \in v + 1 .. Len(snaps') : snaps'[i].kind = "prompt"
  OBVIOUS
<1>0. Len(snaps) = row.version /\ row.version \in Nat
  BY RowParts DEF SnapshotsAddUp
<1>1. CASE UNCHANGED <<snaps, active>>
  BY <1>1 DEF Rewritten
<1>2. CASE UNCHANGED active /\ \E n \in Nat : Snapshot(n, "edit")
  <2>1. PICK i \in v + 1 .. Len(snaps) : snaps[i].kind = "prompt"
    BY <1>2 DEF Rewritten
  <2>2. i \in 1 .. Len(snaps) /\ Len(snaps') = Len(snaps) + 1 /\ snaps'[i] = snaps[i]
    <3>1. PICK n \in Nat : Snapshot(n, "edit")
      BY <1>2
    <3>2. /\ Len(snaps') = Len(snaps) + 1 /\ \A j \in 1..Len(snaps) : snaps'[j] = snaps[j]
      <4>1. "edit" \in {"edit", "prompt"}
        OBVIOUS
      <4>2. QED BY <3>1, <4>1, SnapshotAdds
    <3>3. QED BY <3>2, <1>0
  <2>3. QED BY <2>1, <2>2, <1>0
<1>3. CASE \E n \in Nat : Snapshot(n, "prompt")
  <2>0. PICK n \in Nat : Snapshot(n, "prompt")
    BY <1>3
  <2>1. Len(snaps') = Len(snaps) + 1 /\ snaps'[Len(snaps) + 1].kind = "prompt"
    <3>1. "prompt" \in {"edit", "prompt"}
      OBVIOUS
    <3>2. snaps'[Len(snaps) + 1] = [version |-> n, kind |-> "prompt"] /\ Len(snaps') = Len(snaps) + 1
      BY <2>0, <3>1, SnapshotAdds
    <3>3. QED BY <3>2
  <2>2. Len(snaps) + 1 \in v + 1 .. Len(snaps')
    BY <2>1, <1>0
  <2>3. QED BY <2>1, <2>2
<1>4. QED BY <1>1, <1>2, <1>3, SnapsGrow

LEMMA RunsStep ==
  ASSUME TypeOK, SawOK, SnapshotsAddUp, RunsOK, [Next]_vars
  PROVE  RunsOK'
<1> DEFINE Told(a, v) == a # active'[Writer] => \E i \in v + 1 .. Len(snaps') : snaps'[i].kind = "prompt"
<1>1. \A a, v \in Nat : v <= row.version /\ Rewritten(a, v) => Told(a, v)
  BY RecordsStay
<1>2. row.version \in Nat /\ row'.version \in Nat /\ row'.version >= row.version
  <2>1. TypeOK' /\ row.version \in Nat /\ row'.version \in Nat
    BY SawStep, RowParts DEF TypeOK, Row
  <2>2. ASSUME NEW t \in Txs, Commits(t) PROVE row'.version \in {row.version, row.version + 1}
    BY <2>2, CommitType
  <2>3. ASSUME NEW t \in Txs, Begins(t) PROVE UNCHANGED row
    BY <2>3, BeginsWork DEF Begin
  <2>4. QED
    BY <2>1, <2>2, <2>3
    DEF Next, Abort, NextSample, SavePrompt, Claim, Finish, Requeue, GiveUp, Sweep, Leaves
<1>3. \A t \in Txs : Doing(t, "dry_run") =>
        /\ tx[t].to \in Nat /\ tx[t].saw.version \in Nat /\ tx[t].saw.version <= row.version
        /\ Told(tx[t].to, tx[t].saw.version)
  <2> SUFFICES ASSUME NEW t \in Txs, Doing(t, "dry_run")
               PROVE  /\ tx[t].to \in Nat /\ tx[t].saw.version \in Nat /\ tx[t].saw.version <= row.version
                      /\ Told(tx[t].to, tx[t].saw.version)
    OBVIOUS
  <2>1. tx[t].to \in Nat /\ tx[t].saw.version \in Nat
    BY DoingIsOpen DEF Open, Ops, Values, Row
  <2>2. tx[t].saw.version <= row.version
    BY DEF SawOK, Doing
  <2>3. Rewritten(tx[t].to, tx[t].saw.version)
    BY DEF RunsOK
  <2>4. QED BY <1>1, <2>1, <2>2, <2>3
<1>4. judged'.version <= row'.version /\ Told(judged'.prompt, judged'.version)
  <2>1. CASE UNCHANGED judged
    <3>1. judged.prompt \in Nat /\ judged.version \in Nat /\ judged.version <= row.version
      BY DEF RunsOK, TypeOK
    <3>2. Rewritten(judged.prompt, judged.version)
      BY DEF RunsOK
    <3>3. Told(judged.prompt, judged.version)
      BY <1>1, <3>1, <3>2
    <3>4. QED BY <1>2, <2>1, <3>1, <3>3
  <2>2. CASE \E t \in Txs : DryRun(t)
    <3>1. PICK t \in Txs : DryRun(t)
      BY <2>2
    <3>2. judged'.prompt = tx[t].to /\ judged'.version = tx[t].saw.version /\ Doing(t, "dry_run")
      BY <3>1 DEF DryRun
    <3>3. QED BY <1>2, <1>3, <3>2
  <2>3. ASSUME NEW t \in Txs, Begins(t) PROVE UNCHANGED judged
    BY <2>3, BeginsWork DEF Begin
  <2>4. QED
    BY <2>1, <2>2, <2>3
    DEF Next, Commits, Activate, PauseResume, Close, Delete, Edit, SetLimit, Promote, Enrol, Retry,
        Abort, NextSample, SavePrompt, Claim, Finish, Requeue, GiveUp, Sweep, Leaves
<1>5. ASSUME NEW s \in Txs, Doing(s, "dry_run")' PROVE Told(tx'[s].to, tx'[s].saw.version)
  <2>1. CASE UNCHANGED <<tx[s]>>
    BY <1>3, <1>5, <2>1 DEF Doing
  <2>2. CASE tx'[s].to = active[Writer] /\ UNCHANGED active
    BY <2>2
  <2>3. ASSUME NEW t \in Txs, Begins(t) PROVE UNCHANGED <<tx[s]>> \/ (tx'[s].to = active[Writer] /\ UNCHANGED active)
    <3>1. \A op \in Ops : \A arg, to : s # t /\ Begin(t, op, arg, to) => UNCHANGED <<tx[s]>>
      BY DEF Begin, TypeOK
    <3>2. \A op, arg, to : s = t /\ Begin(t, op, arg, to) => op = "dry_run" /\ tx'[s].to = to /\ UNCHANGED active
      BY <1>5 DEF Begin, TypeOK, Doing
    <3>3. CASE s # t
      BY <2>3, <3>1, <3>3, BeginsWork
    <3>4. CASE s = t
      BY <2>3, <3>2, <3>4
      DEF Begins, BeginLifecycle, Lifecycle, BeginSettings, BeginDryRun, BeginPromote, BeginEnrol, BeginRetry
    <3>5. QED BY <3>3, <3>4
  <2>4. ASSUME NEW t \in Txs, Commits(t) PROVE UNCHANGED <<tx[s]>>
    BY <1>5, <2>4, CommitType DEF Doing, Idle
  <2>5. ASSUME NEW t \in Txs, NextSample(t)
        PROVE  UNCHANGED <<tx[s]>> \/ (tx'[s].to = active[Writer] /\ UNCHANGED active)
    BY <2>5, NextSampleType DEF NextSample
  <2>6. ASSUME NEW t \in Txs, Abort(t) PROVE UNCHANGED <<tx[s]>>
    BY <1>5, <2>6 DEF Abort, Doing, TypeOK
  <2>7. QED
    BY <2>1, <2>2, <2>3, <2>4, <2>5, <2>6
    DEF Next, SavePrompt, Claim, Finish, Requeue, GiveUp, Sweep, Leaves
<1>6. QED BY <1>4, <1>5 DEF RunsOK, Rewritten

-----------------------------------------------------------------------------
(* Nobody is forgotten, and what is closed stays closed. *)

\* A lifecycle commit that met the status it read changes it as its operation
\* allows.
LEMMA LifecycleMoves ==
  ASSUME TypeOK, SawOK, NEW t \in Txs, "status" \notin stale'
  PROVE  /\ Activate(t) => row.status = "draft" /\ row'.status = "live"
         /\ PauseResume(t) => row.status \in {"live", "paused"} /\ row'.status \in {"live", "paused"}
         /\ Close(t) => \/ row.status \in {"live", "paused"} /\ row'.status = "completed"
                        \/ row.status \in {"completed", "draft", "paused", "live"} /\ row'.status = "archived"
         /\ Delete(t) => row.status = "archived" /\ row'.status = "deleted"
<1>1. ASSUME NEW op \in Lifecycle, Doing(t, op), Ends(t, {"status"})
      PROVE  row.status \in Accepts(op)
  <2>1. tx[t].saw.status = row.status
    BY <1>1, EndsFrees
  <2>2. QED BY <1>1, <2>1 DEF SawOK, Doing
<1>2. \A s \in Statuses : [row EXCEPT !.status = s].status = s
  BY RowChanges
<1>3. Activate(t) => row.status = "draft" /\ row'.status = "live"
  BY <1>1, <1>2 DEF Activate, Lifecycle, Accepts, Statuses
<1>4. PauseResume(t) => row.status \in {"live", "paused"} /\ row'.status \in {"live", "paused"}
  BY <1>1, <1>2 DEF PauseResume, Lifecycle, Accepts, Statuses
<1>5. Close(t) => \/ row.status \in {"live", "paused"} /\ row'.status = "completed"
                  \/ row.status \in {"completed", "draft", "paused", "live"} /\ row'.status = "archived"
  BY <1>1, <1>2 DEF Close, Lifecycle, Accepts, Statuses
<1>6. Delete(t) => row.status = "archived" /\ row'.status = "deleted"
  BY <1>1, <1>2 DEF Delete, Lifecycle, Accepts, Statuses
<1>7. QED BY <1>3, <1>4, <1>5, <1>6

LEMMA JobStep ==
  ASSUME TypeOK, SawOK, JobsOK, [Next]_vars
  PROVE  JobsOK'
<1> SUFFICES ASSUME "status" \notin stale', NEW q \in Prospects, enr'[q] = "new"
             PROVE  /\ job'[q] = "none" => row'.status \in {"draft", "archived"}
                    /\ job'[q] = "cancelled" => row'.status \in {"completed", "archived"}
  BY DEF JobsOK
<1> DEFINE Served == /\ job'[q] = "none" => row'.status \in {"draft", "archived"}
                     /\ job'[q] = "cancelled" => row'.status \in {"completed", "archived"}
<1>1. ASSUME row'.status = row.status, UNCHANGED people, stale \subseteq stale' PROVE Served
  BY <1>1 DEF JobsOK
<1>2. CASE UNCHANGED vars
  BY <1>1, <1>2
<1>3. ASSUME NEW t \in Txs, Begins(t) PROVE Served
  BY <1>1, <1>3, BeginsWork DEF Begin
<1>4. ASSUME NEW t \in Txs, Commits(t) PROVE Served
  <2>0. stale \subseteq stale'
    BY <1>4, EndsFrees DEF Commits, Activate, PauseResume, Close, Delete, Edit, SetLimit, DryRun, Promote, Enrol, Retry
  <2>1. CASE Activate(t)
    BY <2>0, <2>1, LifecycleMoves DEF Activate, TypeOK, JobsOK
  <2>2. CASE PauseResume(t)
    BY <2>0, <2>2, LifecycleMoves DEF PauseResume, JobsOK
  <2>3. CASE Close(t)
    BY <2>0, <2>3, LifecycleMoves DEF Close, TypeOK, JobsOK
  <2>4. CASE Delete(t)
    BY <2>4 DEF Delete
  <2>5. CASE Edit(t)
    BY <1>1, <2>0, <2>5, EditType DEF Edit
  <2>6. CASE SetLimit(t)
    BY <1>1, <2>0, <2>6, SetLimitType DEF SetLimit
  <2>7. CASE DryRun(t)
    BY <1>1, <2>0, <2>7 DEF DryRun
  <2>8. CASE Promote(t)
    BY <1>1, <2>0, <2>8, PromoteType DEF Promote
  <2>9. CASE Enrol(t)
    <3>0. Ends(t, {"status"}) /\ UNCHANGED row
      BY <2>9 DEF Enrol
    <3>1. tx[t].saw.status = row.status /\ UNCHANGED row
      BY <2>9, <3>0, EndsFrees
    <3>2. PICK S \in SUBSET Prospects :
            /\ Found(t, S)
            /\ enr' = [p \in Prospects |-> IF p \in S THEN "new" ELSE enr[p]]
            /\ job' = [p \in Prospects |-> IF p \in S /\ tx[t].saw.status # "draft" THEN "queued" ELSE job[p]]
      BY <2>9 DEF Enrol
    <3>3. CASE q \in S
      BY <3>1, <3>2, <3>3 DEF Found, Newcomers, TypeOK
    <3>4. CASE q \notin S
      BY <2>0, <3>1, <3>2, <3>4 DEF TypeOK, JobsOK
    <3>5. QED BY <3>3, <3>4
  <2>10. CASE Retry(t)
    BY <2>0, <2>10 DEF Retry, PutBack, TypeOK, JobsOK
  <2>11. QED BY <1>4, <2>1, <2>2, <2>3, <2>4, <2>5, <2>6, <2>7, <2>8, <2>9, <2>10 DEF Commits
<1>5. ASSUME NEW t \in Txs, Abort(t) \/ NextSample(t) PROVE Served
  BY <1>1, <1>5 DEF Abort, NextSample
<1>6. ASSUME NEW r \in Roles, SavePrompt(r) PROVE Served
  BY <1>1, <1>6 DEF SavePrompt
<1>7. ASSUME NEW p \in Prospects, JobStepOf(p) PROVE Served
  BY <1>7 DEF JobStepOf, Claim, Finish, Requeue, GiveUp, Sweep, Leaves, PutBack, TypeOK, JobsOK
<1>8. QED BY <1>2, <1>3, <1>4, <1>5, <1>6, <1>7 DEF Next, JobStepOf

LEMMA FailureStep ==
  ASSUME TypeOK, FailuresAreTold, [Next]_vars
  PROVE  FailuresAreTold'
<1>1. ASSUME UNCHANGED people PROVE FailuresAreTold'
  BY <1>1 DEF FailuresAreTold
<1>2. ASSUME NEW t \in Txs, Begins(t) PROVE UNCHANGED people
  BY <1>2, BeginsWork DEF Begin
<1>3. ASSUME NEW t \in Txs, Commits(t) PROVE FailuresAreTold'
  <2>1. CASE Activate(t) \/ Close(t) \/ Delete(t) \/ Enrol(t) \/ Retry(t)
    BY <2>1 DEF Activate, Close, Delete, Enrol, Retry, PutBack, FailuresAreTold, TypeOK
  <2>2. CASE PauseResume(t) \/ Edit(t) \/ SetLimit(t) \/ DryRun(t) \/ Promote(t)
    BY <1>1, <2>2 DEF PauseResume, Edit, SetLimit, DryRun, Promote
  <2>3. QED BY <1>3, <2>1, <2>2 DEF Commits
<1>4. ASSUME NEW p \in Prospects, JobStepOf(p) PROVE FailuresAreTold'
  BY <1>4 DEF JobStepOf, Claim, Finish, Requeue, GiveUp, Sweep, Leaves, PutBack, FailuresAreTold, TypeOK
<1>5. QED BY <1>1, <1>2, <1>3, <1>4 DEF Next, JobStepOf, Abort, NextSample, SavePrompt

LEMMA ClosedStep ==
  ASSUME TypeOK, SawOK, DeletedIsEmpty, [Next]_vars
  PROVE  /\ row.status = "deleted" => row' = row /\ UNCHANGED people
         /\ row.status = "archived" /\ row'.status \notin {"archived", "deleted"} => "status" \in stale'
         /\ row.status = "completed" /\ row'.status \notin Closed => "status" \in stale'
<1> DEFINE Stays == /\ row.status = "deleted" => row' = row /\ UNCHANGED people
                    /\ row.status = "archived" /\ row'.status \notin {"archived", "deleted"} => "status" \in stale'
                    /\ row.status = "completed" /\ row'.status \notin Closed => "status" \in stale'
<1>1. CASE UNCHANGED vars
  BY <1>1 DEF Closed
<1>2. ASSUME NEW t \in Txs, Begins(t) PROVE Stays
  BY <1>2, BeginsWork DEF Begin, Closed
<1>3. ASSUME NEW t \in Txs, Commits(t) PROVE Stays
  <2>1. row.status # "deleted"
    BY <1>3 DEF Commits, Activate, PauseResume, Close, Delete, Edit, SetLimit, DryRun, Promote, Enrol, Retry, Alive
  <2>2. CASE Activate(t) \/ PauseResume(t) \/ Close(t) \/ Delete(t)
    BY <2>1, <2>2, LifecycleMoves DEF Closed
  <2>3. CASE Edit(t) \/ SetLimit(t) \/ DryRun(t) \/ Promote(t) \/ Enrol(t) \/ Retry(t)
    BY <2>1, <2>3, EditType, SetLimitType, PromoteType DEF DryRun, Enrol, Retry, Closed
  <2>4. QED BY <1>3, <2>2, <2>3 DEF Commits
<1>4. ASSUME NEW t \in Txs, Abort(t) \/ NextSample(t) PROVE Stays
  BY <1>4 DEF Abort, NextSample, Closed
<1>5. ASSUME NEW r \in Roles, SavePrompt(r) PROVE Stays
  BY <1>5 DEF SavePrompt, Closed
<1>6. ASSUME NEW p \in Prospects, JobStepOf(p) PROVE Stays
  BY <1>6 DEF JobStepOf, Claim, Finish, Requeue, GiveUp, Sweep, Leaves, PutBack, Closed, TypeOK, DeletedIsEmpty
<1>7. QED BY <1>1, <1>2, <1>3, <1>4, <1>5, <1>6 DEF Next, JobStepOf

\* Nobody joins a deleted campaign.
LEMMA EmptyStep ==
  ASSUME TypeOK, SawOK, DeletedIsEmpty, [Next]_vars
  PROVE  DeletedIsEmpty'
<1>1. CASE row.status = "deleted"
  BY <1>1, ClosedStep DEF DeletedIsEmpty
<1>2. CASE row.status # "deleted"
  <2>1. ASSUME NEW t \in Txs, Begins(t) PROVE DeletedIsEmpty'
    BY <1>2, <2>1, BeginsWork DEF Begin, DeletedIsEmpty
  <2>2. ASSUME NEW t \in Txs, Commits(t) PROVE DeletedIsEmpty'
    <3>1. CASE Delete(t)
      BY <3>1 DEF Delete, DeletedIsEmpty
    <3>2. CASE Activate(t) \/ PauseResume(t) \/ Close(t)
      BY <3>2, RowChanges DEF Activate, PauseResume, Close, DeletedIsEmpty, Statuses
    <3>3. CASE Edit(t) \/ SetLimit(t) \/ DryRun(t) \/ Promote(t) \/ Enrol(t) \/ Retry(t)
      BY <1>2, <3>3, EditType, SetLimitType, PromoteType DEF DryRun, Enrol, Retry, DeletedIsEmpty
    <3>4. QED BY <2>2, <3>1, <3>2, <3>3 DEF Commits
  <2>3. CASE UNCHANGED row
    BY <1>2, <2>3 DEF DeletedIsEmpty
  <2>4. QED BY <2>1, <2>2, <2>3 DEF Next, Abort, NextSample, SavePrompt, Claim, Finish, Requeue, GiveUp, Sweep, Leaves
<1>3. QED BY <1>1, <1>2

-----------------------------------------------------------------------------
(* The invariant and its theorems. *)

LEMMA InitHolds ==
  ASSUME Init
  PROVE  IInv
<1> PICK limit \in [Channels -> Limits] :
      /\ row = [status |-> "draft", version |-> 1, content |-> 0, limit |-> limit]
      /\ dryOk = FALSE /\ daily = limit /\ snaps = <<[version |-> 1, kind |-> "create"]>> /\ judged = [content |-> 0, prompt |-> 1, version |-> 1]
      /\ active = [r \in Roles |-> 1] /\ saved = [r \in Roles |-> 1]
      /\ enr = [p \in Prospects |-> "none"] /\ job = [p \in Prospects |-> "none"]
      /\ stray = {} /\ esc = {} /\ tx = [t \in Txs |-> Idle] /\ stale = {} /\ budget = Budget
  BY DEF Init, Draft
<1>1. TypeOK
  <2>1. row \in Row
    BY DEF Row, Statuses
  <2>2. snaps \in Seq([version : Nat, kind : {"create", "edit", "prompt"}])
    OBVIOUS
  <2>3. DOMAIN tx = Txs /\ \A t \in Txs : tx[t] = Idle
    OBVIOUS
  <2>4. /\ enr \in [Prospects -> {"none", "new", "researched"}]
        /\ job \in [Prospects -> {"none", "queued", "running", "done", "cancelled", "failed"}]
        /\ stray \subseteq Prospects /\ esc \subseteq Prospects
        /\ \A p \in Prospects : enr[p] = "none" => job[p] = "none" /\ p \notin stray \cup esc
    OBVIOUS
  <2>5. dryOk \in BOOLEAN /\ daily \in [Channels -> Limits] /\ judged \in [content : Nat, prompt : Nat, version : Nat]
    OBVIOUS
  <2>6. active \in [Roles -> Nat] /\ saved \in [Roles -> Nat] /\ budget \in 0..Budget
    OBVIOUS
  <2>7. stale \subseteq {"status", "version", "content", "limit"}
    OBVIOUS
  <2>8. QED BY <2>1, <2>2, <2>3, <2>4, <2>5, <2>6, <2>7 DEF TypeOK
<1>2. SawOK /\ DeletedIsEmpty /\ LimitsAgree /\ ContentOK /\ JobsOK /\ FailuresAreTold
  BY DEF SawOK, DeletedIsEmpty, LimitsAgree, ContentOK, JobsOK, FailuresAreTold
<1>2a. RunsOK
  BY DEF RunsOK, Rewritten, Doing
<1>3. SnapshotsAddUp
  <2>1. Len(snaps) = 1 /\ snaps[1] = [version |-> 1, kind |-> "create"]
    OBVIOUS
  <2>2. \A i \in 1..Len(snaps) : i = 1
    BY <2>1
  <2>3. QED BY <2>1, <2>2 DEF SnapshotsAddUp
<1>4. QED BY <1>1, <1>2, <1>2a, <1>3 DEF IInv

LEMMA InvStep ==
  ASSUME IInv, [Next]_vars
  PROVE  IInv'
BY SawStep, EmptyStep, SnapshotStep, LimitStep, ContentStep, RunsStep, JobStep, FailureStep DEF IInv

\* The strengthened invariant holds throughout, whatever requests overlap.
THEOREM Invariance == Spec => []IInv
<1>1. Init => IInv
  BY InitHolds
<1>2. IInv /\ [Next]_vars => IInv'
  BY InvStep
<1>3. QED BY <1>1, <1>2, PTL DEF Spec

\* Every variable keeps its type, and a job its enrollment.
THEOREM TypeCorrect == Spec => []TypeOK
<1>1. IInv => TypeOK
  BY DEF IInv
<1>2. QED BY <1>1, Invariance, PTL

\* However many requests overlap, there is a snapshot for each version and an
\* edit's carries its own number.
THEOREM VersionsAreRecorded == Spec => []SnapshotsAddUp
<1>1. IInv => SnapshotsAddUp
  BY DEF IInv
<1>2. QED BY <1>1, Invariance, PTL

\* The two copies of the daily limits differ only after overlapping changes.
THEOREM LimitsStayEqual == Spec => []LimitsAgree
<1>1. IInv => LimitsAgree
  BY DEF IInv
<1>2. QED BY <1>1, Invariance, PTL

\* A passed dry run judged the content as it is, unless an edit overtook it, and
\* the Writer prompt as it is, unless an activation is on record since.
THEOREM DryRunIsCurrent == Spec => []DryRunDescribes
<1>1. IInv => DryRunDescribes
  BY DEF IInv, ContentOK, RunsOK, DryRunDescribes
<1>2. QED BY <1>1, Invariance, PTL

\* A live campaign has a research job for every new prospect, or an escalation
\* for a job given up, unless a status was overwritten unseen.
THEOREM EveryoneIsServed == Spec => []NobodyForgotten
<1>1. IInv => NobodyForgotten
  BY DEF IInv, TypeOK, JobsOK, FailuresAreTold, NobodyForgotten
<1>2. QED BY <1>1, Invariance, PTL

\* Closed campaigns stay closed, unless a status was overwritten unseen.
THEOREM ClosingIsFinal == Spec => ClosedStays
<1>1. IInv /\ [Next]_vars =>
        [/\ row.status = "deleted" => row' = row /\ UNCHANGED people
         /\ row.status = "archived" /\ row'.status \notin {"archived", "deleted"} => "status" \in stale'
         /\ row.status = "completed" /\ row'.status \notin Closed => "status" \in stale']_vars
  BY ClosedStep DEF IInv
<1>2. QED BY <1>1, Invariance, PTL DEF Spec, ClosedStays
=============================================================================
