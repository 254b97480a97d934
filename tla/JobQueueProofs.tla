--------------------------- MODULE JobQueueProofs ---------------------------
(***************************************************************************)
(* What holds of JobQueue for any jobs, any workers and any cap: the type  *)
(* invariant, that a job which was never taken from its worker has one     *)
(* executor, that every further run of a job is accounted for, the cap of  *)
(* several worker processes and of one, and the refinement of JobLedger.   *)
(***************************************************************************)
EXTENDS JobQueue, FiniteSetTheorems, TLAPS

\* Every step of the specification, one disjunct per action.
LEMMA StepCases ==
  ASSUME Next
  PROVE  \/ \E w \in Workers :
              \/ SweepStale(w) \/ CountRoom(w) \/ TakeJobs(w)
              \/ BeginJob(w) \/ SkipJob(w) \/ EndBatch(w)
              \/ FinishJob(w) \/ HoldJob(w) \/ DropDraft(w)
              \/ RaiseJob(w) \/ RecordFailure(w) \/ LoseFailure(w)
              \/ Crash(w) \/ Restart(w)
         \/ \E j \in Jobs : TimePasses(j) \/ Enqueue(j) \/ AskRetry(j) \/ Requeue(j)
         \/ CancelDrafts \/ PauseCampaign \/ ResumeCampaign \/ CloseCampaign
         \/ SetKill \/ \E a \in Agents : ToggleAgent(a)
BY DEF Next, WorkerStep, JobStep, OperatorStep

-----------------------------------------------------------------------------
(* Type correctness.                                                       *)

\* A worker handles a job, or cannot record its failure, exactly while cur
\* names one; and a batch exists only between a claim and the end of its run.
Placed ==
  \A w \in Workers :
    /\ step[w] \in {"handling", "failing"} <=> cur[w] \in Jobs
    /\ cur[w] \notin batch[w]
    /\ step[w] \in {"idle", "counted", "down"} => batch[w] = {}

\* A set of running jobs is finite, and its size is a natural number.
LEMMA RunningFinite ==
  ASSUME TypeOK
  PROVE  IsFiniteSet(Running) /\ Cardinality(Running) \in Nat
<1>1. Running \subseteq Jobs
  BY DEF Running, WithStatus
<1>2. QED
  BY <1>1, JobAssumption, FS_Subset, FS_CardinalityType

LEMMA TypePreserved ==
  ASSUME TypeOK, Placed, [Next]_vars
  PROVE  TypeOK'
<1> USE DEF TypeOK, switches, rows, history, procs
<1>1. CASE UNCHANGED vars
  BY <1>1 DEF vars
<1>2. ASSUME NEW w \in Workers, SweepStale(w) PROVE TypeOK'
  BY <1>2 DEF SweepStale, SetAll, Status, Running, WithStatus, Taken
<1>3. ASSUME NEW w \in Workers, CountRoom(w) PROVE TypeOK'
  <2>1. Cap - Cardinality(Running) \in 0..Cap
    BY <1>3, RunningFinite, CapAssumption DEF CountRoom
  <2>2. QED
    BY <1>3, <2>1 DEF CountRoom, Steps
<1>4. ASSUME NEW w \in Workers, TakeJobs(w) PROVE TypeOK'
  <2>1. PICK S \in SUBSET Claimable : Mark(w, S)
    BY <1>4 DEF TakeJobs
  <2>2. S \subseteq Jobs
    BY <2>1 DEF Claimable, WithStatus
  <2>3. status' \in [Jobs -> Status] /\ due' \in [Jobs -> BOOLEAN] /\ attempts' \in [Jobs -> Nat]
    BY <2>1, <2>2 DEF Mark, SetAll, Status
  <2>4. seen' \in [Workers -> [Jobs -> Nat]]
    BY <2>1, <2>2 DEF Mark
  <2>5. batch' \in [Workers -> SUBSET Jobs] /\ step' \in [Workers -> Steps]
    BY <2>1, <2>2 DEF Mark, Steps
  <2>6. room' \in [Workers -> 0..Cap]
    BY <2>1, CapAssumption DEF Mark
  <2>7. QED
    BY <2>1, <2>3, <2>4, <2>5, <2>6 DEF Mark
<1>5. ASSUME NEW w \in Workers,
             BeginJob(w) \/ SkipJob(w) \/ EndBatch(w) \/ RaiseJob(w) \/ Restart(w)
      PROVE  TypeOK'
  <2>1. CASE BeginJob(w)
    BY <2>1 DEF BeginJob, Steps
  <2>2. CASE SkipJob(w)
    <3>1. PICK j \in batch[w] : /\ batch' = [batch EXCEPT ![w] = @ \ {j}]
                               /\ seen' = [seen EXCEPT ![w][j] = 0]
      BY <2>2 DEF SkipJob
    <3>2. QED
      BY <2>2, <3>1 DEF SkipJob
  <2>3. CASE EndBatch(w) \/ RaiseJob(w) \/ Restart(w)
    BY <2>3 DEF EndBatch, RaiseJob, Restart, Steps
  <2>4. QED
    BY <1>5, <2>1, <2>2, <2>3
<1>6. ASSUME NEW w \in Workers, cur[w] \in Jobs, LetGo(w)
      PROVE  /\ cur' \in [Workers -> Jobs \cup {NoJob}]
             /\ step' \in [Workers -> Steps]
             /\ seen' \in [Workers -> [Jobs -> Nat]]
             /\ room' = room /\ batch' = batch
  BY <1>6 DEF LetGo, Steps
<1>7. ASSUME NEW w \in Workers,
             FinishJob(w) \/ HoldJob(w) \/ DropDraft(w) \/ RecordFailure(w) \/ LoseFailure(w)
      PROVE  TypeOK'
  <2>1. cur[w] \in Jobs /\ LetGo(w)
    BY <1>7 DEF FinishJob, HoldJob, DropDraft, RecordFailure, LoseFailure, Placed
  <2>2. status' \in [Jobs -> Status] /\ due' \in [Jobs -> BOOLEAN]
    <3>1. CASE FinishJob(w)
      BY <3>1, <2>1 DEF FinishJob, SetAll, Status
    <3>2. CASE HoldJob(w) \/ DropDraft(w)
      BY <3>2, <2>1 DEF HoldJob, DropDraft, Status
    <3>3. CASE RecordFailure(w)
      BY <3>3, <2>1 DEF RecordFailure, Status
    <3>4. CASE LoseFailure(w)
      BY <3>4 DEF LoseFailure
    <3>5. QED
      BY <1>7, <3>1, <3>2, <3>3, <3>4
  <2>3. trouble' \in 0..MaxTrouble
    BY <1>7, BoundAssumption DEF FinishJob, HoldJob, DropDraft, RecordFailure, LoseFailure
  <2>4. UNCHANGED <<switches, attempts, asking, taken>> /\ finished' \in [Jobs -> Nat]
    BY <1>7, <2>1 DEF FinishJob, HoldJob, DropDraft, RecordFailure, LoseFailure
  <2>5. QED
    BY <1>6, <2>1, <2>2, <2>3, <2>4
<1>8. ASSUME NEW w \in Workers, Crash(w) PROVE TypeOK'
  BY <1>8, CapAssumption, BoundAssumption DEF Crash, Steps
<1>9. ASSUME NEW j \in Jobs, TimePasses(j) \/ Enqueue(j) \/ AskRetry(j) \/ Requeue(j) PROVE TypeOK'
  <2>1. CASE TimePasses(j)
    BY <2>1 DEF TimePasses
  <2>2. CASE Enqueue(j)
    BY <2>2 DEF Enqueue, Status
  <2>3. CASE AskRetry(j)
    BY <2>3, BoundAssumption DEF AskRetry
  <2>4. CASE Requeue(j)
    BY <2>4 DEF Requeue, Status, Taken
  <2>5. QED
    BY <1>9, <2>1, <2>2, <2>3, <2>4
<1>10. ASSUME CancelDrafts \/ CloseCampaign PROVE TypeOK'
  BY <1>10 DEF CancelDrafts, CloseCampaign, SetAll, Status
<1>11. ASSUME PauseCampaign \/ ResumeCampaign \/ SetKill \/ \E a \in Agents : ToggleAgent(a)
       PROVE  TypeOK'
  BY <1>11 DEF PauseCampaign, ResumeCampaign, SetKill, ToggleAgent
<1> HIDE DEF TypeOK
<1>12. CASE Next
  BY <1>12, <1>2, <1>3, <1>4, <1>5, <1>7, <1>8, <1>9, <1>10, <1>11, StepCases
<1>13. QED
  BY <1>1, <1>12

LEMMA PlacedPreserved ==
  ASSUME TypeOK, Placed, [Next]_vars
  PROVE  Placed'
<1> USE DEF Placed, procs
<1>0. NoJob \notin Jobs
  BY JobAssumption
<1>1. CASE UNCHANGED vars
  BY <1>1 DEF vars
<1>2. ASSUME UNCHANGED <<step, batch, cur>> PROVE Placed'
  BY <1>2
<1>3. ASSUME NEW w \in Workers, CountRoom(w) \/ SweepStale(w) \/ Restart(w) \/ EndBatch(w)
      PROVE  Placed'
  BY <1>3 DEF CountRoom, SweepStale, Restart, EndBatch, TypeOK
<1>4. ASSUME NEW w \in Workers, TakeJobs(w) PROVE Placed'
  <2>1. PICK S \in SUBSET Claimable : Mark(w, S)
    BY <1>4 DEF TakeJobs
  <2>2. S \subseteq Jobs
    BY <2>1 DEF Claimable, WithStatus
  <2>3. step[w] = "counted" /\ cur' = cur /\ batch' = [batch EXCEPT ![w] = S]
        /\ step' = [step EXCEPT ![w] = IF S = {} THEN "idle" ELSE "ready"]
    BY <1>4, <2>1 DEF TakeJobs, Mark
  <2>4. QED
    BY <2>2, <2>3 DEF TypeOK
<1>5. ASSUME NEW w \in Workers, BeginJob(w) \/ SkipJob(w) \/ RaiseJob(w) PROVE Placed'
  <2>1. CASE BeginJob(w)
    BY <2>1 DEF BeginJob, TypeOK
  <2>2. CASE SkipJob(w)
    BY <2>2 DEF SkipJob, TypeOK
  <2>3. CASE RaiseJob(w)
    BY <2>3 DEF RaiseJob, TypeOK
  <2>4. QED
    BY <1>5, <2>1, <2>2, <2>3
<1>6. ASSUME NEW w \in Workers,
             FinishJob(w) \/ HoldJob(w) \/ DropDraft(w) \/ RecordFailure(w) \/ LoseFailure(w)
      PROVE  Placed'
  <2>1. /\ step[w] \in {"handling", "failing"}
        /\ cur' = [cur EXCEPT ![w] = NoJob]
        /\ step' = [step EXCEPT ![w] = "ready"]
        /\ batch' = batch
    BY <1>6 DEF FinishJob, HoldJob, DropDraft, RecordFailure, LoseFailure, LetGo
  <2>2. QED
    BY <1>0, <2>1 DEF TypeOK
<1>7. ASSUME NEW w \in Workers, Crash(w) PROVE Placed'
  BY <1>0, <1>7 DEF Crash, TypeOK
<1>8. ASSUME NEW j \in Jobs, TimePasses(j) \/ Enqueue(j) \/ AskRetry(j) \/ Requeue(j) PROVE Placed'
  <2>1. UNCHANGED <<step, batch, cur>>
    BY <1>8 DEF TimePasses, Enqueue, AskRetry, Requeue
  <2>2. QED
    BY <1>2, <2>1
<1>9. ASSUME \/ CancelDrafts \/ PauseCampaign \/ ResumeCampaign \/ CloseCampaign
             \/ SetKill \/ \E a \in Agents : ToggleAgent(a)
      PROVE  Placed'
  <2>1. UNCHANGED <<step, batch, cur>>
    BY <1>9 DEF CancelDrafts, PauseCampaign, ResumeCampaign, CloseCampaign, SetKill, ToggleAgent
  <2>2. QED
    BY <1>2, <2>1
<1> HIDE DEF Placed
<1>10. CASE Next
  BY <1>10, <1>3, <1>4, <1>5, <1>6, <1>7, <1>8, <1>9, StepCases
<1>11. QED
  BY <1>1, <1>10

LEMMA InitTyped == Init => TypeOK /\ Placed
<1>1. ASSUME Init PROVE TypeOK
  <2>1. status \in [Jobs -> Status] /\ attempts \in [Jobs -> Nat] /\ due \in [Jobs -> BOOLEAN]
    BY <1>1 DEF Init, Status
  <2>2. step \in [Workers -> Steps] /\ batch \in [Workers -> SUBSET Jobs]
    BY <1>1 DEF Init, Steps
  <2>3. room \in [Workers -> 0..Cap] /\ trouble \in 0..MaxTrouble
    BY <1>1, CapAssumption, BoundAssumption DEF Init
  <2>4. cur \in [Workers -> Jobs \cup {NoJob}] /\ seen \in [Workers -> [Jobs -> Nat]]
    BY <1>1 DEF Init
  <2>5. /\ camp \in {"live", "paused", "closed"} /\ kill \in BOOLEAN
        /\ agentOn \in [Agents -> BOOLEAN] 
        /\ asking \in [Jobs -> Nat] /\ taken \in [Jobs -> Nat] /\ finished \in [Jobs -> Nat]
    BY <1>1 DEF Init
  <2>6. QED
    BY <2>1, <2>2, <2>3, <2>4, <2>5 DEF TypeOK
<1>2. ASSUME Init PROVE Placed
  BY <1>2, JobAssumption DEF Init, Placed
<1>3. QED
  BY <1>1, <1>2

\* Every row and every worker of the queue keeps to its type: the room a claim
\* counts is never negative, and only jobs of the table are held.
THEOREM TypeCorrect == Spec => [](TypeOK /\ Placed)
<1>1. TypeOK /\ Placed /\ [Next]_vars => (TypeOK /\ Placed)'
  BY TypePreserved, PlacedPreserved
<1>2. QED
  BY InitTyped, <1>1, PTL DEF Spec
-----------------------------------------------------------------------------
(* One executor per job. The invariant adds to SoleHolder that the count a *)
(* worker was given with its claim is still the row's count, which is why  *)
(* record_failure() may decide on it without reading the row again.        *)

\* The jobs queued again, at least once, though they were not free.
stolen == {j \in Jobs : taken[j] # 0}

\* A job that was never taken has one executor, and its row says running for
\* as long as the worker holds it.
SoleHolder ==
  \A j \in Jobs \ stolen, w \in Workers :
    j \in Held(w) =>
      /\ status[j] = "running"
      /\ \A v \in Workers : j \in Held(v) => v = w

CountsAgree ==
  \A w \in Workers : \A j \in Held(w) \ stolen : seen[w][j] = attempts[j]

HolderInv == TypeOK /\ Placed /\ SoleHolder /\ CountsAgree /\ GiveUpIsEarned

\* The steps that leave batches and current jobs alone.
Outside ==
  \/ \E w \in Workers : SweepStale(w) \/ CountRoom(w) \/ EndBatch(w) \/ RaiseJob(w) \/ Restart(w)
  \/ \E j \in Jobs : TimePasses(j) \/ Enqueue(j) \/ AskRetry(j) \/ Requeue(j)
  \/ CancelDrafts \/ PauseCampaign \/ ResumeCampaign \/ CloseCampaign
  \/ SetKill \/ \E a \in Agents : ToggleAgent(a)

\* The steps that end a job's run.
Release(w) ==
  FinishJob(w) \/ HoldJob(w) \/ DropDraft(w) \/ RecordFailure(w) \/ LoseFailure(w)

LEMMA Split ==
  ASSUME Next
  PROVE  \/ Outside
         \/ \E w \in Workers : TakeJobs(w) \/ BeginJob(w) \/ SkipJob(w) \/ Crash(w) \/ Release(w)
BY StepCases DEF Outside, Release

LEMMA OutsideFrame ==
  ASSUME Outside
  PROVE  UNCHANGED <<batch, cur, seen>>
BY DEF Outside, SweepStale, CountRoom, EndBatch, RaiseJob, Restart, TimePasses, Enqueue,
       AskRetry, Requeue, CancelDrafts, PauseCampaign, ResumeCampaign, CloseCampaign, SetKill,
       ToggleAgent, procs

\* A step of this kind changes the status and the count of idle rows only: a
\* row that says running and has a holder keeps both unless the job is taken,
\* and a settled row is rewritten by a late retry alone.
LEMMA OutsideRows ==
  ASSUME TypeOK, Outside
  PROVE  /\ stolen \subseteq stolen'
         /\ \A j \in Jobs :
              /\ status[j] = "running" /\ (\E w \in Workers : j \in Held(w)) /\ j \notin stolen' =>
                   status'[j] = "running" /\ attempts'[j] = attempts[j]
              /\ status'[j] = "failed" => status[j] = "failed" /\ attempts'[j] = attempts[j]
              /\ status[j] \in {"done", "cancelled"} =>
                   status'[j] = status[j] \/ taken'[j] = taken[j] + 1
<1> USE DEF TypeOK, SetAll, WithStatus, Running
<1>1. ASSUME NEW w \in Workers, SweepStale(w)
      PROVE  /\ attempts' = attempts /\ stolen \subseteq stolen'
             /\ \A j \in Jobs :
                  /\ status[j] = "running" /\ (\E v \in Workers : j \in Held(v)) /\ j \notin stolen' =>
                       status'[j] = "running"
                  /\ status[j] # "running" => status'[j] = status[j]
                  /\ status'[j] \in {status[j], "queued"}
  <2> DEFINE stale == {j \in Running : due[j]}
  <2>1. /\ status' = SetAll(stale, "queued") /\ attempts' = attempts
        /\ taken' = Taken(stale)
    BY <1>1 DEF SweepStale
  <2>2. stale \subseteq {j \in Jobs : status[j] = "running"}
    OBVIOUS
  <2> HIDE DEF stale
  <2>3. \A j \in Jobs : taken'[j] = IF j \in stale /\ ~Open(j) THEN taken[j] + 1 ELSE taken[j]
    BY <2>1 DEF Taken
  <2>4. stolen \subseteq stolen'
    BY <2>3 DEF stolen
  <2>5. \A j \in stale : (\E v \in Workers : j \in Held(v)) => j \in stolen'
    <3>1. ASSUME NEW j \in stale, NEW v \in Workers, j \in Held(v) PROVE ~Open(j)
      BY <2>2, <3>1 DEF Open, Holders
    <3>2. QED
      BY <2>2, <2>3, <3>1 DEF stolen
  <2>6. QED
    BY <2>1, <2>2, <2>4, <2>5
<1>2. ASSUME \/ \E w \in Workers : CountRoom(w) \/ EndBatch(w) \/ RaiseJob(w) \/ Restart(w)
             \/ \E j \in Jobs : TimePasses(j) \/ AskRetry(j)
             \/ PauseCampaign \/ ResumeCampaign
             \/ SetKill \/ \E a \in Agents : ToggleAgent(a)
      PROVE  UNCHANGED <<status, attempts, taken>>
  BY <1>2 DEF CountRoom, EndBatch, RaiseJob, Restart, TimePasses, AskRetry, PauseCampaign,
       ResumeCampaign, SetKill, ToggleAgent, rows, history
<1>3. ASSUME CancelDrafts \/ CloseCampaign
      PROVE  /\ UNCHANGED <<attempts, taken>>
             /\ \A j \in Jobs :
                  \/ status'[j] = status[j]
                  \/ status[j] = "queued" /\ status'[j] = "cancelled"
  <2>1. CASE CancelDrafts
    BY <2>1 DEF CancelDrafts, history
  <2>2. CASE CloseCampaign
    BY <2>2 DEF CloseCampaign, history
  <2>3. QED
    BY <1>3, <2>1, <2>2
<1>4. ASSUME NEW i \in Jobs, Enqueue(i)
      PROVE  /\ taken' = taken
             /\ \A j \in Jobs :
                  \/ status'[j] = status[j] /\ attempts'[j] = attempts[j]
                  \/ status[j] = "absent" /\ status'[j] = "queued"
  BY <1>4 DEF Enqueue, history
<1>5. ASSUME NEW i \in Jobs, Requeue(i)
      PROVE  /\ \A j \in Jobs : taken'[j] = IF j = i /\ ~Open(j) THEN taken[j] + 1 ELSE taken[j]
             /\ \A j \in Jobs \ {i} : status'[j] = status[j] /\ attempts'[j] = attempts[j]
             /\ status'[i] = "queued"
  BY <1>5 DEF Requeue, Taken
<1> HIDE DEF TypeOK, SetAll, WithStatus, Running
<1>6. CASE \E w \in Workers : SweepStale(w)
  BY <1>1, <1>6
<1>7. CASE \/ \E w \in Workers : CountRoom(w) \/ EndBatch(w) \/ RaiseJob(w) \/ Restart(w)
           \/ \E j \in Jobs : TimePasses(j) \/ AskRetry(j)
           \/ PauseCampaign \/ ResumeCampaign
           \/ SetKill \/ \E a \in Agents : ToggleAgent(a)
  BY <1>2, <1>7 DEF stolen
<1>8. CASE CancelDrafts \/ CloseCampaign
  BY <1>3, <1>8 DEF stolen
<1>9. CASE \E j \in Jobs : Enqueue(j)
  BY <1>4, <1>9 DEF stolen
<1>10. ASSUME NEW i \in Jobs, Requeue(i)
       PROVE  /\ stolen \subseteq stolen'
              /\ status[i] = "running" /\ (\E w \in Workers : i \in Held(w)) => i \in stolen'
              /\ status[i] \in {"done", "cancelled"} => taken'[i] = taken[i] + 1
  <2>1. taken \in [Jobs -> Nat]
    BY DEF TypeOK
  <2>2. stolen \subseteq stolen'
    BY <1>5, <1>10, <2>1 DEF stolen
  <2>3. status[i] = "running" /\ (\E w \in Workers : i \in Held(w)) => ~Open(i)
    BY DEF Open, Holders
  <2>4. status[i] \in {"done", "cancelled"} => ~Open(i)
    BY DEF Open
  <2>5. QED
    BY <1>5, <1>10, <2>1, <2>2, <2>3, <2>4 DEF stolen
<1>11. CASE \E j \in Jobs : Requeue(j)
  BY <1>5, <1>10, <1>11
<1>12. QED
  BY <1>6, <1>7, <1>8, <1>9, <1>11 DEF Outside

\* After a release the worker holds its batch and nothing else changed hands.
LEMMA ReleaseFrame ==
  ASSUME TypeOK, Placed, NEW w \in Workers, Release(w)
  PROVE  /\ cur[w] \in Jobs /\ cur[w] \in Held(w) /\ cur[w] \notin Held(w)'
         /\ \A v \in Workers : Held(v)' \subseteq Held(v)
         /\ \A v \in Workers : \A j \in Jobs : j # cur[w] => seen'[v][j] = seen[v][j]
         /\ UNCHANGED <<attempts, taken>>
<1>1. /\ step[w] \in {"handling", "failing"} /\ LetGo(w) /\ UNCHANGED <<attempts, taken>>
  BY DEF Release, FinishJob, HoldJob, DropDraft, RecordFailure, LoseFailure, rows, history
<1>2. cur[w] \in Jobs /\ cur[w] \notin batch[w]
  BY <1>1 DEF Placed
<1>3. batch' = batch /\ cur' = [cur EXCEPT ![w] = NoJob] /\ seen' = [seen EXCEPT ![w][cur[w]] = 0]
  BY <1>1 DEF LetGo
<1>4. QED
  BY <1>1, <1>2, <1>3, JobAssumption DEF Held, TypeOK

\* A release settles the worker's own job; the others at most appear.
LEMMA ReleaseRows ==
  ASSUME TypeOK, Placed, NEW w \in Workers, Release(w)
  PROVE  /\ \A j \in Jobs : j # cur[w] =>
              \/ status'[j] = status[j]
              \/ status[j] = "absent" /\ status'[j] = "queued"
         /\ status'[cur[w]] = "failed" =>
              status[cur[w]] = "failed" \/ seen[w][cur[w]] >= GiveUp
<1>1. cur[w] \in Jobs
  BY ReleaseFrame
<1>2. CASE FinishJob(w)
  BY <1>1, <1>2 DEF FinishJob, SetAll, WithStatus, TypeOK
<1>3. CASE HoldJob(w) \/ DropDraft(w)
  BY <1>1, <1>3 DEF HoldJob, DropDraft, TypeOK
<1>4. CASE RecordFailure(w)
  <2>1. seen[w][cur[w]] \in Nat
    BY <1>1 DEF TypeOK
  <2>2. QED
    BY <1>1, <1>4, <2>1, GiveUpAssumption DEF RecordFailure, TypeOK
<1>5. CASE LoseFailure(w)
  BY <1>5 DEF LoseFailure, rows
<1>6. QED
  BY <1>2, <1>3, <1>4, <1>5 DEF Release

\* A step that hands out no job and keeps the rows of the held ones as they
\* are keeps the invariant's two claims about them.
LEMMA HoldersKept ==
  ASSUME SoleHolder, CountsAgree,
         stolen \subseteq stolen',
         \A v \in Workers : Held(v)' \subseteq Held(v),
         \A v \in Workers : \A j \in Jobs \ stolen' : j \in Held(v)' =>
            status'[j] = "running" /\ attempts'[j] = attempts[j] /\ seen'[v][j] = seen[v][j],
         \A v \in Workers : Held(v)' \subseteq Jobs
  PROVE  SoleHolder' /\ CountsAgree'
<1>1. SoleHolder'
  BY DEF SoleHolder
<1>2. CountsAgree'
  BY DEF CountsAgree
<1>3. QED
  BY <1>1, <1>2

LEMMA HeldAreJobs ==
  ASSUME TypeOK
  PROVE  \A v \in Workers : Held(v) \subseteq Jobs
BY DEF TypeOK, Held

LEMMA HolderPreserved ==
  ASSUME HolderInv, [Next]_vars
  PROVE  HolderInv'
<1>0. TypeOK /\ Placed /\ SoleHolder /\ CountsAgree /\ GiveUpIsEarned
  BY DEF HolderInv
<1>a. TypeOK' /\ Placed'
  BY <1>0, TypePreserved, PlacedPreserved
<1>b. \A v \in Workers : Held(v)' \subseteq Jobs
  BY <1>a, HeldAreJobs DEF TypeOK, Held
<1>1. CASE UNCHANGED vars
  BY <1>0, <1>1 DEF vars, switches, rows, history, procs, HolderInv, TypeOK, Placed, SoleHolder,
     CountsAgree, GiveUpIsEarned, Held, stolen
<1>2. CASE Outside
  <2>1. \A v \in Workers : Held(v)' = Held(v) /\ seen' = seen
    BY <1>2, OutsideFrame DEF Held
  <2>2. SoleHolder' /\ CountsAgree'
    <3>1. \A v \in Workers : \A j \in Jobs \ stolen' : j \in Held(v)' =>
             status'[j] = "running" /\ attempts'[j] = attempts[j]
      BY <1>0, <1>2, <2>1, OutsideRows DEF SoleHolder
    <3>2. QED
      BY <1>0, <1>2, <1>b, <2>1, <3>1, OutsideRows, HoldersKept
  <2>3. GiveUpIsEarned'
    BY <1>0, <1>a, <1>2, OutsideRows DEF GiveUpIsEarned, stolen, TypeOK
  <2>4. QED
    BY <1>a, <2>2, <2>3 DEF HolderInv
<1>3. ASSUME NEW w \in Workers, TakeJobs(w) PROVE HolderInv'
  <2>1. PICK S \in SUBSET Claimable : Mark(w, S)
    BY <1>3 DEF TakeJobs
  <2>2. S \subseteq Jobs /\ \A j \in S : status[j] = "queued"
    BY <2>1 DEF Claimable, WithStatus
  <2>3. /\ stolen' = stolen /\ cur' = cur /\ taken' = taken
        /\ Held(w) = {} /\ Held(w)' = S
        /\ \A v \in Workers : v # w => Held(v)' = Held(v)
    <3>1. batch[w] = {} /\ cur[w] \notin Jobs
      BY <1>0, <1>3 DEF TakeJobs, Placed, TypeOK
    <3>2. batch' = [batch EXCEPT ![w] = S] /\ cur' = cur /\ taken' = taken
      BY <2>1 DEF Mark, history
    <3>3. QED
      BY <1>0, <3>1, <3>2 DEF Held, TypeOK, stolen
  <2>4. \A j \in Jobs : /\ status'[j] = IF j \in S THEN "running" ELSE status[j]
                        /\ attempts'[j] = IF j \in S THEN attempts[j] + 1 ELSE attempts[j]
    BY <2>1 DEF Mark, SetAll
  <2>5. /\ \A j \in S : seen'[w][j] = attempts[j] + 1
        /\ \A v \in Workers : v # w => seen'[v] = seen[v]
    BY <1>0, <2>1, <2>2 DEF Mark, TypeOK
  <2>6. SoleHolder'
    BY <1>0, <1>b, <2>2, <2>3, <2>4 DEF SoleHolder
  <2>7. CountsAgree'
    <3>1. ASSUME NEW v \in Workers, NEW j \in Held(v)' \ stolen'
          PROVE  seen'[v][j] = attempts'[j]
      <4>1. j \in Jobs
        BY <1>b
      <4>2. CASE v = w
        BY <2>3, <2>4, <2>5, <4>1, <4>2
      <4>3. CASE v # w
        <5>1. j \in Held(v) \ stolen
          BY <2>3, <4>3
        <5>2. seen[v][j] = attempts[j] /\ status[j] = "running"
          BY <1>0, <4>1, <5>1 DEF CountsAgree, SoleHolder
        <5>3. QED
          BY <2>2, <2>4, <2>5, <4>1, <4>3, <5>2
      <4>4. QED
        BY <4>2, <4>3
    <3>2. QED
      BY <3>1 DEF CountsAgree
  <2>8. GiveUpIsEarned'
    BY <1>0, <2>2, <2>3, <2>4 DEF GiveUpIsEarned, stolen
  <2>9. QED
    BY <1>a, <2>6, <2>7, <2>8 DEF HolderInv
<1>4. ASSUME NEW w \in Workers, BeginJob(w) \/ SkipJob(w) \/ Crash(w) PROVE HolderInv'
  <2>1. UNCHANGED <<status, attempts, taken, stolen>>
    BY <1>4 DEF BeginJob, SkipJob, Crash, rows, history, stolen
  <2>2. /\ \A v \in Workers : Held(v)' \subseteq Held(v)
        /\ \A v \in Workers : \A j \in Held(v)' : seen'[v][j] = seen[v][j]
    <3>1. CASE BeginJob(w)
      <4>1. PICK j \in batch[w] : /\ cur' = [cur EXCEPT ![w] = j]
                                 /\ batch' = [batch EXCEPT ![w] = @ \ {j}]
        BY <3>1 DEF BeginJob
      <4>2. seen' = seen
        BY <3>1 DEF BeginJob
      <4>3. QED
        BY <1>0, <4>1, <4>2 DEF Held, TypeOK
    <3>2. CASE SkipJob(w)
      <4>1. PICK j \in batch[w] : /\ batch' = [batch EXCEPT ![w] = @ \ {j}]
                                 /\ seen' = [seen EXCEPT ![w][j] = 0]
        BY <3>2 DEF SkipJob
      <4>2. cur' = cur /\ cur[w] \notin Jobs
        BY <1>0, <3>2 DEF SkipJob, Placed
      <4>3. QED
        BY <1>0, <4>1, <4>2 DEF Held, TypeOK
    <3>3. CASE Crash(w)
      BY <1>0, <3>3, JobAssumption DEF Crash, Held, TypeOK
    <3>4. QED
      BY <1>4, <3>1, <3>2, <3>3
  <2>3. SoleHolder' /\ CountsAgree'
    <3>1. \A v \in Workers : \A j \in Jobs \ stolen' : j \in Held(v)' => status'[j] = "running"
      BY <1>0, <2>1, <2>2 DEF SoleHolder
    <3>2. QED
      BY <1>0, <1>b, <2>1, <2>2, <3>1, HoldersKept
  <2>4. GiveUpIsEarned'
    BY <1>0, <2>1 DEF GiveUpIsEarned
  <2>5. QED
    BY <1>a, <2>3, <2>4 DEF HolderInv
<1>5. ASSUME NEW w \in Workers, Release(w) PROVE HolderInv'
  <2>1. /\ cur[w] \in Jobs /\ cur[w] \in Held(w) /\ cur[w] \notin Held(w)'
        /\ \A v \in Workers : Held(v)' \subseteq Held(v)
        /\ UNCHANGED <<attempts, taken, stolen>>
    BY <1>0, <1>5, ReleaseFrame DEF stolen
  <2>2. \A v \in Workers : \A j \in Jobs \ stolen' : j \in Held(v)' =>
           /\ j # cur[w] /\ status[j] = "running"
    BY <1>0, <2>1 DEF SoleHolder
  <2>3. SoleHolder' /\ CountsAgree'
    <3>1. \A v \in Workers : \A j \in Jobs \ stolen' : j \in Held(v)' =>
             status'[j] = "running" /\ attempts'[j] = attempts[j] /\ seen'[v][j] = seen[v][j]
      BY <1>0, <1>5, <2>1, <2>2, ReleaseFrame, ReleaseRows
    <3>2. QED
      BY <1>0, <1>b, <2>1, <3>1, HoldersKept
  <2>4. GiveUpIsEarned'
    <3>1. ASSUME NEW j \in Jobs \ stolen', status'[j] = "failed" PROVE attempts'[j] >= GiveUp
      <4>1. CASE j = cur[w]
        <5>1. status[j] = "running" /\ seen[w][j] = attempts[j]
          BY <1>0, <2>1, <4>1 DEF SoleHolder, CountsAgree
        <5>2. QED
          BY <1>0, <1>5, <2>1, <3>1, <4>1, <5>1, ReleaseRows
      <4>2. CASE j # cur[w]
        BY <1>0, <1>5, <2>1, <3>1, <4>2, ReleaseRows DEF GiveUpIsEarned, stolen
      <4>3. QED
        BY <4>1, <4>2
    <3>2. QED
      BY <3>1 DEF GiveUpIsEarned, stolen
  <2>5. QED
    BY <1>a, <2>3, <2>4 DEF HolderInv
<1>6. CASE Next
  BY <1>2, <1>3, <1>4, <1>5, <1>6, Split
<1>7. QED
  BY <1>1, <1>6

LEMMA InitHolders == Init => HolderInv
<1>1. ASSUME Init PROVE SoleHolder /\ CountsAgree /\ GiveUpIsEarned
  BY <1>1, JobAssumption DEF Init, SoleHolder, CountsAgree, GiveUpIsEarned, Held, stolen
<1>2. QED
  BY <1>1, InitTyped DEF HolderInv

\* A job that was never taken, by the sweep from a live worker or by a retry
\* that came after another one, has one executor and says running until that
\* executor settles it.
THEOREM OneExecutor == Spec => []SoleHolder
<1>1. HolderInv => SoleHolder
  BY DEF HolderInv
<1>2. QED
  BY InitHolders, HolderPreserved, <1>1, PTL DEF Spec

\* record_failure() gives a job up only when it was claimed GiveUp times since
\* its last reset, although it never reads the row's own count, unless the job
\* was taken from the worker that reports the failure.
THEOREM GivenUpLate == Spec => []GiveUpIsEarned
<1>1. HolderInv => GiveUpIsEarned
  BY DEF HolderInv
<1>2. QED
  BY InitHolders, HolderPreserved, <1>1, PTL DEF Spec

\* A job that was done or cancelled is rewritten by a retry that passed its
\* check while the job was failed, or by a worker the job had been taken from,
\* and by nothing else.
THEOREM SettledForGood == Spec => SettledStaysSettled
<1> DEFINE Keeps ==
      \A j \in Jobs :
        status[j] \in {"done", "cancelled"} /\ status'[j] # status[j] =>
          \/ taken'[j] = taken[j] + 1
          \/ taken[j] > 0 /\ \E w \in Workers : cur[w] = j /\ cur'[w] = NoJob
<1>1. ASSUME HolderInv, [Next]_vars PROVE [Keeps]_vars
  <2>0. TypeOK /\ Placed /\ SoleHolder
    BY <1>1 DEF HolderInv
  <2>1. CASE UNCHANGED vars
    BY <2>1
  <2>2. CASE Outside
    BY <2>0, <2>2, OutsideRows
  <2>3. ASSUME NEW w \in Workers, TakeJobs(w) PROVE Keeps
    <3>1. PICK S \in SUBSET Claimable : Mark(w, S)
      BY <2>3 DEF TakeJobs
    <3>2. QED
      BY <2>0, <3>1 DEF Mark, SetAll, Claimable, WithStatus
  <2>4. ASSUME NEW w \in Workers, BeginJob(w) \/ SkipJob(w) \/ Crash(w) PROVE Keeps
    BY <2>4 DEF BeginJob, SkipJob, Crash, rows
  <2>5. ASSUME NEW w \in Workers, Release(w) PROVE Keeps
    <3>1. /\ cur[w] \in Jobs /\ cur'[w] = NoJob
      <4>1. cur' = [cur EXCEPT ![w] = NoJob]
        BY <2>5 DEF Release, FinishJob, HoldJob, DropDraft, RecordFailure, LoseFailure, LetGo
      <4>2. QED
        BY <2>0, <2>5, <4>1, ReleaseFrame DEF TypeOK
    <3>2. status[cur[w]] \in {"done", "cancelled"} => taken[cur[w]] > 0
      <4>1. taken[cur[w]] \in Nat
        BY <2>0, <3>1 DEF TypeOK
      <4>2. cur[w] \notin stolen => status[cur[w]] = "running"
        BY <2>0, <2>5, <3>1, ReleaseFrame DEF SoleHolder
      <4>3. QED
        BY <3>1, <4>1, <4>2 DEF stolen
    <3>3. QED
      BY <2>0, <2>5, <3>1, <3>2, ReleaseRows
  <2>6. CASE Next
    BY <2>2, <2>3, <2>4, <2>5, <2>6, Split
  <2>7. QED
    BY <1>1, <2>1, <2>6
<1>2. QED
  BY InitHolders, HolderPreserved, <1>1, PTL DEF Spec, SettledStaysSettled
-----------------------------------------------------------------------------
(* The running jobs: only a claim adds to them.                            *)

LEMMA FewerRunning ==
  ASSUME TypeOK, TypeOK', Running' \subseteq Running
  PROVE  /\ Cardinality(Running') \in Nat /\ Cardinality(Running) \in Nat
         /\ Cardinality(Running') <= Cardinality(Running)
<1>1. IsFiniteSet(Running) /\ Cardinality(Running) \in Nat
  BY RunningFinite
<1>2. IsFiniteSet(Running') /\ Cardinality(Running') <= Cardinality(Running)
  BY <1>1, FS_Subset
<1>3. QED
  BY <1>1, <1>2, FS_CardinalityType

\* Only a claim adds to the running jobs.
LEMMA RunningShrinks ==
  ASSUME TypeOK, Placed, Next, \A w \in Workers : ~TakeJobs(w)
  PROVE  Running' \subseteq Running
<1>0. TypeOK /\ Placed
  OBVIOUS
<1>1. CASE Outside
  <2>1. ASSUME NEW j \in Jobs, status'[j] = "running" PROVE status[j] = "running"
    <3>1. ASSUME NEW w \in Workers, SweepStale(w) PROVE status[j] = "running"
      BY <2>1, <3>1 DEF SweepStale, SetAll
    <3>2. CASE \/ \E w \in Workers : CountRoom(w) \/ EndBatch(w) \/ RaiseJob(w) \/ Restart(w)
               \/ \E i \in Jobs : TimePasses(i)
               \/ PauseCampaign \/ ResumeCampaign
               \/ SetKill \/ \E a \in Agents : ToggleAgent(a)
      BY <2>1, <3>2 DEF CountRoom, EndBatch, RaiseJob, Restart, TimePasses, PauseCampaign,
           ResumeCampaign, SetKill, ToggleAgent, rows
    <3>3. CASE CancelDrafts
      BY <2>1, <3>3 DEF CancelDrafts, SetAll
    <3>4. CASE CloseCampaign
      BY <2>1, <3>4 DEF CloseCampaign, SetAll
    <3>5. ASSUME NEW i \in Jobs, Enqueue(i) PROVE status[j] = "running"
      BY <1>0, <2>1, <3>5 DEF Enqueue, TypeOK
    <3>6. ASSUME NEW i \in Jobs, AskRetry(i) \/ Requeue(i) PROVE status[j] = "running"
      BY <1>0, <2>1, <3>6 DEF AskRetry, Requeue, rows, TypeOK
    <3>7. QED
      BY <1>1, <3>1, <3>2, <3>3, <3>4, <3>5, <3>6 DEF Outside
  <2>2. QED
    BY <2>1 DEF Running, WithStatus
<1>2. ASSUME NEW w \in Workers, BeginJob(w) \/ SkipJob(w) \/ Crash(w) PROVE Running' \subseteq Running
  BY <1>2 DEF BeginJob, SkipJob, Crash, rows, Running, WithStatus
<1>3. ASSUME NEW w \in Workers, Release(w) PROVE Running' \subseteq Running
  <2>1. cur[w] \in Jobs
    BY <1>0, <1>3, ReleaseFrame
  <2>2. status'[cur[w]] = "running" => status[cur[w]] = "running"
    BY <1>0, <1>3, <2>1 DEF Release, FinishJob, HoldJob, DropDraft, RecordFailure, LoseFailure,
       SetAll, rows, TypeOK
  <2>3. ASSUME NEW j \in Jobs, j # cur[w], status'[j] = "running" PROVE status[j] = "running"
    BY <1>0, <1>3, <2>3, ReleaseRows
  <2>4. QED
    BY <2>1, <2>2, <2>3 DEF Running, WithStatus
<1>4. QED
  BY <1>1, <1>2, <1>3, Split

-----------------------------------------------------------------------------
(* Several worker processes. Two of them may count the same free places,   *)
(* so the cap of one campaign can be overrun. A place counted and not yet  *)
(* taken is a token; a count replaces the tokens of its worker alone, so   *)
(* running jobs and tokens together stay within Cap for each worker.       *)

Places(w, n) == {w} \X (1..n)

Pending ==
  {t \in Workers \X (1..Cap) : step[t[1]] = "counted" /\ t[2] <= room[t[1]]}

ManyInv ==
  /\ TypeOK /\ Placed
  /\ Cardinality(Running) + Cardinality(Pending) <= Cap * Cardinality(Workers)

LEMMA PlacesCounted ==
  ASSUME NEW w, NEW n \in Nat
  PROVE  IsFiniteSet(Places(w, n)) /\ Cardinality(Places(w, n)) = n
<1>1. IsFiniteSet(1..n) /\ Cardinality(1..n) = n
  BY FS_Interval
<1>2. IsFiniteSet({w}) /\ Cardinality({w}) = 1
  BY FS_Singleton
<1>3. IsFiniteSet({w} \X (1..n)) /\ Cardinality({w} \X (1..n)) = 1 * n
  BY <1>1, <1>2, FS_Product
<1>4. QED
  BY <1>3 DEF Places

LEMMA PendingFinite ==
  ASSUME IsFiniteSet(Workers)
  PROVE  IsFiniteSet(Pending) /\ Cardinality(Pending) \in Nat
<1>1. IsFiniteSet(1..Cap)
  BY FS_Interval, CapAssumption
<1>2. IsFiniteSet(Workers \X (1..Cap))
  BY <1>1, FS_Product
<1>3. Pending \subseteq Workers \X (1..Cap)
  BY DEF Pending
<1>4. QED
  BY <1>2, <1>3, FS_Subset, FS_CardinalityType

\* The places the other workers have counted.
LEMMA OthersPending ==
  ASSUME IsFiniteSet(Workers), NEW w \in Workers,
         NEW P, P \subseteq (Workers \ {w}) \X (1..Cap)
  PROVE  /\ IsFiniteSet(P) /\ Cardinality(P) \in Nat
         /\ Cardinality(P) <= (Cardinality(Workers) - 1) * Cap
<1>1. IsFiniteSet(1..Cap) /\ Cardinality(1..Cap) = Cap
  BY FS_Interval, CapAssumption
<1>2. IsFiniteSet(Workers \ {w}) /\ Cardinality(Workers \ {w}) = Cardinality(Workers) - 1
  BY FS_RemoveElement
<1>3. /\ IsFiniteSet((Workers \ {w}) \X (1..Cap))
      /\ Cardinality((Workers \ {w}) \X (1..Cap)) = (Cardinality(Workers) - 1) * Cap
  BY <1>1, <1>2, FS_Product
<1>4. IsFiniteSet(P) /\ Cardinality(P) <= Cardinality((Workers \ {w}) \X (1..Cap))
  BY <1>3, FS_Subset
<1>5. QED
  BY <1>3, <1>4, FS_CardinalityType

\* A worker's tokens are the places it counted, and the rest is the others'.
LEMMA PendingSplit ==
  ASSUME TypeOK, NEW w \in Workers, step[w] = "counted"
  PROVE  /\ room[w] \in Nat
         /\ Places(w, room[w]) \subseteq Pending
         /\ Pending \ Places(w, room[w]) \subseteq (Workers \ {w}) \X (1..Cap)
<1>1. room[w] \in 0..Cap
  BY DEF TypeOK
<1>2. ASSUME NEW t \in Places(w, room[w]) PROVE t \in Pending
  BY <1>1, <1>2, CapAssumption DEF Places, Pending
<1>3. ASSUME NEW t \in Pending, t \notin Places(w, room[w])
      PROVE  t \in (Workers \ {w}) \X (1..Cap)
  BY <1>1, <1>3, CapAssumption DEF Places, Pending
<1>4. QED
  BY <1>1, <1>2, <1>3, CapAssumption

\* Only a count adds to the places: any other step leaves at most the same.
LEMMA PendingShrinks ==
  ASSUME TypeOK, Placed, Next, \A w \in Workers : ~CountRoom(w)
  PROVE  Pending' \subseteq Pending
<1>1. ASSUME NEW v \in Workers, step'[v] = "counted"
      PROVE  step[v] = "counted" /\ room'[v] = room[v]
  <2>1. CASE Outside
    BY <1>1, <2>1 DEF Outside, SweepStale, EndBatch, RaiseJob, Restart, TimePasses, Enqueue,
       AskRetry, Requeue, CancelDrafts, PauseCampaign, ResumeCampaign, CloseCampaign, SetKill,
       ToggleAgent, procs, TypeOK
  <2>2. ASSUME NEW w \in Workers, TakeJobs(w)
        PROVE  step[v] = "counted" /\ room'[v] = room[v]
    BY <1>1, <2>2 DEF TakeJobs, Mark, TypeOK
  <2>3. ASSUME NEW w \in Workers, BeginJob(w) \/ SkipJob(w) \/ Crash(w)
        PROVE  step[v] = "counted" /\ room'[v] = room[v]
    BY <1>1, <2>3 DEF BeginJob, SkipJob, Crash, TypeOK
  <2>4. ASSUME NEW w \in Workers, Release(w)
        PROVE  step[v] = "counted" /\ room'[v] = room[v]
    BY <1>1, <2>4 DEF Release, FinishJob, HoldJob, DropDraft, RecordFailure, LoseFailure,
       LetGo, TypeOK
  <2>5. QED
    BY <2>1, <2>2, <2>3, <2>4, Split
<1>2. ASSUME NEW t \in Pending' PROVE t \in Pending
  <2>1. t \in Workers \X (1..Cap) /\ step'[t[1]] = "counted" /\ t[2] <= room'[t[1]]
    BY <1>2 DEF Pending
  <2>2. step[t[1]] = "counted" /\ room'[t[1]] = room[t[1]]
    BY <1>1, <2>1
  <2>3. QED
    BY <2>1, <2>2 DEF Pending
<1>3. QED
  BY <1>2

LEMMA CountKeepsTotal ==
  ASSUME ManyInv, IsFiniteSet(Workers), NEW w \in Workers, CountRoom(w)
  PROVE  Cardinality(Running') + Cardinality(Pending') <= Cap * Cardinality(Workers)
<1>0. TypeOK
  BY DEF ManyInv
<1>1. Running' = Running /\ Cardinality(Running) \in Nat
  BY <1>0, RunningFinite DEF CountRoom, rows, Running, WithStatus
<1> DEFINE n == Cap - Cardinality(Running)
           P == Pending' \ Places(w, n)
<1>2. n \in Nat /\ room' = [room EXCEPT ![w] = n] /\ step' = [step EXCEPT ![w] = "counted"]
  BY <1>1, CapAssumption DEF CountRoom
<1> HIDE DEF n
<1>3. ASSUME NEW t \in P PROVE t \in (Workers \ {w}) \X (1..Cap)
  <2>1. t \in Workers \X (1..Cap) /\ t[2] <= room'[t[1]] /\ t \notin Places(w, n)
    BY <1>3 DEF Pending
  <2>2. t[1] # w
    BY <1>0, <1>2, <2>1 DEF Places, TypeOK
  <2>3. QED
    BY <2>1, <2>2
<1>4. /\ IsFiniteSet(P) /\ Cardinality(P) \in Nat
      /\ Cardinality(P) <= (Cardinality(Workers) - 1) * Cap
  BY <1>3, OthersPending
<1>5. IsFiniteSet(Places(w, n)) /\ Cardinality(Places(w, n)) = n
  BY <1>2, PlacesCounted
<1>6. IsFiniteSet(P \cap Places(w, n)) /\ Cardinality(P \cap Places(w, n)) \in Nat
  BY <1>4, FS_Subset, FS_CardinalityType
<1>7. /\ IsFiniteSet(P \cup Places(w, n))
      /\ Cardinality(P \cup Places(w, n)) <= Cardinality(P) + n
  <2>1. IsFiniteSet(P) /\ IsFiniteSet(Places(w, n))
    BY <1>4, <1>5
  <2> HIDE DEF P
  <2>2. /\ IsFiniteSet(P \cup Places(w, n))
        /\ Cardinality(P \cup Places(w, n))
             = Cardinality(P) + Cardinality(Places(w, n)) - Cardinality(P \cap Places(w, n))
    BY <2>1, FS_Union
  <2>3. QED
    BY <1>2, <1>4, <1>5, <1>6, <2>2
<1>8. Pending' \subseteq P \cup Places(w, n)
  OBVIOUS
<1>9. /\ Cardinality(Pending') <= Cardinality(P \cup Places(w, n))
      /\ Cardinality(Pending') \in Nat /\ Cardinality(P \cup Places(w, n)) \in Nat
  BY <1>7, <1>8, FS_Subset, FS_CardinalityType
<1>10. Cardinality(Workers) \in Nat
  BY FS_CardinalityType
<1>11. (Cardinality(Workers) - 1) * Cap + Cap = Cap * Cardinality(Workers)
  BY <1>10, CapAssumption
<1>12. Cardinality(Running) + n = Cap
  BY <1>1, CapAssumption DEF n
<1>13. (Cardinality(Workers) - 1) * Cap \in Int /\ Cap * Cardinality(Workers) \in Int
  BY <1>10, CapAssumption
<1> DEFINE low == (Cardinality(Workers) - 1) * Cap
           all == Cap * Cardinality(Workers)
<1>14. low \in Int /\ all \in Int /\ low + Cap = all /\ Cardinality(P) <= low
  BY <1>4, <1>11, <1>13
<1> HIDE DEF low, all, P
<1>15. Cardinality(Running) + Cardinality(Pending') <= all
  BY <1>1, <1>2, <1>4, <1>7, <1>9, <1>12, <1>14, CapAssumption
<1>16. QED
  BY <1>1, <1>15 DEF all

LEMMA TakeKeepsTotal ==
  ASSUME ManyInv, IsFiniteSet(Workers), NEW w \in Workers, TakeJobs(w)
  PROVE  Cardinality(Running') + Cardinality(Pending') <= Cap * Cardinality(Workers)
<1>0. TypeOK
  BY DEF ManyInv
<1>1. PICK S \in SUBSET Claimable : Mark(w, S) /\ Cardinality(S) <= room[w]
  BY DEF TakeJobs
<1>2. S \subseteq Jobs /\ IsFiniteSet(S) /\ Cardinality(S) \in Nat
  <2>1. S \subseteq Jobs
    BY <1>1 DEF Claimable, WithStatus
  <2>2. IsFiniteSet(S)
    BY <2>1, JobAssumption, FS_Subset
  <2>3. QED
    BY <2>1, <2>2, FS_CardinalityType
<1>3. Running' = Running \cup S
  BY <1>1, <1>2 DEF Mark, SetAll, Running, WithStatus
<1>4. /\ IsFiniteSet(Running) /\ Cardinality(Running) \in Nat /\ Cardinality(Running') \in Nat
      /\ Cardinality(Running') <= Cardinality(Running) + Cardinality(S)
  <2>1. IsFiniteSet(Running) /\ Cardinality(Running) \in Nat
    BY <1>0, RunningFinite
  <2>2. IsFiniteSet(Running \cap S) /\ Cardinality(Running \cap S) \in Nat
    BY <2>1, FS_Subset, FS_CardinalityType
  <2>3. /\ IsFiniteSet(Running \cup S)
        /\ Cardinality(Running \cup S)
             = Cardinality(Running) + Cardinality(S) - Cardinality(Running \cap S)
    BY <1>2, <2>1, FS_Union
  <2>4. QED
    BY <1>2, <1>3, <2>1, <2>2, <2>3, FS_CardinalityType
<1> DEFINE Q == Places(w, room[w])
<1>5. step[w] = "counted" /\ room[w] \in Nat /\ Q \subseteq Pending
  BY <1>0, PendingSplit DEF TakeJobs
<1>6. IsFiniteSet(Q) /\ Cardinality(Q) = room[w]
  BY <1>5, PlacesCounted
<1>7. IsFiniteSet(Pending) /\ Cardinality(Pending) \in Nat
  BY PendingFinite
<1>8. Pending' \subseteq Pending \ Q
  <2>1. step'[w] # "counted" /\ \A v \in Workers \ {w} : step'[v] = step[v] /\ room'[v] = room[v]
    BY <1>0, <1>1 DEF Mark, TypeOK
  <2>2. ASSUME NEW t \in Pending' PROVE t \in Pending \ Q
    BY <2>1, <2>2 DEF Pending, Places
  <2>3. QED
    BY <2>2
<1>9. Pending \cap Q = Q
  BY <1>5
<1>10. IsFiniteSet(Pending \ Q) /\ Cardinality(Pending \ Q) = Cardinality(Pending) - room[w]
  <2> HIDE DEF Q
  <2>1. /\ IsFiniteSet(Pending \ Q)
        /\ Cardinality(Pending \ Q) = Cardinality(Pending) - Cardinality(Pending \cap Q)
    BY <1>7, FS_Difference
  <2>2. QED
    BY <1>6, <1>9, <2>1
<1>11. /\ Cardinality(Pending') <= Cardinality(Pending) - room[w]
       /\ Cardinality(Pending') \in Nat
  BY <1>8, <1>10, FS_Subset, FS_CardinalityType
<1> DEFINE all == Cap * Cardinality(Workers)
<1>12. all \in Int /\ Cardinality(Running) + Cardinality(Pending) <= all
  BY FS_CardinalityType, CapAssumption DEF ManyInv
<1> HIDE DEF all, Q
<1>13. Cardinality(Running') + Cardinality(Pending') <= all
  BY <1>1, <1>2, <1>4, <1>5, <1>7, <1>11, <1>12
<1>14. QED
  BY <1>13 DEF all

LEMMA ManyPreserved ==
  ASSUME IsFiniteSet(Workers), ManyInv, [Next]_vars
  PROVE  ManyInv'
<1>0. TypeOK /\ Placed
  BY DEF ManyInv
<1>1. TypeOK' /\ Placed'
  BY <1>0, TypePreserved, PlacedPreserved
<1>2. CASE UNCHANGED vars
  <2>1. Running' = Running /\ Pending' = Pending
    BY <1>2 DEF vars, rows, procs, Running, WithStatus, Pending
  <2>2. QED
    BY <1>1, <2>1 DEF ManyInv
<1>3. CASE \E w \in Workers : CountRoom(w)
  BY <1>1, <1>3, CountKeepsTotal DEF ManyInv
<1>4. CASE \E w \in Workers : TakeJobs(w)
  BY <1>1, <1>4, TakeKeepsTotal DEF ManyInv
<1>5. CASE Next /\ \A w \in Workers : ~CountRoom(w) /\ ~TakeJobs(w)
  <2>1. Running' \subseteq Running
    BY <1>0, <1>5, RunningShrinks
  <2>2. /\ Cardinality(Running') \in Nat /\ Cardinality(Running) \in Nat
        /\ Cardinality(Running') <= Cardinality(Running)
    BY <1>0, <1>1, <2>1, FewerRunning
  <2>3. Pending' \subseteq Pending
    BY <1>0, <1>5, PendingShrinks
  <2>4. /\ Cardinality(Pending') <= Cardinality(Pending)
        /\ Cardinality(Pending') \in Nat /\ Cardinality(Pending) \in Nat
    BY <2>3, PendingFinite, FS_Subset, FS_CardinalityType
  <2> DEFINE all == Cap * Cardinality(Workers)
  <2>5. all \in Int /\ Cardinality(Running) + Cardinality(Pending) <= all
    BY FS_CardinalityType, CapAssumption DEF ManyInv
  <2> HIDE DEF all
  <2>6. Cardinality(Running') + Cardinality(Pending') <= all
    BY <2>2, <2>4, <2>5
  <2>7. QED
    BY <1>1, <2>6 DEF ManyInv, all
<1>6. QED
  BY <1>2, <1>3, <1>4, <1>5

LEMMA InitMany ==
  ASSUME IsFiniteSet(Workers), Init
  PROVE  ManyInv
<1>1. Running = {}
  BY DEF Init, Running, WithStatus
<1>2. Pending = {}
  BY DEF Init, Pending
<1>3. Cap * Cardinality(Workers) \in Nat
  BY FS_CardinalityType, CapAssumption
<1>4. QED
  BY <1>1, <1>2, <1>3, InitTyped, FS_EmptySet DEF ManyInv

LEMMA ManyBound ==
  ASSUME IsFiniteSet(Workers), ManyInv
  PROVE  Cardinality(Running) <= Cap * Cardinality(Workers)
<1>1. Cardinality(Running) \in Nat /\ Cardinality(Pending) \in Nat
  BY RunningFinite, PendingFinite DEF ManyInv
<1> DEFINE all == Cap * Cardinality(Workers)
<1>2. all \in Int /\ Cardinality(Running) + Cardinality(Pending) <= all
  BY FS_CardinalityType, CapAssumption DEF ManyInv
<1> HIDE DEF all
<1>3. Cardinality(Running) <= all
  BY <1>1, <1>2
<1>4. QED
  BY <1>3 DEF all

\* With any number of worker processes the campaign's running jobs may exceed
\* PER_CAMPAIGN_CAP, since claim() counts and selects in two statements, but
\* never by more than one cap for each worker.
THEOREM CapOfManyWorkers ==
  ASSUME IsFiniteSet(Workers)
  PROVE  Spec => [](Cardinality(Running) <= Cap * Cardinality(Workers))
<1>1. ManyInv /\ [Next]_vars => ManyInv'
  BY ManyPreserved
<1>2. ManyInv => Cardinality(Running) <= Cap * Cardinality(Workers)
  BY ManyBound
<1>3. Init => ManyInv
  BY InitMany
<1>4. QED
  BY <1>1, <1>2, <1>3, PTL DEF Spec

\* With one worker process no more than PER_CAMPAIGN_CAP jobs of the campaign
\* run at once, whatever crashes, is swept, retried or switched off.
THEOREM CapOfOneWorker ==
  ASSUME NEW w0, Workers = {w0}
  PROVE  Spec => []CapRespected
<1>1. IsFiniteSet(Workers) /\ Cardinality(Workers) = 1
  BY FS_Singleton
<1>2. ManyInv /\ [Next]_vars => ManyInv'
  BY <1>1, ManyPreserved
<1>3. Cap * Cardinality(Workers) = Cap
  BY <1>1, CapAssumption
<1>4. ManyInv => CapRespected
  <2>1. ASSUME ManyInv PROVE Cardinality(Running) <= Cap * Cardinality(Workers)
    BY <1>1, <2>1, ManyBound
  <2>2. QED
    BY <1>3, <2>1 DEF CapRespected
<1>5. Init => ManyInv
  BY <1>1, InitMany
<1>6. QED
  BY <1>2, <1>4, <1>5, PTL DEF Spec
-----------------------------------------------------------------------------
(* Every run is accounted for. What a job has of executors, of committed   *)
(* runs and of runs to come is its load; no step adds to it but those that *)
(* queue it again though it was not free, and they are counted in taken.   *)

ToCome(j) == IF Open(j) THEN 1 ELSE 0
Load(j) == finished[j] + Cardinality(Holders(j)) + ToCome(j)

LEMMA HoldersFinite ==
  ASSUME IsFiniteSet(Workers), NEW j
  PROVE  IsFiniteSet(Holders(j)) /\ Cardinality(Holders(j)) \in Nat
<1>1. Holders(j) \subseteq Workers
  BY DEF Holders
<1>2. QED
  BY <1>1, FS_Subset, FS_CardinalityType

\* A step that leaves the executors alone and opens the job only if it is taken.
LEMMA SameHolders ==
  ASSUME TypeOK, IsFiniteSet(Workers), NEW j \in Jobs, Load(j) <= 1 + taken[j],
         Holders(j)' = Holders(j), finished'[j] = finished[j],
         \/ taken'[j] = taken[j] /\ (Open(j)' => Open(j))
         \/ taken'[j] = taken[j] + 1
  PROVE  Load(j)' <= 1 + taken'[j]
<1>1. Cardinality(Holders(j)) \in Nat /\ finished[j] \in Nat /\ taken[j] \in Nat
  BY HoldersFinite DEF TypeOK
<1>2. ToCome(j) \in {0, 1} /\ ToCome(j)' \in {0, 1} /\ (ToCome(j)' = 1 /\ ~Open(j) => Open(j)')
  BY DEF ToCome
<1>3. Open(j) => ToCome(j) = 1
  BY DEF ToCome
<1>4. Load(j) = finished[j] + Cardinality(Holders(j)) + ToCome(j)
  BY DEF Load
<1>5. Load(j)' = finished[j] + Cardinality(Holders(j)) + ToCome(j)'
  BY DEF Load
<1>6. QED
  BY <1>1, <1>2, <1>3, <1>4, <1>5

\* A step that ends one executor's run.
LEMMA OneHolderLess ==
  ASSUME TypeOK, IsFiniteSet(Workers), NEW j \in Jobs, Load(j) <= 1 + taken[j],
         NEW w \in Holders(j), Holders(j)' = Holders(j) \ {w}, taken'[j] = taken[j],
         \/ finished'[j] = finished[j]
         \/ finished'[j] = finished[j] + 1 /\ ~Open(j)'
  PROVE  Load(j)' <= 1 + taken'[j]
<1>1. Cardinality(Holders(j)) \in Nat /\ finished[j] \in Nat /\ taken[j] \in Nat
  BY HoldersFinite DEF TypeOK
<1>2. Cardinality(Holders(j)') = Cardinality(Holders(j)) - 1
  BY HoldersFinite, FS_RemoveElement
<1>3. ToCome(j) \in {0, 1} /\ ToCome(j)' \in {0, 1} /\ (~Open(j)' => ToCome(j)' = 0)
  BY DEF ToCome
<1>4. Load(j) = finished[j] + Cardinality(Holders(j)) + ToCome(j)
  BY DEF Load
<1>5. Load(j)' = finished'[j] + Cardinality(Holders(j)') + ToCome(j)'
  BY DEF Load
<1>6. QED
  BY <1>1, <1>2, <1>3, <1>4, <1>5

\* A claim turns the run to come into an executor.
LEMMA OneHolderMore ==
  ASSUME TypeOK, IsFiniteSet(Workers), NEW j \in Jobs, Load(j) <= 1 + taken[j],
         NEW w, w \notin Holders(j), Holders(j)' = Holders(j) \cup {w},
         taken'[j] = taken[j], finished'[j] = finished[j], Open(j), ~Open(j)'
  PROVE  Load(j)' <= 1 + taken'[j]
<1>1. Cardinality(Holders(j)) \in Nat /\ finished[j] \in Nat /\ taken[j] \in Nat
  BY HoldersFinite DEF TypeOK
<1>2. Cardinality(Holders(j)') = Cardinality(Holders(j)) + 1
  BY HoldersFinite, FS_AddElement
<1>3. ToCome(j) = 1 /\ ToCome(j)' = 0
  BY DEF ToCome
<1>4. Load(j) = finished[j] + Cardinality(Holders(j)) + ToCome(j)
  BY DEF Load
<1>5. Load(j)' = finished'[j] + Cardinality(Holders(j)') + ToCome(j)'
  BY DEF Load
<1>6. QED
  BY <1>1, <1>2, <1>3, <1>4, <1>5

\* A step of this kind opens no job without counting it as taken.
LEMMA OutsideOpens ==
  ASSUME TypeOK, Outside, NEW j \in Jobs
  PROVE  /\ Holders(j)' = Holders(j) /\ finished' = finished
         /\ \/ taken'[j] = taken[j] /\ (Open(j)' => Open(j))
            \/ taken'[j] = taken[j] + 1
<1>1. Holders(j)' = Holders(j)
  BY OutsideFrame DEF Holders, Held
<1>2. finished' = finished
  BY DEF Outside, SweepStale, CountRoom, EndBatch, RaiseJob, Restart, TimePasses, Enqueue,
     AskRetry, Requeue, CancelDrafts, PauseCampaign, ResumeCampaign, CloseCampaign, SetKill,
     ToggleAgent, history
<1>3. ASSUME NEW S \in SUBSET Jobs, status' = SetAll(S, "queued"), taken' = Taken(S)
      PROVE  \/ taken'[j] = taken[j] /\ (Open(j)' => Open(j))
             \/ taken'[j] = taken[j] + 1
  BY <1>1, <1>3 DEF SetAll, Taken, Open
<1>4. CASE \E w \in Workers : SweepStale(w)
  <2>1. {i \in Running : due[i]} \in SUBSET Jobs
    BY DEF Running, WithStatus
  <2>2. QED
    BY <1>1, <1>2, <1>3, <1>4, <2>1 DEF SweepStale
<1>5. ASSUME NEW i \in Jobs, Requeue(i)
      PROVE  \/ taken'[j] = taken[j] /\ (Open(j)' => Open(j))
             \/ taken'[j] = taken[j] + 1
  <2>1. [status EXCEPT ![i] = "queued"] = SetAll({i}, "queued")
    BY DEF SetAll, TypeOK
  <2>2. QED
    BY <1>3, <1>5, <2>1 DEF Requeue
<1>6. CASE \/ \E w \in Workers : CountRoom(w) \/ EndBatch(w) \/ RaiseJob(w) \/ Restart(w)
           \/ \E i \in Jobs : TimePasses(i) \/ AskRetry(i)
           \/ PauseCampaign \/ ResumeCampaign
           \/ SetKill \/ \E a \in Agents : ToggleAgent(a)
  <2>1. status' = status /\ taken' = taken
    BY <1>6 DEF CountRoom, EndBatch, RaiseJob, Restart, TimePasses, AskRetry, PauseCampaign,
       ResumeCampaign, SetKill, ToggleAgent, rows, history
  <2>2. QED
    BY <1>1, <1>2, <2>1 DEF Open
<1>7. CASE CancelDrafts \/ CloseCampaign
  <2>1. taken' = taken /\ (status'[j] = status[j] \/ status'[j] = "cancelled")
    <3>1. CASE CancelDrafts
      BY <3>1 DEF CancelDrafts, SetAll, history
    <3>2. CASE CloseCampaign
      BY <3>2 DEF CloseCampaign, SetAll, history
    <3>3. QED
      BY <1>7, <3>1, <3>2
  <2>2. QED
    BY <1>1, <1>2, <2>1 DEF Open
<1>8. ASSUME NEW i \in Jobs, Enqueue(i)
      PROVE  taken' = taken /\ (Open(j)' => Open(j))
  BY <1>1, <1>8 DEF Enqueue, Open, history, TypeOK
<1>9. QED
  BY <1>1, <1>2, <1>4, <1>5, <1>6, <1>7, <1>8 DEF Outside

AccountInv == TypeOK /\ Placed /\ RunsAccounted

LEMMA LoadBound == RunsAccounted <=> \A j \in Jobs : Load(j) <= 1 + taken[j]
BY DEF RunsAccounted, Load, ToCome

LEMMA AccountPreserved ==
  ASSUME IsFiniteSet(Workers), AccountInv, [Next]_vars
  PROVE  \A j \in Jobs : Load(j)' <= 1 + taken'[j]
<1>0. TypeOK /\ Placed /\ \A j \in Jobs : Load(j) <= 1 + taken[j]
  BY LoadBound DEF AccountInv
<1> SUFFICES ASSUME NEW j \in Jobs PROVE Load(j)' <= 1 + taken'[j]
  OBVIOUS
<1>1. CASE UNCHANGED vars
  <2>1. Holders(j)' = Holders(j) /\ UNCHANGED <<finished, taken, status>>
    BY <1>1 DEF vars, rows, history, procs, Holders, Held
  <2>2. Open(j)' => Open(j)
    BY <2>1 DEF Open
  <2>3. QED
    BY <1>0, <2>1, <2>2, SameHolders
<1>2. CASE Outside
  BY <1>0, <1>2, OutsideOpens, SameHolders
<1>3. ASSUME NEW w \in Workers, TakeJobs(w) PROVE Load(j)' <= 1 + taken'[j]
  <2>1. PICK S \in SUBSET Claimable : Mark(w, S)
    BY <1>3 DEF TakeJobs
  <2>2. S \subseteq Jobs /\ \A i \in S : status[i] = "queued"
    BY <2>1 DEF Claimable, WithStatus
  <2>3. /\ UNCHANGED <<taken, finished>>
        /\ batch' = [batch EXCEPT ![w] = S] /\ cur' = cur
        /\ status'[j] = IF j \in S THEN "running" ELSE status[j]
    BY <2>1 DEF Mark, SetAll, history
  <2>4. Held(w) = {} /\ Held(w)' = S /\ \A v \in Workers \ {w} : Held(v)' = Held(v)
    <3>1. batch[w] = {} /\ cur[w] \notin Jobs
      BY <1>0, <1>3 DEF TakeJobs, Placed, TypeOK
    <3>2. QED
      BY <1>0, <2>3, <3>1 DEF Held, TypeOK
  <2>5. CASE j \in S
    <3>1. w \notin Holders(j) /\ Holders(j)' = Holders(j) \cup {w}
      BY <2>4, <2>5 DEF Holders
    <3>2. Open(j) /\ ~Open(j)'
      BY <2>2, <2>3, <2>5, <3>1 DEF Open
    <3>3. QED
      BY <1>0, <2>3, <3>1, <3>2, OneHolderMore
  <2>6. CASE j \notin S
    <3>1. Holders(j)' = Holders(j)
      BY <2>4, <2>6 DEF Holders
    <3>2. Open(j)' => Open(j)
      BY <2>3, <2>6, <3>1 DEF Open
    <3>3. QED
      BY <1>0, <2>3, <3>1, <3>2, SameHolders
  <2>7. QED
    BY <2>5, <2>6
<1>4. ASSUME NEW w \in Workers, SkipJob(w) \/ BeginJob(w) \/ Crash(w)
      PROVE  Load(j)' <= 1 + taken'[j]
  <2>1. UNCHANGED <<status, taken, finished>>
    BY <1>4 DEF SkipJob, BeginJob, Crash, rows, history
  <2>2. /\ Held(w)' \subseteq Held(w)
        /\ \A v \in Workers \ {w} : Held(v)' = Held(v)
    <3>1. CASE SkipJob(w)
      BY <1>0, <3>1 DEF SkipJob, Held, TypeOK
    <3>2. CASE BeginJob(w)
      BY <1>0, <3>2 DEF BeginJob, Held, TypeOK
    <3>3. CASE Crash(w)
      BY <1>0, <3>3, JobAssumption DEF Crash, Held, TypeOK
    <3>4. QED
      BY <1>4, <3>1, <3>2, <3>3
  <2>3. Holders(j)' = Holders(j) \/ (w \in Holders(j) /\ Holders(j)' = Holders(j) \ {w})
    BY <2>2 DEF Holders
  <2>4. CASE Holders(j)' = Holders(j)
    BY <1>0, <2>1, <2>4, SameHolders DEF Open
  <2>5. CASE w \in Holders(j) /\ Holders(j)' = Holders(j) \ {w}
    BY <1>0, <2>1, <2>5, OneHolderLess
  <2>6. QED
    BY <2>3, <2>4, <2>5
<1>5. ASSUME NEW w \in Workers, Release(w) PROVE Load(j)' <= 1 + taken'[j]
  <2>1. /\ cur[w] \in Jobs /\ cur[w] \notin batch[w] /\ taken' = taken
        /\ batch' = batch /\ cur' = [cur EXCEPT ![w] = NoJob]
    <3>1. LetGo(w)
      BY <1>5 DEF Release, FinishJob, HoldJob, DropDraft, RecordFailure, LoseFailure
    <3>2. QED
      BY <1>0, <1>5, <3>1, ReleaseFrame DEF LetGo, Placed
  <2>2. /\ Held(w)' = Held(w) \ {cur[w]} /\ cur[w] \in Held(w)
        /\ \A v \in Workers \ {w} : Held(v)' = Held(v)
    BY <1>0, <2>1, JobAssumption DEF Held, TypeOK
  <2>3. CASE j = cur[w]
    <3>1. w \in Holders(j) /\ Holders(j)' = Holders(j) \ {w}
      BY <2>2, <2>3 DEF Holders
    <3>2. \/ finished'[j] = finished[j]
          \/ finished'[j] = finished[j] + 1 /\ status'[j] = "done"
      <4>1. CASE FinishJob(w)
        BY <1>0, <2>1, <2>3, <4>1 DEF FinishJob, TypeOK, SetAll
      <4>2. CASE ~FinishJob(w)
        BY <1>5, <4>2 DEF Release, HoldJob, DropDraft, RecordFailure, LoseFailure, history
      <4>3. QED
        BY <4>1, <4>2
    <3>3. status'[j] = "done" => ~Open(j)'
      BY DEF Open
    <3>4. QED
      BY <1>0, <2>1, <3>1, <3>2, <3>3, OneHolderLess
  <2>4. CASE j # cur[w]
    <3>1. Holders(j)' = Holders(j)
      BY <2>2, <2>4 DEF Holders
    <3>2. finished'[j] = finished[j]
      BY <1>0, <1>5, <2>4 DEF Release, FinishJob, HoldJob, DropDraft, RecordFailure, LoseFailure,
         history, TypeOK
    <3>3. Open(j)' => Open(j)
      <4>1. status'[j] = status[j] \/ status[j] = "absent"
        BY <1>0, <1>5, <2>4, ReleaseRows
      <4>2. QED
        BY <3>1, <4>1 DEF Open
    <3>4. QED
      BY <1>0, <2>1, <3>1, <3>2, <3>3, SameHolders
  <2>5. QED
    BY <2>3, <2>4
<1>6. QED
  BY <1>1, <1>2, <1>3, <1>4, <1>5, Split

\* Whatever is swept from live workers, retried late, lost or crashed, a job
\* has at most one executor, committed run or run to come more than the times
\* it was queued again though it was not free.
THEOREM EveryRunAccounted ==
  ASSUME IsFiniteSet(Workers)
  PROVE  Spec => []RunsAccounted
<1>1. AccountInv /\ [Next]_vars => AccountInv'
  <2>1. ASSUME AccountInv, [Next]_vars PROVE AccountInv'
    <3>1. TypeOK' /\ Placed'
      BY <2>1, TypePreserved, PlacedPreserved DEF AccountInv
    <3>2. \A j \in Jobs : Load(j)' <= 1 + taken'[j]
      BY <2>1, AccountPreserved
    <3>3. RunsAccounted'
      BY <3>2 DEF RunsAccounted, Load, ToCome
    <3>4. QED
      BY <3>1, <3>3 DEF AccountInv
  <2>2. QED
    BY <2>1
<1>2. Init => AccountInv
  <2>1. ASSUME Init, NEW j \in Jobs PROVE Load(j) <= 1 + taken[j]
    <3>1. finished[j] = 0 /\ taken[j] = 0 /\ status[j] \in {"absent", "queued"} /\ Holders(j) = {}
      BY <2>1, JobAssumption DEF Init, Holders, Held
    <3>2. ToCome(j) = 1 /\ Cardinality(Holders(j)) = 0
      BY <3>1, FS_EmptySet DEF ToCome, Open
    <3>3. QED
      BY <3>1, <3>2 DEF Load
  <2>2. QED
    BY <2>1, InitTyped, LoadBound DEF AccountInv
<1>3. QED
  BY <1>1, <1>2, PTL DEF Spec, AccountInv
-----------------------------------------------------------------------------
(* The refinement. The ledger sees the status column, who holds each job   *)
(* and the open retry requests; ticks, batches, clocks and counts are gone. *)

LEMMA LedgerWords ==
  /\ \A s : Ledger!In(s) = WithStatus(s)
  /\ \A S, s : Ledger!Moved(S, s) = SetAll(S, s)
BY DEF Ledger!In, Ledger!Moved, WithStatus, SetAll

LEMMA LedgerHas ==
  ASSUME TypeOK, NEW w \in Workers
  PROVE  Ledger!Has(w) = Held(w)
BY DEF TypeOK, Ledger!Has, Hold, Holders, Held

LEMMA SameCardinality ==
  ASSUME NEW S
  PROVE  Ledger!Cardinality(S) = Cardinality(S)
BY DEF Ledger!Cardinality, Cardinality

\* Worker w has let go of the jobs of S and nothing else changed hands.
LEMMA LetGoIsWithout ==
  ASSUME NEW w \in Workers, NEW S,
         \A v \in Workers \ {w} : Held(v)' = Held(v),
         Held(w)' = Held(w) \ S
  PROVE  Hold' = Ledger!Without(w, S)
BY DEF Hold, Holders, Ledger!Without

LEMMA OneMoved ==
  ASSUME TypeOK, NEW j \in Jobs, NEW s
  PROVE  [status EXCEPT ![j] = s] = Ledger!Moved({j}, s)
BY DEF TypeOK, Ledger!Moved

LEMMA ReleaseSettles ==
  ASSUME TypeOK, Placed, NEW w \in Workers, Release(w)
  PROVE  Ledger!Settle(w) \/ Ledger!Drop(w)
<1> DEFINE j == cur[w]
<1>1. /\ j \in Jobs /\ j \notin batch[w] /\ batch' = batch /\ cur' = [cur EXCEPT ![w] = NoJob]
      /\ asking' = asking
  <2>1. LetGo(w) /\ asking' = asking
    BY DEF Release, FinishJob, HoldJob, DropDraft, RecordFailure, LoseFailure
  <2>2. QED
    BY <2>1, ReleaseFrame DEF LetGo, Placed
<1>2. /\ Held(w)' = Held(w) \ {j} /\ j \in Held(w)
      /\ \A v \in Workers \ {w} : Held(v)' = Held(v)
  BY <1>1, JobAssumption DEF Held, TypeOK
<1>3. Hold' = Ledger!Without(w, {j}) /\ j \in Ledger!Has(w)
  BY <1>2, LetGoIsWithout, LedgerHas
<1> HIDE DEF j
<1>4. CASE FinishJob(w)
  <2>1. PICK new \in SUBSET WithStatus("absent") :
          status' = [SetAll(new, "queued") EXCEPT ![j] = "done"]
    BY <1>4 DEF FinishJob, j
  <2>2. new \in SUBSET Ledger!In("absent")
        /\ status' = [Ledger!Moved(new, "queued") EXCEPT ![j] = "done"]
    BY <2>1, LedgerWords
  <2>3. QED
    BY <1>1, <1>3, <2>2 DEF Ledger!Settle
<1>5. ASSUME NEW v \in {"queued", "failed", "cancelled"},
             status' = [status EXCEPT ![j] = v]
      PROVE  Ledger!Settle(w)
  <2>1. Ledger!Moved({}, "queued") = status
    BY DEF Ledger!Moved, TypeOK
  <2>2. {} \in SUBSET Ledger!In("absent")
    OBVIOUS
  <2>3. status' = [Ledger!Moved({}, "queued") EXCEPT ![j] = v]
    BY <1>5, <2>1
  <2>4. QED
    BY <1>1, <1>3, <2>2, <2>3 DEF Ledger!Settle
<1>6. CASE HoldJob(w)
  BY <1>5, <1>6 DEF HoldJob, j
<1>7. CASE DropDraft(w)
  BY <1>5, <1>7 DEF DropDraft, j
<1>8. CASE RecordFailure(w)
  BY <1>5, <1>8 DEF RecordFailure, j
<1>9. CASE LoseFailure(w)
  BY <1>1, <1>3, <1>9 DEF LoseFailure, rows, Ledger!Drop
<1>10. QED
  BY <1>4, <1>6, <1>7, <1>8, <1>9 DEF Release

\* A step that leaves batches and current jobs alone.
LEMMA OutsideIsEdge ==
  ASSUME TypeOK, Placed, Outside
  PROVE  Ledger!Next \/ UNCHANGED <<status, Hold, asking>>
<1>0. Hold' = Hold
  BY OutsideFrame DEF Hold, Holders, Held
<1>1. ASSUME NEW w \in Workers, SweepStale(w) PROVE Ledger!Recover(w)
  <2>1. PICK S \in SUBSET Running : status' = SetAll(S, "queued")
    BY <1>1 DEF SweepStale
  <2>2. S \in SUBSET Ledger!In("running") /\ status' = Ledger!Moved(S, "queued")
    BY <2>1, LedgerWords DEF Running
  <2>3. Held(w) = {}
    BY <1>1 DEF SweepStale, Placed, Held, TypeOK
  <2>4. QED
    BY <1>0, <1>1, <2>2, <2>3, LedgerHas DEF Ledger!Recover, SweepStale
<1>2. CASE \/ \E w \in Workers : CountRoom(w) \/ EndBatch(w) \/ RaiseJob(w) \/ Restart(w)
           \/ \E j \in Jobs : TimePasses(j)
           \/ PauseCampaign \/ ResumeCampaign
           \/ SetKill \/ \E a \in Agents : ToggleAgent(a)
  <2>1. UNCHANGED <<status, asking>>
    BY <1>2 DEF CountRoom, EndBatch, RaiseJob, Restart, TimePasses, PauseCampaign,
       ResumeCampaign, SetKill, ToggleAgent, rows
  <2>2. QED
    BY <1>0, <2>1
<1>3. CASE CancelDrafts
  <2>1. PICK S \in SUBSET (WithStatus("queued") \cap Drafts) : status' = SetAll(S, "cancelled")
    BY <1>3 DEF CancelDrafts
  <2>2. S \in SUBSET Ledger!In("queued") /\ status' = Ledger!Moved(S, "cancelled")
    BY <2>1, LedgerWords
  <2>3. QED
    BY <1>0, <1>3, <2>2 DEF Ledger!Withdraw, Ledger!Next, CancelDrafts
<1>4. CASE CloseCampaign
  <2>1. WithStatus("queued") \in SUBSET Ledger!In("queued")
    BY LedgerWords
  <2>2. status' = Ledger!Moved(WithStatus("queued"), "cancelled")
    BY <1>4, LedgerWords DEF CloseCampaign
  <2>3. QED
    BY <1>0, <1>4, <2>1, <2>2 DEF Ledger!Withdraw, Ledger!Next, CloseCampaign
<1>5. ASSUME NEW j \in Jobs, Enqueue(j) PROVE Ledger!Submit
  <2>1. j \in Ledger!In("absent") /\ status' = Ledger!Moved({j}, "queued")
    BY <1>5, OneMoved DEF Enqueue, Ledger!In
  <2>2. QED
    BY <1>0, <1>5, <2>1 DEF Ledger!Submit, Enqueue
<1>6. ASSUME NEW j \in Jobs, AskRetry(j) PROVE Ledger!Ask
  <2>1. j \in Ledger!In("failed") /\ asking' = [asking EXCEPT ![j] = @ + 1] /\ status' = status
    BY <1>6 DEF AskRetry, rows, Ledger!In
  <2>2. QED
    BY <1>0, <2>1 DEF Ledger!Ask
<1>7. ASSUME NEW j \in Jobs, Requeue(j) PROVE Ledger!Reopen
  <2>1. /\ asking[j] > 0 /\ asking' = [asking EXCEPT ![j] = @ - 1]
        /\ status' = Ledger!Moved({j}, "queued")
    BY <1>7, OneMoved DEF Requeue
  <2>2. QED
    BY <1>0, <2>1 DEF Ledger!Reopen
<1>8. QED
  BY <1>1, <1>2, <1>3, <1>4, <1>5, <1>6, <1>7 DEF Outside, Ledger!Next

LEMMA ClaimIsEdge ==
  ASSUME TypeOK, Placed, NEW w \in Workers, TakeJobs(w),
         Cardinality(Running') <= Cap * Cardinality(Workers)
  PROVE  Ledger!Claim(w)
<1>1. PICK S \in SUBSET Claimable : Mark(w, S)
  BY DEF TakeJobs
<1>2. S \in SUBSET Ledger!In("queued") /\ status' = Ledger!Moved(S, "running") /\ S \subseteq Jobs
  BY <1>1, LedgerWords DEF Claimable, Mark, WithStatus
<1>3. Ledger!In("running") \cup S = Running'
  BY <1>1 DEF Mark, SetAll, Running, WithStatus, Ledger!In, Claimable
<1>4. /\ Held(w) = {} /\ Held(w)' = S /\ \A v \in Workers \ {w} : Held(v)' = Held(v)
      /\ asking' = asking
  <2>1. batch[w] = {} /\ cur[w] \notin Jobs
    BY DEF TakeJobs, Placed, TypeOK
  <2>2. batch' = [batch EXCEPT ![w] = S] /\ cur' = cur /\ asking' = asking
    BY <1>1 DEF Mark
  <2>3. QED
    BY <1>2, <2>1, <2>2 DEF Held, TypeOK
<1>5. Hold' = [j \in Jobs |-> IF j \in S THEN Hold[j] \cup {w} ELSE Hold[j]]
  BY <1>2, <1>4 DEF Hold, Holders
<1>6. Ledger!Has(w) = {}
  BY <1>4, LedgerHas
<1>7. Ledger!Cardinality(Ledger!In("running") \cup S) <= Cap * Ledger!Cardinality(Workers)
  BY <1>3, SameCardinality
<1>8. QED
  BY <1>2, <1>3, <1>4, <1>5, <1>6, SameCardinality DEF Ledger!Claim

LEMMA StepRefines ==
  ASSUME TypeOK, Placed, [Next]_vars,
         Cardinality(Running') <= Cap * Cardinality(Workers)
  PROVE  Ledger!Next \/ UNCHANGED <<status, Hold, asking>>
<1>1. CASE UNCHANGED vars
  BY <1>1 DEF vars, rows, procs, Hold, Holders, Held
<1>2. CASE Outside
  BY <1>2, OutsideIsEdge
<1>3. ASSUME NEW w \in Workers, TakeJobs(w) PROVE Ledger!Next
  BY <1>3, ClaimIsEdge DEF Ledger!Next
<1>4. ASSUME NEW w \in Workers, Release(w) PROVE Ledger!Next
  BY <1>4, ReleaseSettles DEF Ledger!Next
<1>5. ASSUME NEW w \in Workers, SkipJob(w) \/ BeginJob(w) \/ Crash(w) PROVE Ledger!Next
  <2>1. UNCHANGED <<status, asking>>
    BY <1>5 DEF SkipJob, BeginJob, Crash, rows
  <2>2. /\ Held(w)' \subseteq Held(w)
        /\ \A v \in Workers \ {w} : Held(v)' = Held(v)
    <3>1. CASE SkipJob(w)
      BY <3>1 DEF SkipJob, Held, TypeOK
    <3>2. CASE BeginJob(w)
      BY <3>2 DEF BeginJob, Held, TypeOK
    <3>3. CASE Crash(w)
      BY <3>3, JobAssumption DEF Crash, Held, TypeOK
    <3>4. QED
      BY <1>5, <3>1, <3>2, <3>3
  <2> DEFINE S == Held(w) \ Held(w)'
  <2>3. Held(w)' = Held(w) \ S /\ S \in SUBSET Ledger!Has(w)
    BY <2>2, LedgerHas
  <2> HIDE DEF S
  <2>4. Hold' = Ledger!Without(w, S)
    BY <2>2, <2>3, LetGoIsWithout
  <2>5. QED
    BY <2>1, <2>3, <2>4 DEF Ledger!Drop, Ledger!Next
<1>6. QED
  BY <1>1, <1>2, <1>3, <1>4, <1>5, Split

\* Any number of worker processes implement the ledger whose cap is that of
\* all of them together: a verdict comes from a worker the job was handed to,
\* once, and only the sweep and a retry that found the job failed put it back.
THEOREM WorkersRefineLedger ==
  ASSUME IsFiniteSet(Workers)
  PROVE  Spec => LedgerSpec
<1> DEFINE Bounded == Cardinality(Running) <= Cap * Cardinality(Workers)
<1>1. ManyInv /\ [Next]_vars => ManyInv'
  BY ManyPreserved
<1>2. ManyInv => TypeOK /\ Placed /\ Bounded
  BY ManyBound DEF ManyInv
<1>3. TypeOK /\ Placed /\ Bounded' /\ [Next]_vars => [Ledger!Next]_(Ledger!vars)
  BY StepRefines DEF Ledger!vars
<1>4. Init => Ledger!Init
  <2>1. ASSUME Init PROVE Hold = [j \in Jobs |-> {}]
    BY <2>1, JobAssumption DEF Init, Hold, Holders, Held
  <2>2. QED
    BY <2>1 DEF Init, Ledger!Init
<1>5. QED
  BY InitMany, <1>1, <1>2, <1>3, <1>4, PTL DEF Spec, LedgerSpec, Ledger!Spec
=============================================================================
