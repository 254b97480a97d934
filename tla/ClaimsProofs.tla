---------------------------- MODULE ClaimsProofs ----------------------------
(***************************************************************************)
(* Proofs about Claims, for any campaigns, ladders and workers: its type   *)
(* invariant, that one campaign at most holds the claim and judges its     *)
(* prospect in one place, that the claims implement ClaimLedger, that who  *)
(* waits for a claim is in a listed conflict, and that who has ended holds *)
(* nothing, since until its verdict the claims do not know it (Fresh).     *)
(***************************************************************************)
EXTENDS Claims, TLAPS

USE ClaimsAssumption DEF enrolled, jobs, claims, world, Qualify

-----------------------------------------------------------------------------
(* Types. A transaction at work knows its campaign, and the holder when the *)
(* ladder decided.                                                          *)

Working == [step : {"qualify", "review"}, camp : Campaigns, saw : Campaigns \cup {None},
            verdict : Verdicts \ {"none"}, score : Scores \cup {None}]

Shaped == \A t \in Txs : tx[t] = Idle \/ (tx[t] \in Working /\ (tx[t].verdict \in {"win", "hold", "tie"} => tx[t].saw \in Campaigns))

Typed == TypeOK /\ Shaped

LEMMA IdleType == Idle \in Tx /\ Idle.verdict = "none" /\ Idle.camp = None
BY DEF Idle, Tx, Verdicts

LEMMA WorkingType == Working \subseteq Tx
BY DEF Working, Tx

\* The verdicts the claim can give, and when the ladder was asked.
LEMMA ResolveType ==
  ASSUME NEW c, NEW s, NEW v \in Resolve(c, s)
  PROVE  /\ v \in Verdicts \ {"none"}
         /\ v \in {"win", "hold", "tie"} => active # {}
BY DEF Resolve, Ladder, Verdicts, IsCustomer

LEMMA ReleaseType ==
  ASSUME TypeOK, NEW c \in Campaigns, NEW S \in [Campaigns -> States], NEW Q \in SUBSET Jobs, ReleaseClaim(c, S, Q)
  PROVE  /\ active' \subseteq active
         /\ state' \in [Campaigns -> States]
         /\ queued' \subseteq Jobs
         /\ \A j \in queued' : j \in Q \/ j[2] = "plan"
BY DEF TypeOK, ReleaseClaim, Jobs, States

\* A transaction that ends leaves the others as they are.
LEMMA EndTx ==
  ASSUME Typed, NEW t \in Txs, tx' = [tx EXCEPT ![t] = Idle]
  PROVE  tx' \in [Txs -> Tx] /\ Shaped'
BY IdleType DEF Typed, TypeOK, Shaped

LEMMA BeginTx ==
  ASSUME Typed, NEW t \in Txs, NEW x \in Working, tx' = [tx EXCEPT ![t] = x],
         x.verdict \in {"win", "hold", "tie"} => x.saw \in Campaigns
  PROVE  tx' \in [Txs -> Tx] /\ Shaped'
BY WorkingType DEF Typed, TypeOK, Shaped

LEMMA SettleType ==
  ASSUME Typed, NEW t \in Txs, tx[t] # Idle, NEW s \in States, Settle(t, s)
  PROVE  /\ tx[t].camp \in Campaigns
         /\ state' \in [Campaigns -> States]
         /\ score' \in [Campaigns -> Scores \cup {None}]
         /\ queued' \subseteq Jobs /\ judged' \subseteq Campaigns
         /\ tx' \in [Txs -> Tx] /\ Shaped'
<1>1. tx[t] \in Working
  BY DEF Typed, Shaped
<1>2. tx' \in [Txs -> Tx] /\ Shaped'
  BY EndTx DEF Settle
<1> QED
  BY <1>1, <1>2 DEF Typed, TypeOK, Settle, Working, Jobs

LEMMA ReadyWorks ==
  ASSUME Typed, NEW t \in Txs, NEW vs, "none" \notin vs, Ready(t, vs)
  PROVE  tx[t] # Idle /\ tx[t] \in Working
BY IdleType DEF Typed, Shaped, Ready

LEMMA AddConflictType ==
  ASSUME TypeOK, NEW h, NEW c, NEW s \in {"open", "logged"}, AddConflict(h, c, s)
  PROVE  row' \in [Pairs -> SUBSET {"open", "logged", "resolved"}]
BY DEF TypeOK, AddConflict

\* Every step of the specification, one disjunct per action.
LEMMA StepCases ==
  ASSUME Next
  PROVE  \/ \E t \in Txs :
              \/ \E c \in Campaigns : Judge(t, c) \/ Approve(t, c)
              \/ CommitPlain(t) \/ CommitCreate(t) \/ CommitDefer(t) \/ CommitWin(t)
              \/ Collide(t) \/ Die(t)
         \/ \E c \in Campaigns :
              \/ Research(c) \/ Plan(c) \/ Contact(c) \/ Exhaust(c) \/ Reply(c) \/ Stop(c)
              \/ RejectReview(c) \/ Close(c) \/ Delete(c)
         \/ \E j \in Jobs : GiveUp(j) \/ Retry(j) \/ LateRetry(j)
         \/ \E p \in Pairs, w \in Campaigns : ResolveConflict(p, w)
         \/ Suppress
<1>1. CASE \E t \in Txs : JobStep(t) \/ Die(t) \/ \E c \in Campaigns : Approve(t, c)
  <2>1. PICK t \in Txs : JobStep(t) \/ Die(t) \/ \E c \in Campaigns : Approve(t, c)
    BY <1>1
  <2>2. CASE JobStep(t)
    BY <2>2, Zenon DEF JobStep
  <2> QED
    BY <2>1, <2>2
<1> QED
  BY <1>1 DEF Next

LEMMA TypedInit == Init => Typed
<1> SUFFICES ASSUME Init PROVE Typed
  OBVIOUS
<1>1. /\ state \in [Campaigns -> States] /\ row \in [Pairs -> SUBSET {"open", "logged", "resolved"}]
      /\ score \in [Campaigns -> Scores \cup {None}]
      /\ review \in [Campaigns -> Nat]
  BY DEF Init, States
<1>2. queued \subseteq Jobs /\ failed \subseteq Jobs /\ late \subseteq Jobs
  BY DEF Init, Jobs
<1>3. tx \in [Txs -> Tx] /\ Shaped
  BY IdleType DEF Init, Shaped
<1>4. budget \in 0..Budget
  BY DEF Init
<1> QED
  BY <1>1, <1>2, <1>3, <1>4 DEF Init, Typed, TypeOK

LEMMA TypedStep ==
  ASSUME Typed, [Next]_vars
  PROVE  Typed'
<1> USE DEF Typed
<1>1. ASSUME UNCHANGED vars PROVE Typed'
  BY <1>1 DEF vars, TypeOK, Shaped
<1>2. ASSUME NEW t \in Txs, NEW c \in Campaigns, Judge(t, c) PROVE Typed'
  <2>0. PICK s \in Scores : \E v \in {"reject", "borderline"} \cup Resolve(c, s), h \in IF active = {} THEN {None} ELSE active :
          tx' = [tx EXCEPT ![t] = [step |-> "qualify", camp |-> c, saw |-> h, verdict |-> v, score |-> s]]
    BY <1>2 DEF Judge
  <2>1. PICK v \in {"reject", "borderline"} \cup Resolve(c, s), h \in IF active = {} THEN {None} ELSE active :
          tx' = [tx EXCEPT ![t] = [step |-> "qualify", camp |-> c, saw |-> h, verdict |-> v, score |-> s]]
    BY <2>0
  <2>2. v \in Verdicts \ {"none"} /\ (v \in {"win", "hold", "tie"} => h \in Campaigns)
    BY ResolveType DEF TypeOK, Verdicts
  <2>3. [step |-> "qualify", camp |-> c, saw |-> h, verdict |-> v, score |-> s] \in Working
    BY <2>2 DEF Working, TypeOK
  <2>4. tx' \in [Txs -> Tx] /\ Shaped'
    BY <2>1, <2>2, <2>3, BeginTx
  <2> QED
    BY <1>2, <2>4 DEF Judge, Done, Outside, TypeOK
<1>3. ASSUME NEW t \in Txs, NEW c \in Campaigns, Approve(t, c) PROVE Typed'
  <2>1. PICK v \in Resolve(c, score[c]), h \in IF active = {} THEN {None} ELSE active :
          tx' = [tx EXCEPT ![t] = [step |-> "review", camp |-> c, saw |-> h, verdict |-> v, score |-> score[c]]]
    BY <1>3 DEF Approve
  <2>2. v \in Verdicts \ {"none"} /\ (v \in {"win", "hold", "tie"} => h \in Campaigns)
    BY ResolveType DEF TypeOK, Verdicts
  <2>3. [step |-> "review", camp |-> c, saw |-> h, verdict |-> v, score |-> score[c]] \in Working
    BY <2>2 DEF Working, TypeOK
  <2>4. tx' \in [Txs -> Tx] /\ Shaped'
    BY <2>1, <2>2, <2>3, BeginTx
  <2> QED
    BY <1>3, <2>4 DEF Approve, TypeOK, Outside
<1>4. ASSUME NEW t \in Txs, CommitPlain(t) PROVE Typed'
  <2>1. tx[t] # Idle
    BY <1>4, ReadyWorks DEF CommitPlain
  <2>2. PICK s \in States : Settle(t, s)
    BY <1>4 DEF CommitPlain, Ready, Plain, States
  <2>3. /\ state' \in [Campaigns -> States] /\ score' \in [Campaigns -> Scores \cup {None}]
        /\ queued' \subseteq Jobs /\ tx' \in [Txs -> Tx] /\ Shaped' /\ judged' \subseteq Campaigns /\ tx[t].camp \in Campaigns
    BY <2>1, <2>2, SettleType
  <2>4. review' \in [Campaigns -> Nat]
    BY <1>4, <2>3 DEF CommitPlain, TypeOK
  <2> QED
    BY <1>4, <2>3, <2>4 DEF CommitPlain, Settle, TypeOK
<1>5. ASSUME NEW t \in Txs, CommitCreate(t) PROVE Typed'
  <2>1. tx[t] # Idle
    BY <1>5, ReadyWorks DEF CommitCreate
  <2>2. /\ state' \in [Campaigns -> States] /\ score' \in [Campaigns -> Scores \cup {None}]
        /\ queued' \subseteq Jobs /\ tx' \in [Txs -> Tx] /\ Shaped' /\ judged' \subseteq Campaigns /\ tx[t].camp \in Campaigns
    BY <1>5, <2>1, SettleType DEF CommitCreate, States
  <2> QED
    BY <1>5, <2>2 DEF CommitCreate, Settle, TypeOK
<1>6. ASSUME NEW t \in Txs, CommitDefer(t) PROVE Typed'
  <2>1. tx[t] # Idle
    BY <1>6, ReadyWorks DEF CommitDefer
  <2>2. row' \in [Pairs -> SUBSET {"open", "logged", "resolved"}]
    BY <1>6, AddConflictType DEF CommitDefer
  <2> QED
    BY <1>6, <2>1, <2>2, SettleType DEF CommitDefer, Settle, TypeOK, States
<1>7. ASSUME NEW t \in Txs, CommitWin(t) PROVE Typed'
  <2>1. tx[t] # Idle
    BY <1>7, ReadyWorks DEF CommitWin
  <2>2. row' \in [Pairs -> SUBSET {"open", "logged", "resolved"}]
    BY <1>7, AddConflictType DEF CommitWin
  <2>3. /\ state' \in [Campaigns -> States] /\ score' \in [Campaigns -> Scores \cup {None}]
        /\ queued' \subseteq Jobs /\ tx' \in [Txs -> Tx] /\ Shaped' /\ judged' \subseteq Campaigns /\ tx[t].camp \in Campaigns
    BY <1>7, <2>1, SettleType DEF CommitWin, States
  <2> QED
    BY <1>7, <2>2, <2>3 DEF CommitWin, Settle, TypeOK
<1>8. ASSUME NEW t \in Txs, Collide(t) \/ Die(t) PROVE Typed'
  <2>1. tx[t] \in Working /\ Restored(t) /\ budget' \in 0..Budget
    BY <1>8, IdleType DEF Collide, Die, Blocked, Shaped, Outside, TypeOK
  <2>2. tx' \in [Txs -> Tx] /\ Shaped'
    BY <2>1, EndTx DEF Restored
  <2>3. queued' \subseteq Jobs /\ review' \in [Campaigns -> Nat]
    BY <2>1 DEF Restored, TypeOK, Jobs, Working
  <2> QED
    BY <2>1, <2>2, <2>3 DEF Restored, TypeOK
<1>9. ASSUME NEW c \in Campaigns, Research(c) \/ Plan(c) \/ Contact(c) \/ RejectReview(c) \/ Close(c) PROVE Typed'
  BY <1>9 DEF Research, Plan, Done, Contact, RejectReview, Close, Outside, TypeOK, Shaped, Jobs, States
<1>10. ASSUME NEW c \in Campaigns, Exhaust(c) \/ Stop(c) PROVE Typed'
  <2>1. [state EXCEPT ![c] = "ended"] \in [Campaigns -> States]
    BY DEF TypeOK, States
  <2>2. queued \in SUBSET Jobs
    BY DEF TypeOK
  <2>3. ReleaseClaim(c, [state EXCEPT ![c] = "ended"], queued)
    BY <1>10 DEF Exhaust, Stop
  <2>4. active' \subseteq active /\ state' \in [Campaigns -> States] /\ queued' \subseteq Jobs
    BY <2>1, <2>2, <2>3, ReleaseType
  <2> QED
    BY <1>10, <2>4 DEF Exhaust, Stop, Outside, TypeOK, Shaped
<1>11. ASSUME NEW c \in Campaigns, Reply(c) PROVE Typed'
  <2>1. [state EXCEPT ![c] = "ended"] \in [Campaigns -> States] /\ [state EXCEPT ![c] = "replied"] \in [Campaigns -> States]
    BY DEF TypeOK, States
  <2>2. queued \in SUBSET Jobs
    BY DEF TypeOK
  <2>3. active' \subseteq Campaigns /\ state' \in [Campaigns -> States] /\ queued' \subseteq Jobs /\ pending' \subseteq Campaigns /\ suppressed' \in BOOLEAN
    <3>1. CASE ReleaseClaim(c, [state EXCEPT ![c] = "ended"], queued) /\ pending' = pending \ {c} /\ UNCHANGED suppressed
      BY <3>1, <2>1, <2>2, ReleaseType DEF TypeOK
    <3>2. CASE state' = [state EXCEPT ![c] = "replied"] /\ pending' = pending \ {c} /\ UNCHANGED <<queued, active, suppressed>>
      BY <3>2, <2>1 DEF TypeOK
    <3>3. CASE suppressed' = TRUE /\ state' = [o \in Campaigns |-> IF o \in deleted THEN state[o] ELSE "ended"] /\ pending' = {} /\ active' = {} /\ UNCHANGED queued
      BY <3>3 DEF TypeOK, States
    <3> QED
      BY <1>11, <3>1, <3>2, <3>3 DEF Reply
  <2> QED
    BY <1>11, <2>3 DEF Reply, Outside, TypeOK, Shaped
<1>12. ASSUME NEW c \in Campaigns, Delete(c) PROVE Typed'
  <2>1. tx' \in [Txs -> Tx] /\ Shaped'
    BY <1>12, IdleType DEF Delete, Shaped, TypeOK
  <2>2. row' \in [Pairs -> SUBSET {"open", "logged", "resolved"}]
    BY <1>12 DEF Delete, TypeOK
  <2> QED
    BY <1>12, <2>1, <2>2 DEF Delete, TypeOK, States
<1>15. ASSUME NEW j \in Jobs, GiveUp(j) \/ Retry(j) \/ LateRetry(j) PROVE Typed'
  <2>1. j[1] \in Campaigns
    BY DEF Jobs
  <2> QED
    BY <1>15, <2>1 DEF GiveUp, Retry, LateRetry, Outside, TypeOK, Shaped
<1>13. ASSUME NEW p \in Pairs, NEW w \in Campaigns, ResolveConflict(p, w) PROVE Typed'
  <2>1. /\ \E status \in row[p] : row' = [row EXCEPT ![p] = (@ \ {status}) \cup {"resolved"}]
        /\ active' = {w}
        /\ pending' \subseteq pending
        /\ queued' \in {queued, queued \cup {<<w, "plan">>}}
        /\ UNCHANGED <<score, sent, talked, failed, late, rerun, review, world, tx>> /\ Outside
    BY <1>13 DEF ResolveConflict
  <2>2. state' \in [Campaigns -> States]
    BY <1>13 DEF ResolveConflict, TypeOK, States
  <2> QED
    BY <2>1, <2>2 DEF Outside, TypeOK, Shaped, Jobs
<1>14. ASSUME Suppress PROVE Typed'
  BY <1>14 DEF Suppress, Outside, TypeOK, Shaped
<1> QED
  BY <1>1, <1>2, <1>3, <1>4, <1>5, <1>6, <1>7, <1>8, <1>9, <1>10, <1>11, <1>12, <1>13, <1>14, <1>15, StepCases

\* TypeOK: every variable of the claims keeps its type.
THEOREM TypeCorrect == Spec => []TypeOK
<1>1. Typed /\ [Next]_vars => Typed'
  BY TypedStep
<1> QED
  BY TypedInit, <1>1, PTL DEF Spec, Typed

-----------------------------------------------------------------------------
(* One holder and one judgement. *)

\* The claim is only taken when it is free, moved, or released.
LEMMA ActiveStep ==
  ASSUME Typed, Next
  PROVE  active' \subseteq active \/ \E c \in Campaigns : active' = {c}
<1>1. ASSUME NEW t \in Txs, CommitCreate(t) \/ CommitWin(t) PROVE tx[t].camp \in Campaigns /\ active' = {tx[t].camp}
  BY <1>1, ReadyWorks DEF CommitCreate, CommitWin, Working
<1>2. ASSUME NEW c \in Campaigns, Exhaust(c) \/ Stop(c) \/ Reply(c) PROVE active' \subseteq active
  BY <1>2 DEF Exhaust, Stop, Reply, ReleaseClaim
<1>3. ASSUME NEW c \in Campaigns, Research(c) \/ Plan(c) \/ Contact(c) \/ RejectReview(c) \/ Close(c) \/ Delete(c)
      PROVE active' \subseteq active
  BY <1>3 DEF Research, Plan, Contact, RejectReview, Close, Delete
<1>4. ASSUME NEW p \in Pairs, NEW w \in Campaigns, ResolveConflict(p, w) PROVE active' = {w}
  BY <1>4 DEF ResolveConflict
<1>5. ASSUME NEW t \in Txs, NEW c \in Campaigns, Judge(t, c) \/ Approve(t, c) PROVE active' = active
  BY <1>5 DEF Judge, Approve
<1>6. ASSUME NEW t \in Txs, CommitPlain(t) \/ CommitDefer(t) \/ Collide(t) \/ Die(t) PROVE active' = active
  BY <1>6 DEF CommitPlain, CommitDefer, Collide, Die, Restored
<1>7. ASSUME Suppress PROVE active' = active
  BY <1>7 DEF Suppress
<1>8. ASSUME NEW j \in Jobs, GiveUp(j) \/ Retry(j) \/ LateRetry(j) PROVE active' = active
  BY <1>8 DEF GiveUp, Retry, LateRetry
<1> QED
  BY <1>1, <1>2, <1>3, <1>4, <1>5, <1>6, <1>7, <1>8, StepCases

LEMMA OneClaimStep ==
  ASSUME Typed, OneClaim, [Next]_vars
  PROVE  OneClaim'
BY ActiveStep DEF OneClaim, vars

\* A release leaves the queue as it was but for plan jobs.
LEMMA ReleaseQueue ==
  ASSUME NEW c, NEW S, ReleaseClaim(c, S, queued), NEW d, UNCHANGED failed
  PROVE  /\ Waits(d, "research")' <=> Waits(d, "research")
         /\ Waits(d, "qualify")' <=> Waits(d, "qualify")
         /\ \A k \in {"research", "qualify"} : <<d, k>> \in queued' <=> <<d, k>> \in queued
BY DEF ReleaseClaim, Waits

\* What was queued a second time once stays so.
LEMMA RerunGrows ==
  ASSUME [Next]_vars
  PROVE  rerun \subseteq rerun'
<1>1. ASSUME NEW t \in Txs, NEW c \in Campaigns, Judge(t, c) \/ Approve(t, c) PROVE rerun \subseteq rerun'
  BY <1>1 DEF Judge, Done, Approve
<1>2. ASSUME NEW t \in Txs,
             CommitPlain(t) \/ CommitCreate(t) \/ CommitDefer(t) \/ CommitWin(t) \/ Collide(t) \/ Die(t)
      PROVE rerun' = rerun
  BY <1>2 DEF CommitPlain, CommitCreate, CommitDefer, CommitWin, Collide, Die, Settle, Restored
<1>3. ASSUME NEW c \in Campaigns, Research(c) \/ Plan(c) PROVE rerun \subseteq rerun'
  BY <1>3 DEF Research, Plan, Done
<1>4. ASSUME NEW c \in Campaigns,
             Contact(c) \/ Exhaust(c) \/ Reply(c) \/ Stop(c) \/ RejectReview(c) \/ Close(c) \/ Delete(c)
      PROVE rerun' = rerun
  BY <1>4 DEF Contact, Exhaust, Reply, Stop, RejectReview, Close, Delete
<1>5. ASSUME NEW j \in Jobs, GiveUp(j) \/ Retry(j) \/ LateRetry(j) PROVE rerun \subseteq rerun'
  BY <1>5 DEF GiveUp, Retry, LateRetry
<1>6. ASSUME NEW p \in Pairs, NEW w \in Campaigns, ResolveConflict(p, w) PROVE rerun' = rerun
  BY <1>6 DEF ResolveConflict
<1>7. ASSUME Suppress \/ UNCHANGED vars PROVE rerun' = rerun
  BY <1>7 DEF Suppress, vars
<1> QED
  BY <1>1, <1>2, <1>3, <1>4, <1>5, <1>6, <1>7, StepCases

LEMMA OneJudgementStep ==
  ASSUME Typed, OneJudgement, [Next]_vars
  PROVE  OneJudgement'
<1> USE DEF Waits
<1>0. /\ rerun \subseteq rerun' /\ rerun \subseteq Campaigns
      /\ review \in [Campaigns -> Nat] /\ \A d \in Campaigns : review[d] \in Nat
  BY RerunGrows DEF Typed, TypeOK
<1>1. ASSUME UNCHANGED <<queued, failed, review, tx>> PROVE OneJudgement'
  BY <1>0, <1>1 DEF OneJudgement, Alone
<1>2. ASSUME NEW t \in Txs, NEW c \in Campaigns, Judge(t, c) \/ Approve(t, c) PROVE OneJudgement'
  <2>1. tx'[t].camp = c /\ \A u \in Txs \ {t} : tx'[u] = tx[u]
    BY <1>2 DEF Judge, Approve, Typed, TypeOK
  <2>2. CASE Judge(t, c)
    <3>1. /\ UNCHANGED <<failed, review>> /\ Qualify(c) \in queued
          /\ queued' \in {queued, queued \ {Qualify(c)}}
          /\ c \in rerun' \/ queued' = queued \ {Qualify(c)}
      BY <2>2 DEF Judge, Done
    <3>2. ASSUME NEW d \in Campaigns \ rerun' PROVE Alone(d)'
      <4>1. Alone(d)
        BY <1>0, <3>2 DEF OneJudgement
      <4> QED
        BY <1>0, <2>1, <3>1, <3>2, <4>1 DEF Alone
    <3> QED
      BY <3>2 DEF OneJudgement
  <2>3. CASE Approve(t, c)
    <3>1. UNCHANGED <<queued, failed>> /\ review[c] > 0 /\ review' = [review EXCEPT ![c] = @ - 1]
      BY <2>3 DEF Approve
    <3>2. ASSUME NEW d \in Campaigns \ rerun' PROVE Alone(d)'
      <4>1. Alone(d)
        BY <1>0, <3>2 DEF OneJudgement
      <4>2. review'[d] = IF d = c THEN review[d] - 1 ELSE review[d]
        BY <1>0, <3>1
      <4> QED
        BY <1>0, <2>1, <3>1, <4>1, <4>2 DEF Alone
    <3> QED
      BY <3>2 DEF OneJudgement
  <2> QED
    BY <1>2, <2>2, <2>3
<1>3. ASSUME NEW t \in Txs, CommitPlain(t) \/ CommitCreate(t) \/ CommitDefer(t) \/ CommitWin(t) PROVE OneJudgement'
  <2>1. tx[t] \in Working /\ \E s : Settle(t, s)
    BY <1>3, ReadyWorks DEF CommitPlain, CommitCreate, CommitDefer, CommitWin
  <2>2. /\ tx[t].camp \in Campaigns /\ tx' = [tx EXCEPT ![t] = Idle] /\ failed' = failed
        /\ queued' \in {queued, queued \cup {<<tx[t].camp, "plan">>}}
    BY <2>1 DEF Settle, Working
  <2>3. review' \in {review, [review EXCEPT ![tx[t].camp] = @ + 1]}
    BY <1>3 DEF CommitPlain, CommitCreate, CommitDefer, CommitWin
  <2>4. tx'[t].camp = None /\ \A u \in Txs \ {t} : tx'[u] = tx[u]
    BY <2>2, IdleType DEF Typed, TypeOK
  <2>5. ASSUME NEW d \in Campaigns \ rerun', d = tx[t].camp PROVE Alone(d)'
    <3>1. Alone(d) /\ review'[d] \in {review[d], review[d] + 1}
      BY <1>0, <2>3, <2>5 DEF OneJudgement
    <3> QED
      BY <1>0, <2>2, <2>4, <2>5, <3>1 DEF Alone
  <2>6. ASSUME NEW d \in Campaigns \ rerun', d # tx[t].camp PROVE Alone(d)'
    <3>1. Alone(d) /\ review'[d] = review[d]
      BY <1>0, <2>3, <2>6 DEF OneJudgement
    <3> QED
      BY <1>0, <2>2, <2>4, <2>6, <3>1 DEF Alone
  <2> QED
    BY <2>5, <2>6 DEF OneJudgement
<1>4. ASSUME NEW t \in Txs, Collide(t) \/ Die(t) PROVE OneJudgement'
  <2>1. tx[t] \in Working /\ Restored(t)
    BY <1>4, IdleType DEF Collide, Die, Blocked, Typed, Shaped
  <2>2. tx[t].camp \in Campaigns /\ tx' = [tx EXCEPT ![t] = Idle] /\ failed' = failed
    BY <2>1 DEF Restored, Working
  <2>3. \/ queued' = queued /\ review' = [review EXCEPT ![tx[t].camp] = @ + 1]
        \/ queued' = queued \cup {Qualify(tx[t].camp)} /\ review' = review
    BY <2>1 DEF Restored
  <2>4. tx'[t].camp = None /\ \A u \in Txs \ {t} : tx'[u] = tx[u]
    BY <2>2, IdleType DEF Typed, TypeOK
  <2>5. ASSUME NEW d \in Campaigns \ rerun', d = tx[t].camp PROVE Alone(d)'
    <3>1. Alone(d)
      BY <1>0, <2>5 DEF OneJudgement
    <3>2. \/ queued' = queued /\ review'[d] = review[d] + 1
          \/ queued' = queued \cup {Qualify(d)} /\ review'[d] = review[d]
      BY <1>0, <2>3, <2>5
    <3> QED
      BY <1>0, <2>2, <2>4, <2>5, <3>1, <3>2 DEF Alone
  <2>6. ASSUME NEW d \in Campaigns \ rerun', d # tx[t].camp PROVE Alone(d)'
    <3>1. Alone(d) /\ review'[d] = review[d]
      BY <1>0, <2>3, <2>6 DEF OneJudgement
    <3> QED
      BY <1>0, <2>2, <2>3, <2>4, <2>6, <3>1 DEF Alone
  <2> QED
    BY <2>5, <2>6 DEF OneJudgement
<1>5. ASSUME NEW c \in Campaigns, Research(c) \/ Plan(c) \/ Contact(c) \/ RejectReview(c) \/ Close(c) PROVE OneJudgement'
  <2>1. UNCHANGED <<failed, tx>> /\ \A d \in Campaigns : review'[d] \in Nat /\ review'[d] <= review[d]
    BY <1>0, <1>5 DEF Research, Plan, Contact, RejectReview, Close
  <2>2. CASE Research(c)
    <3>1. /\ <<c, "research">> \in queued /\ queued' \subseteq queued \cup {Qualify(c)}
          /\ c \in rerun' \/ <<c, "research">> \notin queued'
      BY <2>2 DEF Research, Done
    <3>2. ASSUME NEW d \in Campaigns \ rerun' PROVE Alone(d)'
      <4>1. Alone(d)
        BY <1>0, <3>2 DEF OneJudgement
      <4> QED
        BY <1>0, <2>1, <3>1, <3>2, <4>1 DEF Alone
    <3> QED
      BY <3>2 DEF OneJudgement
  <2>3. CASE ~Research(c)
    <3>1. queued' \subseteq queued
      BY <1>5, <2>3 DEF Plan, Done, Contact, RejectReview, Close
    <3>2. ASSUME NEW d \in Campaigns \ rerun' PROVE Alone(d)'
      <4>1. Alone(d)
        BY <1>0, <3>2 DEF OneJudgement
      <4> QED
        BY <1>0, <2>1, <3>1, <4>1 DEF Alone
    <3> QED
      BY <3>2 DEF OneJudgement
  <2> QED
    BY <2>2, <2>3
<1>6. ASSUME UNCHANGED <<failed, review, tx>>,
             \A d : /\ Waits(d, "research")' <=> Waits(d, "research")
                    /\ Waits(d, "qualify")' <=> Waits(d, "qualify")
                    /\ \A k \in {"research", "qualify"} : <<d, k>> \in queued' <=> <<d, k>> \in queued
      PROVE OneJudgement'
  <2>1. ASSUME NEW d \in Campaigns \ rerun' PROVE Alone(d)'
    <3>1. Alone(d)
      BY <1>0, <2>1 DEF OneJudgement
    <3> HIDE DEF Waits
    <3> QED
      BY <1>6, <3>1 DEF Alone
  <2> QED
    BY <2>1 DEF OneJudgement
<1>7. ASSUME NEW c \in Campaigns, Exhaust(c) \/ Stop(c) \/ Reply(c) PROVE OneJudgement'
  <2>1. UNCHANGED <<failed, review, tx>> /\ (UNCHANGED queued \/ \E S : ReleaseClaim(c, S, queued))
    BY <1>7 DEF Exhaust, Stop, Reply
  <2>2. CASE UNCHANGED queued
    BY <1>1, <2>1, <2>2
  <2>3. CASE \E S : ReleaseClaim(c, S, queued)
    <3> HIDE DEF Waits
    <3> QED
      BY <1>6, <2>1, <2>3, ReleaseQueue
  <2> QED
    BY <2>1, <2>2, <2>3
<1>8. ASSUME NEW c \in Campaigns, Delete(c) PROVE OneJudgement'
  <2>1. /\ queued' \subseteq queued /\ failed' \subseteq failed
        /\ \A d \in Campaigns : review'[d] \in {0, review[d]}
        /\ \A u \in Txs : tx'[u].camp \in {None, tx[u].camp}
    BY <1>0, <1>8, IdleType DEF Delete, Typed, TypeOK
  <2>2. ASSUME NEW d \in Campaigns \ rerun' PROVE Alone(d)'
    <3>1. \A u \in Txs : tx'[u].camp = d => tx[u].camp = d
      BY <2>1
    <3>2. Alone(d)
      BY <1>0, <2>2 DEF OneJudgement
    <3> QED
      BY <1>0, <2>1, <3>1, <3>2 DEF Alone
  <2> QED
    BY <2>2 DEF OneJudgement
<1>9. ASSUME NEW p \in Pairs, NEW w \in Campaigns, ResolveConflict(p, w) PROVE OneJudgement'
  <2>1. UNCHANGED <<failed, review, tx>> /\ queued' \in {queued, queued \cup {<<w, "plan">>}}
    BY <1>9 DEF ResolveConflict
  <2> QED
    BY <1>6, <2>1
<1>10. ASSUME NEW j \in Jobs, GiveUp(j) \/ Retry(j) \/ LateRetry(j) PROVE OneJudgement'
  <2>1. UNCHANGED <<review, tx>> /\ j = <<j[1], j[2]>> /\ j[1] \in Campaigns /\ j[2] \in {"research", "qualify", "plan"}
    BY <1>10 DEF GiveUp, Retry, LateRetry, Jobs
  <2>2. ASSUME NEW d \in Campaigns \ rerun' PROVE Alone(d)'
    <3>1. Alone(d)
      BY <1>0, <2>2 DEF OneJudgement
    <3>2. CASE GiveUp(j)
      BY <1>0, <2>1, <3>1, <3>2 DEF GiveUp, Alone
    <3>3. CASE Retry(j)
      BY <1>0, <2>1, <3>1, <3>3 DEF Retry, Alone
    <3>4. CASE LateRetry(j)
      <4>1. d = j[1] => j[2] = "plan"
        BY <2>2, <3>4 DEF LateRetry
      <4>2. \A k \in {"research", "qualify"} : <<d, k>> # j
        BY <2>1, <4>1
      <4>3. /\ \A k \in {"research", "qualify"} : <<d, k>> \in queued' <=> <<d, k>> \in queued
            /\ \A k \in {"research", "qualify"} : <<d, k>> \in failed' <=> <<d, k>> \in failed
        BY <3>4, <4>2 DEF LateRetry
      <4> QED
        BY <2>1, <3>1, <4>3 DEF Alone
    <3> QED
      BY <1>10, <3>2, <3>3, <3>4
  <2> QED
    BY <2>2 DEF OneJudgement
<1>11. ASSUME Suppress \/ UNCHANGED vars PROVE OneJudgement'
  BY <1>1, <1>11 DEF Suppress, vars
<1> QED
  BY <1>2, <1>3, <1>4, <1>5, <1>7, <1>8, <1>9, <1>10, <1>11, StepCases

IInv == Typed /\ OneClaim /\ OneJudgement

LEMMA Initially == Init => IInv
<1>1. Init => OneClaim
  BY DEF Init, OneClaim
<1>2. Init => OneJudgement
  BY IdleType DEF Init, OneJudgement, Alone, Waits
<1> QED
  BY TypedInit, <1>1, <1>2 DEF IInv

LEMMA Inductive == IInv /\ [Next]_vars => IInv'
BY TypedStep, OneClaimStep, OneJudgementStep DEF IInv

\* The strengthened invariant holds throughout: one claim and one judgement,
\* whatever ladders and decisions overlap.
THEOREM Invariance == Spec => []IInv
BY Initially, Inductive, PTL DEF Spec

\* OneClaim: whatever ladders, managers and endings race, one campaign at most
\* holds the prospect's claim.
THEOREM ClaimIsUnique == Spec => []OneClaim
BY Invariance, PTL DEF IInv

\* OneJudgement: no two verdicts of one enrollment are under way, unless the
\* sweep took a live run for dead or a late retry queued the job again.
THEOREM JudgedOnce == Spec => []OneJudgement
BY Invariance, PTL DEF IInv

-----------------------------------------------------------------------------
(* The claims implement ClaimLedger. *)

USE DEF Ledger!vars

LEMMA HolderIs ==
  /\ HolderOf({}) = None
  /\ \A c \in Campaigns : HolderOf({c}) = c
BY DEF HolderOf

LEMMA ActiveIs ==
  ASSUME Typed, OneClaim
  PROVE  active = {} \/ \E c \in Campaigns : active = {c}
BY DEF Typed, TypeOK, OneClaim

\* A transaction that did not win a ladder, and one that did.
LEMMA DuelEnds ==
  ASSUME IInv, NEW t \in Txs, tx[t] # Idle, tx' = [tx EXCEPT ![t] = Idle]
  PROVE  /\ tx[t].verdict # "win" => Duels(tx') = Duels(tx)
         /\ tx[t].verdict = "win" => /\ <<tx[t].camp, tx[t].saw>> \in Duels(tx)
                                     /\ Duels(tx') \in {Duels(tx), Duels(tx) \ {<<tx[t].camp, tx[t].saw>>}}
<1>1. tx[t] \in Working /\ tx'[t].verdict = "none" /\ \A u \in Txs \ {t} : tx'[u] = tx[u]
  BY IdleType DEF IInv, Typed, TypeOK, Shaped
<1>2. tx[t].verdict = "win" => tx[t].saw \in Campaigns /\ tx[t].camp \in Campaigns
  BY <1>1, IdleType DEF IInv, Typed, Shaped, Working
<1>3. ASSUME tx[t].verdict # "win" PROVE Duels(tx') = Duels(tx)
  BY <1>1, <1>3 DEF Duels
<1>4. ASSUME tx[t].verdict = "win" PROVE <<tx[t].camp, tx[t].saw>> \in Duels(tx)
  BY <1>2, <1>4 DEF Duels, Pairs
<1>5. Duels(tx') \subseteq Duels(tx)
  BY <1>1 DEF Duels
<1>6. ASSUME NEW d \in Duels(tx), d # <<tx[t].camp, tx[t].saw>> PROVE d \in Duels(tx')
  BY <1>1, <1>6 DEF Duels
<1> QED
  BY <1>3, <1>4, <1>5, <1>6

LEMMA DuelBegins ==
  ASSUME IInv, NEW t \in Txs, tx[t] = Idle, NEW x \in Working, tx' = [tx EXCEPT ![t] = x],
         x.verdict = "win" => x.saw \in Campaigns
  PROVE  Duels(tx') = IF x.verdict = "win" THEN Duels(tx) \cup {<<x.camp, x.saw>>} ELSE Duels(tx)
<1>1. tx'[t] = x /\ tx[t].verdict = "none" /\ \A u \in Txs \ {t} : tx'[u] = tx[u]
  BY IdleType DEF IInv, Typed, TypeOK
<1> QED
  BY <1>1 DEF Duels, Pairs, Working

\* A ladder the challenger can win.
LEMMA LadderWon ==
  ASSUME TypeOK, NEW c \in Campaigns, NEW s, "win" \in Resolve(c, s)
  PROVE  \E h \in active : h # c /\ h \notin talked /\ Ledger!MayOutrank(c, h)
<1>1. c \notin active /\ \E h \in active : "win" \in Ladder(h, c, s)
  BY DEF Resolve
<1>2. PICK h \in active : "win" \in Ladder(h, c, s)
  BY <1>1
<1>3. h \notin talked /\ h \notin Customers /\ (c \in Customers \/ Priority[c] >= Priority[h])
  BY <1>2 DEF Ladder, IsCustomer, TypeOK
<1> QED
  BY <1>1, <1>2, <1>3 DEF Ledger!MayOutrank

LEMMA RefinesInit == Init => Ledger!Init
BY HolderIs, IdleType DEF Init, Ledger!Init, Duels, Disputes, Pairs

LEMMA JudgeRefines ==
  ASSUME IInv, NEW t \in Txs, NEW c \in Campaigns, Judge(t, c) \/ Approve(t, c)
  PROVE  Ledger!Challenge(c) \/ UNCHANGED Ledger!vars
<1>0. PICK s \in Scores \cup {None} :
        \E v \in {"reject", "borderline"} \cup Resolve(c, s), h \in IF active = {} THEN {None} ELSE active, k \in {"qualify", "review"} :
          tx' = [tx EXCEPT ![t] = [step |-> k, camp |-> c, saw |-> h, verdict |-> v, score |-> s]]
  BY DEF Judge, Approve, IInv, Typed, TypeOK
<1>1. PICK v \in {"reject", "borderline"} \cup Resolve(c, s), h \in IF active = {} THEN {None} ELSE active, k \in {"qualify", "review"} :
        tx' = [tx EXCEPT ![t] = [step |-> k, camp |-> c, saw |-> h, verdict |-> v, score |-> s]]
  BY <1>0
<1> DEFINE x == [step |-> k, camp |-> c, saw |-> h, verdict |-> v, score |-> s]
<1>2. v \in Verdicts \ {"none"} /\ (v = "win" => v \in Resolve(c, s) /\ h \in active)
  BY ResolveType DEF Verdicts
<1>3. h \in Campaigns \cup {None} /\ (v = "win" => h \in Campaigns)
  BY <1>2 DEF IInv, Typed, TypeOK
<1>4. x \in Working /\ (x.verdict = "win" => x.saw \in Campaigns)
  BY <1>2, <1>3 DEF Working
<1>5. tx[t] = Idle /\ UNCHANGED <<active, talked, row>>
  BY DEF Judge, Approve
<1>6. Duels(tx') = IF v = "win" THEN Duels(tx) \cup {<<c, h>>} ELSE Duels(tx)
  BY <1>1, <1>4, <1>5, DuelBegins
<1>7. ASSUME v = "win" PROVE Ledger!Challenge(c)
  <2>1. active = {h}
    BY <1>2, <1>7 DEF IInv, OneClaim
  <2>2. h # c /\ h \notin talked /\ Ledger!MayOutrank(c, h)
    BY <1>2, <1>7, <2>1, LadderWon DEF IInv, Typed
  <2>3. HolderOf(active) = h /\ h # None
    BY <1>3, <1>7, <2>1, HolderIs
  <2> QED
    BY <1>5, <1>6, <1>7, <2>2, <2>3 DEF Ledger!Challenge
<1>8. ASSUME v # "win" PROVE UNCHANGED Ledger!vars
  BY <1>5, <1>6, <1>8
<1> QED
  BY <1>7, <1>8

\* A conflict added is on file, whatever was on file of it before.
LEMMA ConflictOnFile ==
  ASSUME TypeOK, NEW h \in Campaigns, NEW c \in Campaigns, NEW s \in {"open", "logged"}, AddConflict(h, c, s)
  PROVE  Disputes(row') = Disputes(row) \cup {<<c, h>>}
<1>1. <<h, c>> \in Pairs /\ <<c, h>> \in Pairs
  BY DEF Pairs
<1>2. row'[<<h, c>>] # {} /\ \A p \in Pairs : p # <<h, c>> => row'[p] = row[p]
  BY <1>1 DEF AddConflict, TypeOK
<1>3. ASSUME NEW d \in Pairs PROVE d \in Disputes(row') <=> d \in Disputes(row) \cup {<<c, h>>}
  <2>1. d = <<d[1], d[2]>> /\ <<d[2], d[1]>> \in Pairs
    BY DEF Pairs
  <2>2. <<d[2], d[1]>> = <<h, c>> <=> d = <<c, h>>
    BY <2>1
  <2> QED
    BY <1>2, <2>1, <2>2 DEF Disputes
<1> QED
  BY <1>1, <1>3 DEF Disputes

\* The commits of a ladder, and the transactions that roll back.
LEMMA EndRefines ==
  ASSUME IInv, NEW t \in Txs,
         CommitPlain(t) \/ CommitCreate(t) \/ CommitDefer(t) \/ CommitWin(t) \/ Collide(t) \/ Die(t)
  PROVE  [Ledger!Next]_Ledger!vars
<1> DEFINE d == <<tx[t].camp, tx[t].saw>>
<1>1. tx[t] # Idle /\ tx[t] \in Working /\ tx' = [tx EXCEPT ![t] = Idle] /\ UNCHANGED talked
  <2>1. CASE Collide(t) \/ Die(t)
    BY <2>1, IdleType DEF Collide, Die, Blocked, Restored, IInv, Typed, Shaped
  <2>2. CASE CommitPlain(t) \/ CommitCreate(t) \/ CommitDefer(t) \/ CommitWin(t)
    BY <2>2, ReadyWorks DEF IInv, CommitPlain, CommitCreate, CommitDefer, CommitWin, Settle
  <2> QED
    BY <2>1, <2>2
<1>2. /\ tx[t].verdict # "win" => Duels(tx') = Duels(tx)
      /\ tx[t].verdict = "win" => d \in Duels(tx) /\ Duels(tx') \in {Duels(tx), Duels(tx) \ {d}}
  BY <1>1, DuelEnds
<1>3. tx[t].camp \in Campaigns /\ (tx[t].verdict \in {"win", "hold", "tie"} => tx[t].saw \in Campaigns)
  BY <1>1 DEF IInv, Typed, Shaped, Working
<1>4. CASE CommitPlain(t)
  <2>1. tx[t].verdict # "win" /\ UNCHANGED <<active, row>>
    BY <1>4 DEF CommitPlain, Ready
  <2> QED
    BY <1>1, <1>2, <2>1
<1>5. CASE CommitCreate(t)
  <2>1. tx[t].verdict # "win" /\ active = {} /\ active' = {tx[t].camp} /\ UNCHANGED row
    BY <1>5 DEF CommitCreate, Ready
  <2>2. Ledger!Take(tx[t].camp)
    BY <1>1, <1>2, <1>3, <2>1, HolderIs DEF Ledger!Take
  <2> QED
    BY <1>3, <2>2 DEF Ledger!Next
<1>6. CASE CommitDefer(t)
  <2>1. tx[t].verdict \in {"hold", "tie"} /\ AddConflict(tx[t].saw, tx[t].camp, "open") /\ UNCHANGED active
    BY <1>6 DEF CommitDefer, Ready
  <2>2. Disputes(row') = Disputes(row) \cup {d}
    BY <1>3, <2>1, ConflictOnFile DEF IInv, Typed
  <2>3. Ledger!Wait(tx[t].camp, tx[t].saw)
    BY <1>1, <1>2, <2>1, <2>2 DEF Ledger!Wait
  <2> QED
    BY <1>3, <2>1, <2>3 DEF Ledger!Next
<1>7. CASE CommitWin(t)
  <2>1. tx[t].verdict = "win" /\ AddConflict(tx[t].saw, tx[t].camp, "logged") /\ active' = {tx[t].camp}
    BY <1>7 DEF CommitWin, Ready
  <2>2. Disputes(row') = Disputes(row) \cup {d}
    BY <1>3, <2>1, ConflictOnFile DEF IInv, Typed
  <2>3. Ledger!Prevail(d)
    BY <1>1, <1>2, <1>3, <2>1, <2>2, HolderIs DEF Ledger!Prevail
  <2> QED
    BY <1>2, <2>1, <2>3 DEF Ledger!Next
<1>8. CASE Collide(t) \/ Die(t)
  <2>1. UNCHANGED <<active, row>>
    BY <1>8 DEF Collide, Die, Restored
  <2>2. tx[t].verdict = "win" => Ledger!Withdraw(d) \/ UNCHANGED Ledger!vars
    BY <1>1, <1>2, <2>1 DEF Ledger!Withdraw
  <2> QED
    BY <1>1, <1>2, <2>1, <2>2 DEF Ledger!Next
<1> QED
  BY <1>4, <1>5, <1>6, <1>7, <1>8

LEMMA ReleaseRefines ==
  ASSUME IInv, NEW c \in Campaigns, NEW S, ReleaseClaim(c, S, queued)
  PROVE  HolderOf(active') \in {HolderOf(active), None}
BY ActiveIs, HolderIs DEF ReleaseClaim, IInv

LEMMA StepRefines ==
  ASSUME IInv, [Next]_vars
  PROVE  [Ledger!Next]_Ledger!vars
<1>1. ASSUME UNCHANGED vars PROVE UNCHANGED Ledger!vars
  BY <1>1 DEF vars
<1>2. ASSUME NEW t \in Txs, NEW c \in Campaigns, Judge(t, c) \/ Approve(t, c) PROVE [Ledger!Next]_Ledger!vars
  BY <1>2, JudgeRefines DEF Ledger!Next
<1>3. ASSUME NEW t \in Txs,
             CommitPlain(t) \/ CommitCreate(t) \/ CommitDefer(t) \/ CommitWin(t) \/ Collide(t) \/ Die(t)
      PROVE [Ledger!Next]_Ledger!vars
  BY <1>3, EndRefines
<1>4. ASSUME NEW c \in Campaigns, Research(c) \/ Plan(c) \/ Contact(c) \/ RejectReview(c) \/ Close(c)
      PROVE UNCHANGED Ledger!vars
  BY <1>4 DEF Research, Plan, Contact, RejectReview, Close
<1>5. ASSUME NEW c \in Campaigns, Exhaust(c) \/ Stop(c) PROVE [Ledger!Next]_Ledger!vars
  <2>1. UNCHANGED <<talked, row, tx>> /\ HolderOf(active') \in {HolderOf(active), None}
    BY <1>5, ReleaseRefines DEF Exhaust, Stop
  <2>2. HolderOf(active') = None => Ledger!Release
    BY <2>1 DEF Ledger!Release
  <2> QED
    BY <2>1, <2>2 DEF Ledger!Next
<1>6. ASSUME NEW c \in Campaigns, Reply(c) PROVE Ledger!Answer(c)
  <2>1. UNCHANGED <<row, tx>> /\ talked' = talked \cup {c} /\ HolderOf(active') \in {HolderOf(active), None}
    BY <1>6, ReleaseRefines, HolderIs DEF Reply
  <2> QED
    BY <2>1 DEF Ledger!Answer
<1>7. ASSUME NEW c \in Campaigns, Delete(c) PROVE Ledger!Erase(c)
  <2>1. HolderOf(active') = IF HolderOf(active) = c THEN None ELSE HolderOf(active)
    <3>1. active' = active \ {c}
      BY <1>7 DEF Delete
    <3> QED
      BY <3>1, ActiveIs, HolderIs DEF IInv
  <2>2. talked' = talked \ {c}
    BY <1>7 DEF Delete
  <2>3. Disputes(row') = {d \in Disputes(row) : c \notin {d[1], d[2]}}
    BY <1>7 DEF Delete, Disputes, Pairs
  <2>4. Duels(tx') \subseteq Duels(tx)
    <3>1. \A t \in Txs : tx'[t] = tx[t] \/ tx'[t] = Idle
      BY <1>7 DEF Delete
    <3> QED
      BY <3>1, IdleType DEF Duels
  <2> QED
    BY <2>1, <2>2, <2>3, <2>4 DEF Ledger!Erase
<1>8. ASSUME NEW p \in Pairs, NEW w \in Campaigns, ResolveConflict(p, w) PROVE [Ledger!Next]_Ledger!vars
  <2>1. /\ UNCHANGED <<talked, tx>> /\ active' = {w}
        /\ row[p] # {} /\ w \in {p[1], p[2]}
        /\ \E status \in row[p] : row' = [row EXCEPT ![p] = (@ \ {status}) \cup {"resolved"}]
    BY <1>8 DEF ResolveConflict
  <2>2. p = <<p[1], p[2]>> /\ p[1] \in Campaigns /\ p[2] \in Campaigns
    BY DEF Pairs
  <2>3. <<p[2], p[1]>> \in Disputes(row) /\ Disputes(row') = Disputes(row)
    <3>1. \A q \in Pairs : row'[q] # {} <=> row[q] # {}
      BY <2>1 DEF IInv, Typed, TypeOK
    <3>2. \A q \in Pairs : <<q[2], q[1]>> \in Pairs
      BY DEF Pairs
    <3> QED
      BY <2>1, <2>2, <3>1, <3>2 DEF Disputes
  <2>4. HolderOf(active') = w
    BY <2>1, HolderIs
  <2>5. Ledger!Grant(p[1], p[2]) \/ Ledger!Grant(p[2], p[1])
    BY <2>1, <2>3, <2>4 DEF Ledger!Grant
  <2> QED
    BY <2>2, <2>5 DEF Ledger!Next
<1>9. ASSUME NEW j \in Jobs, Suppress \/ GiveUp(j) \/ Retry(j) \/ LateRetry(j) PROVE UNCHANGED Ledger!vars
  BY <1>9 DEF Suppress, GiveUp, Retry, LateRetry
<1>10. ASSUME Suppress PROVE UNCHANGED Ledger!vars
  BY <1>10 DEF Suppress
<1> QED
  BY <1>1, <1>2, <1>3, <1>4, <1>5, <1>6, <1>7, <1>8, <1>9, <1>10, StepCases DEF Ledger!Next

\* LedgerSpec: the claims of the code implement ClaimLedger. A held claim only
\* moves by a ladder its holder could lose, or by a manager's decision.
THEOREM ImplementsLedger == Spec => LedgerSpec
<1>1. IInv /\ [Next]_vars => [Ledger!Next]_Ledger!vars
  BY StepRefines
<1> QED
  BY RefinesInit, Invariance, <1>1, PTL DEF Spec, LedgerSpec, Ledger!Spec

-----------------------------------------------------------------------------
(* Everyone who waits is in a conflict on file. *)

\* Conflicts stay on file until a campaign is erased, and campaigns erased
\* stay erased.
LEMMA RowsStay ==
  ASSUME IInv, Next, deleted' = {}
  PROVE  deleted = {} /\ \A p \in Pairs : row[p] # {} => row'[p] # {}
<1>1. ASSUME NEW h, NEW c, NEW s \in {"open", "logged"}, AddConflict(h, c, s)
      PROVE \A p \in Pairs : row[p] # {} => row'[p] # {}
  BY <1>1 DEF AddConflict, IInv, Typed, TypeOK
<1>2. ASSUME NEW t \in Txs, CommitDefer(t) \/ CommitWin(t)
      PROVE UNCHANGED deleted /\ \A p \in Pairs : row[p] # {} => row'[p] # {}
  BY <1>1, <1>2 DEF CommitDefer, CommitWin, Settle
<1>3. ASSUME NEW t \in Txs, CommitPlain(t) \/ CommitCreate(t) \/ Collide(t) \/ Die(t)
      PROVE UNCHANGED <<deleted, row>>
  BY <1>3 DEF CommitPlain, CommitCreate, Collide, Die, Restored, Settle
<1>4. ASSUME NEW t \in Txs, NEW c \in Campaigns, Judge(t, c) \/ Approve(t, c) PROVE UNCHANGED <<deleted, row>>
  BY <1>4 DEF Judge, Approve
<1>5. ASSUME NEW c \in Campaigns, Delete(c) PROVE deleted' # {}
  BY <1>5 DEF Delete
<1>6. ASSUME NEW c \in Campaigns,
             Research(c) \/ Plan(c) \/ Contact(c) \/ RejectReview(c) \/ Close(c) \/ Exhaust(c) \/ Stop(c) \/ Reply(c) \/ Suppress
      PROVE UNCHANGED <<deleted, row>>
  BY <1>6 DEF Research, Plan, Contact, RejectReview, Close, Exhaust, Stop, Reply, Suppress
<1>7. ASSUME NEW p \in Pairs, NEW w \in Campaigns, ResolveConflict(p, w)
      PROVE UNCHANGED deleted /\ \A q \in Pairs : row[q] # {} => row'[q] # {}
  BY <1>7 DEF ResolveConflict, IInv, Typed, TypeOK
<1>8. ASSUME Suppress PROVE UNCHANGED <<deleted, row>>
  BY <1>8 DEF Suppress
<1>9. ASSUME NEW j \in Jobs, GiveUp(j) \/ Retry(j) \/ LateRetry(j) PROVE UNCHANGED <<deleted, row>>
  BY <1>9 DEF GiveUp, Retry, LateRetry
<1> QED
  BY <1>2, <1>3, <1>4, <1>5, <1>6, <1>7, <1>8, <1>9, StepCases

\* An enrollment is only ever deferred with a conflict of its campaign.
LEMMA DeferredWithCase ==
  ASSUME IInv, Next, NEW c \in Campaigns, state'[c] = "deferred", state[c] # "deferred"
  PROVE  \E p \in Pairs : c \in {p[1], p[2]} /\ row'[p] # {}
<1>1. CASE \E t \in Txs : CommitDefer(t)
  <2>1. PICK t \in Txs : CommitDefer(t)
    BY <1>1
  <2>2. tx[t] \in Working /\ tx[t].saw \in Campaigns /\ tx[t].camp \in Campaigns
    BY <2>1, ReadyWorks, IdleType DEF CommitDefer, Ready, IInv, Typed, Shaped, Working
  <2>3. tx[t].camp = c
    BY <2>1, <2>2 DEF CommitDefer, Settle, IInv, Typed, TypeOK
  <2>4. row'[<<tx[t].saw, tx[t].camp>>] # {}
    BY <2>1, <2>2 DEF CommitDefer, AddConflict, IInv, Typed, TypeOK, Pairs
  <2> QED
    BY <2>2, <2>3, <2>4 DEF Pairs
<1>2. CASE \E p \in Pairs, w \in Campaigns : ResolveConflict(p, w)
  <2>1. PICK p \in Pairs, w \in Campaigns : ResolveConflict(p, w)
    BY <1>2
  <2>2. row'[p] # {}
    BY <2>1 DEF ResolveConflict, IInv, Typed, TypeOK
  <2>3. c \in {p[1], p[2]}
    BY <2>1 DEF ResolveConflict, IInv, Typed, TypeOK, Pairs
  <2> QED
    BY <2>2, <2>3
<1>3. ASSUME NEW t \in Txs, CommitPlain(t) \/ CommitCreate(t) \/ CommitWin(t) PROVE FALSE
  <2>1. tx[t] \in Working /\ \E s \in States \ {"deferred"} : Settle(t, s)
    BY <1>3, ReadyWorks DEF CommitPlain, Ready, Plain, CommitCreate, CommitWin, IInv, States
  <2> QED
    BY <2>1 DEF Settle, IInv, Typed, TypeOK, Working
<1>4. ASSUME NEW t \in Txs, NEW d \in Campaigns, Judge(t, d) \/ Approve(t, d) \/ Collide(t) \/ Die(t) PROVE FALSE
  BY <1>4 DEF Judge, Approve, Collide, Die, Restored
<1>5. ASSUME NEW d \in Campaigns, Research(d) \/ Plan(d) \/ Contact(d) \/ RejectReview(d) \/ Close(d) \/ Delete(d) PROVE FALSE
  BY <1>5 DEF Research, Plan, Contact, RejectReview, Close, Delete, IInv, Typed, TypeOK
<1>6. ASSUME NEW d \in Campaigns, Exhaust(d) \/ Stop(d) \/ Reply(d) PROVE FALSE
  BY <1>6 DEF Exhaust, Stop, Reply, ReleaseClaim, IInv, Typed, TypeOK
<1>7. ASSUME Suppress PROVE FALSE
  BY <1>7 DEF Suppress
<1>8. ASSUME NEW j \in Jobs, GiveUp(j) \/ Retry(j) \/ LateRetry(j) PROVE FALSE
  BY <1>8 DEF GiveUp, Retry, LateRetry
<1> QED
  BY <1>1, <1>2, <1>3, <1>4, <1>5, <1>6, <1>7, <1>8, StepCases

\* WaitersHaveACase: a deferred enrollment is a party to a conflict on file as
\* long as no campaign was erased.
THEOREM WaitersAreListed == Spec => []WaitersHaveACase
<1>1. Init => WaitersHaveACase
  BY DEF Init, WaitersHaveACase
<1>2. IInv /\ WaitersHaveACase /\ [Next]_vars => WaitersHaveACase'
  <2>1. ASSUME IInv, WaitersHaveACase, Next, deleted' = {}, NEW c \in Campaigns, state'[c] = "deferred"
        PROVE \E p \in Pairs : c \in {p[1], p[2]} /\ row'[p] # {}
    <3>1. CASE state[c] = "deferred"
      BY <2>1, <3>1, RowsStay DEF WaitersHaveACase
    <3>2. CASE state[c] # "deferred"
      BY <2>1, <3>2, DeferredWithCase
    <3> QED
      BY <3>1, <3>2
  <2>2. ASSUME WaitersHaveACase, UNCHANGED vars PROVE WaitersHaveACase'
    BY <2>2 DEF WaitersHaveACase, vars
  <2> QED
    BY <2>1, <2>2 DEF WaitersHaveACase
<1> QED
  BY <1>1, <1>2, Invariance, PTL DEF Spec

-----------------------------------------------------------------------------
(* What has ended holds nothing. *)

\* A campaign whose prospect is not judged yet: a job of it is queued, given up
\* or at work, or its borderline approval is open.
Unsettled(c) ==
  \/ Waits(c, "research") \/ Waits(c, "qualify") \/ review[c] > 0
  \/ \E t \in Txs : tx[t].camp = c

\* Until its verdict is committed, a campaign is unknown to the claims: it holds
\* none, is in no conflict, and no ladder met it as the holder. A judgement that
\* is queued a second time may come after the verdict of the first.
Fresh ==
  \A c \in Campaigns \ rerun : Unsettled(c) =>
    /\ c \notin active
    /\ \A p \in Pairs : c \in {p[1], p[2]} => row[p] = {}
    /\ \A t \in Txs : tx[t].saw # c

\* A release leaves the queue as it was but for plan jobs, so it unsettles nobody.
LEMMA ReleaseSettles ==
  ASSUME NEW c, NEW S, ReleaseClaim(c, S, queued), UNCHANGED <<failed, review, tx>>, NEW d, Unsettled(d)'
  PROVE  Unsettled(d)
BY ReleaseQueue DEF Unsettled

\* No campaign is judged again but by a job that is queued a second time: else
\* the jobs to judge only grow by the one of a transaction that rolled back.
LEMMA StillUnsettled ==
  ASSUME IInv, [Next]_vars, NEW d \in Campaigns \ rerun', Unsettled(d)'
  PROVE  Unsettled(d)
<1> USE DEF Unsettled, Waits
<1>0. \A c \in Campaigns : review[c] \in Nat
  BY DEF IInv, Typed, TypeOK
<1>1. ASSUME UNCHANGED vars PROVE Unsettled(d)
  BY <1>1 DEF vars
<1>2. ASSUME NEW t \in Txs, NEW c \in Campaigns, Judge(t, c) \/ Approve(t, c) PROVE Unsettled(d)
  <2>1. tx'[t].camp = c /\ \A u \in Txs \ {t} : tx'[u] = tx[u]
    BY <1>2 DEF Judge, Approve, IInv, Typed, TypeOK
  <2>2. Unsettled(c) /\ queued' \subseteq queued /\ failed' = failed
    BY <1>2 DEF Judge, Done, Approve
  <2>3. review'[d] > 0 => review[d] > 0
    BY <1>0, <1>2 DEF Judge, Approve, IInv, Typed, TypeOK
  <2> QED
    BY <2>1, <2>2, <2>3
<1>3. ASSUME NEW t \in Txs,
             CommitPlain(t) \/ CommitCreate(t) \/ CommitDefer(t) \/ CommitWin(t) \/ Collide(t) \/ Die(t)
      PROVE Unsettled(d)
  <2>1. tx' = [tx EXCEPT ![t] = Idle] /\ failed' = failed
    BY <1>3 DEF CommitPlain, CommitCreate, CommitDefer, CommitWin, Collide, Die, Settle, Restored
  <2>2. queued' \subseteq queued \cup {<<tx[t].camp, "plan">>, Qualify(tx[t].camp)}
    BY <1>3 DEF CommitPlain, CommitCreate, CommitDefer, CommitWin, Collide, Die, Settle, Restored
  <2>3. review' \in {review, [review EXCEPT ![tx[t].camp] = @ + 1]}
    BY <1>3 DEF CommitPlain, CommitCreate, CommitDefer, CommitWin, Collide, Die, Settle, Restored
  <2>4. \A u \in Txs : tx'[u].camp = d => tx[u].camp = d
    BY <2>1, IdleType DEF IInv, Typed, TypeOK
  <2>5. review'[d] > 0 => review[d] > 0 \/ d = tx[t].camp
    BY <2>3 DEF IInv, Typed, TypeOK
  <2> QED
    BY <2>1, <2>2, <2>4, <2>5
<1>4. ASSUME NEW c \in Campaigns, Research(c) \/ Plan(c) \/ Contact(c) \/ RejectReview(c) \/ Close(c) PROVE Unsettled(d)
  <2>1. UNCHANGED <<failed, tx>> /\ (queued' \subseteq queued \/ Research(c))
    BY <1>4 DEF Research, Plan, Done, Contact, RejectReview, Close
  <2>2. Research(c) => <<c, "research">> \in queued /\ queued' \subseteq queued \cup {Qualify(c)}
    BY DEF Research, Done
  <2>3. review'[d] > 0 => review[d] > 0
    BY <1>0, <1>4 DEF Research, Plan, Contact, RejectReview, Close, IInv, Typed, TypeOK
  <2> QED
    BY <2>1, <2>2, <2>3
<1>5. ASSUME NEW c \in Campaigns, Exhaust(c) \/ Stop(c) \/ Reply(c) PROVE Unsettled(d)
  <2>1. UNCHANGED <<failed, review, tx>>
    BY <1>5 DEF Exhaust, Stop, Reply
  <2>2. UNCHANGED queued \/ \E S : ReleaseClaim(c, S, queued)
    BY <1>5 DEF Exhaust, Stop, Reply
  <2>3. CASE UNCHANGED queued
    BY <2>1, <2>3
  <2>4. CASE \E S : ReleaseClaim(c, S, queued)
    <3> HIDE DEF Unsettled
    <3> QED
      BY <2>1, <2>4, ReleaseSettles
  <2> QED
    BY <2>2, <2>3, <2>4
<1>6. ASSUME NEW c \in Campaigns, Delete(c) PROVE Unsettled(d)
  <2>1. \A u \in Txs : tx'[u].camp = d => tx[u].camp = d
    BY <1>6, IdleType DEF Delete
  <2>2. review'[d] > 0 => review[d] > 0
    BY <1>6 DEF Delete, IInv, Typed, TypeOK
  <2>3. queued' \subseteq queued /\ failed' \subseteq failed
    BY <1>6 DEF Delete
  <2> QED
    BY <2>1, <2>2, <2>3
<1>7. ASSUME NEW p \in Pairs, NEW w \in Campaigns, ResolveConflict(p, w) PROVE Unsettled(d)
  <2>1. UNCHANGED <<failed, review, tx>> /\ queued' \subseteq queued \cup {<<w, "plan">>}
    BY <1>7 DEF ResolveConflict
  <2> QED
    BY <2>1
<1>8. ASSUME Suppress PROVE Unsettled(d)
  BY <1>8 DEF Suppress
<1>9. ASSUME NEW j \in Jobs, GiveUp(j) \/ Retry(j) \/ LateRetry(j) PROVE Unsettled(d)
  <2>1. UNCHANGED <<review, tx>> /\ j = <<j[1], j[2]>>
    BY <1>9 DEF GiveUp, Retry, LateRetry, Jobs
  <2>2. CASE GiveUp(j) \/ Retry(j)
    BY <2>1, <2>2 DEF GiveUp, Retry
  <2>3. CASE LateRetry(j)
    <3>1. d = j[1] => j[2] = "plan"
      BY <2>3 DEF LateRetry
    <3> QED
      BY <2>1, <2>3, <3>1 DEF LateRetry
  <2> QED
    BY <1>9, <2>2, <2>3
<1> QED
  <2> HIDE DEF Unsettled, Waits
  <2> QED
    BY <1>1, <1>2, <1>3, <1>4, <1>5, <1>6, <1>7, <1>8, <1>9, StepCases

\* Whoever takes the claim or enters a conflict has had its verdict.
LEMMA VerdictSettles ==
  ASSUME IInv, NEW t \in Txs, CommitCreate(t) \/ CommitDefer(t) \/ CommitWin(t)
  PROVE  \E c \in Campaigns : c = tx[t].camp /\ Unsettled(c) /\ (c \in rerun' \/ ~Unsettled(c)')
<1>1. tx[t] \in Working
  BY ReadyWorks DEF IInv, CommitCreate, CommitDefer, CommitWin
<1>2. /\ tx' = [tx EXCEPT ![t] = Idle] /\ UNCHANGED <<review, failed, rerun>>
      /\ queued' \subseteq queued \cup {<<tx[t].camp, "plan">>}
  BY DEF CommitCreate, CommitDefer, CommitWin, Settle
<1>3. PICK c \in Campaigns : c = tx[t].camp
  BY <1>1 DEF Working
<1>4. Unsettled(c)
  BY <1>3 DEF Unsettled
<1>5. ASSUME c \notin rerun PROVE ~Unsettled(c)'
  <2>1. Alone(c)
    BY <1>5 DEF IInv, OneJudgement
  <2>2. \A u \in Txs : tx'[u].camp # c
    BY <1>2, <1>3, <2>1, IdleType DEF Alone, IInv, Typed, TypeOK
  <2> QED
    BY <1>2, <1>3, <2>1, <2>2 DEF Unsettled, Alone, Waits
<1> QED
  BY <1>2, <1>3, <1>4, <1>5

\* The claim goes to a campaign that has its verdict, or to one of a conflict.
LEMMA NewHolder ==
  ASSUME IInv, [Next]_vars, NEW d \in active' \ active
  PROVE  \/ d \in rerun' \/ ~Unsettled(d)'
         \/ \E p \in Pairs : d \in {p[1], p[2]} /\ row[p] # {} /\ "resolved" \in row'[p]
<1>1. ASSUME NEW t \in Txs, CommitCreate(t) \/ CommitWin(t) PROVE d \in rerun' \/ ~Unsettled(d)'
  BY <1>1, VerdictSettles DEF CommitCreate, CommitWin
<1>2. ASSUME NEW p \in Pairs, NEW w \in Campaigns, ResolveConflict(p, w)
      PROVE d \in {p[1], p[2]} /\ row[p] # {} /\ "resolved" \in row'[p]
  BY <1>2 DEF ResolveConflict, IInv, Typed, TypeOK
<1>3. ASSUME NEW t \in Txs, CommitPlain(t) \/ CommitDefer(t) \/ Collide(t) \/ Die(t) PROVE FALSE
  BY <1>3 DEF CommitPlain, CommitDefer, Collide, Die, Restored
<1>4. ASSUME NEW t \in Txs, NEW c \in Campaigns, Judge(t, c) \/ Approve(t, c) PROVE FALSE
  BY <1>4 DEF Judge, Approve
<1>5. ASSUME NEW c \in Campaigns, Research(c) \/ Plan(c) \/ Contact(c) \/ RejectReview(c) \/ Close(c) \/ Delete(c) PROVE FALSE
  BY <1>5 DEF Research, Plan, Contact, RejectReview, Close, Delete
<1>6. ASSUME NEW c \in Campaigns, Exhaust(c) \/ Stop(c) \/ Reply(c) PROVE FALSE
  BY <1>6 DEF Exhaust, Stop, Reply, ReleaseClaim
<1>7. ASSUME Suppress \/ UNCHANGED vars PROVE FALSE
  BY <1>7 DEF Suppress, vars
<1>8. ASSUME NEW j \in Jobs, GiveUp(j) \/ Retry(j) \/ LateRetry(j) PROVE FALSE
  BY <1>8 DEF GiveUp, Retry, LateRetry
<1> QED
  BY <1>1, <1>2, <1>3, <1>4, <1>5, <1>6, <1>7, <1>8, StepCases

\* A conflict is put on file by a verdict, between its campaign and the holder
\* it was judged against.
LEMMA NewConflict ==
  ASSUME IInv, [Next]_vars, NEW p \in Pairs, row'[p] # row[p]
  PROVE  \/ \E t \in Txs, c \in Campaigns : p = <<tx[t].saw, c>> /\ (c \in rerun' \/ ~Unsettled(c)')
         \/ row[p] # {} /\ "resolved" \in row'[p]
         \/ row'[p] = {} /\ deleted' # {}
<1>1. ASSUME NEW t \in Txs, CommitDefer(t) \/ CommitWin(t)
      PROVE \E c \in Campaigns : p = <<tx[t].saw, c>> /\ (c \in rerun' \/ ~Unsettled(c)')
  <2>1. PICK c \in Campaigns : c = tx[t].camp /\ (c \in rerun' \/ ~Unsettled(c)')
    BY <1>1, VerdictSettles
  <2>2. p = <<tx[t].saw, c>>
    BY <1>1, <2>1 DEF CommitDefer, CommitWin, AddConflict, IInv, Typed, TypeOK
  <2> QED
    BY <2>1, <2>2
<1>2. ASSUME NEW q \in Pairs, NEW w \in Campaigns, ResolveConflict(q, w)
      PROVE row[p] # {} /\ "resolved" \in row'[p]
  BY <1>2 DEF ResolveConflict, IInv, Typed, TypeOK
<1>3. ASSUME NEW c \in Campaigns, Delete(c) PROVE row'[p] = {} /\ deleted' # {}
  BY <1>3 DEF Delete
<1>4. ASSUME NEW t \in Txs, CommitPlain(t) \/ CommitCreate(t) \/ Collide(t) \/ Die(t) PROVE FALSE
  BY <1>4 DEF CommitPlain, CommitCreate, Collide, Die, Restored
<1>5. ASSUME NEW t \in Txs, NEW c \in Campaigns, Judge(t, c) \/ Approve(t, c) PROVE FALSE
  BY <1>5 DEF Judge, Approve
<1>6. ASSUME NEW c \in Campaigns,
             Research(c) \/ Plan(c) \/ Contact(c) \/ RejectReview(c) \/ Close(c) \/ Exhaust(c) \/ Stop(c) \/ Reply(c)
      PROVE FALSE
  BY <1>6 DEF Research, Plan, Contact, RejectReview, Close, Exhaust, Stop, Reply
<1>7. ASSUME Suppress \/ UNCHANGED vars PROVE FALSE
  BY <1>7 DEF Suppress, vars
<1>8. ASSUME NEW j \in Jobs, GiveUp(j) \/ Retry(j) \/ LateRetry(j) PROVE FALSE
  BY <1>8 DEF GiveUp, Retry, LateRetry
<1> QED
  BY <1>1, <1>2, <1>3, <1>4, <1>5, <1>6, <1>7, <1>8, StepCases

\* A ladder meets who holds the claim.
LEMMA NewSight ==
  ASSUME IInv, [Next]_vars, NEW t \in Txs, NEW d \in Campaigns, tx'[t].saw = d
  PROVE  tx[t].saw = d \/ d \in active
<1>1. ASSUME NEW u \in Txs, NEW c \in Campaigns, Judge(u, c) \/ Approve(u, c) PROVE tx[t].saw = d \/ d \in active
  <2>1. \E h \in IF active = {} THEN {None} ELSE active : tx'[u].saw = h
    <3>1. CASE Judge(u, c)
      BY <3>1 DEF Judge, IInv, Typed, TypeOK
    <3>2. CASE Approve(u, c)
      BY <3>2 DEF Approve, IInv, Typed, TypeOK
    <3> QED
      BY <1>1, <3>1, <3>2
  <2>2. t # u => tx'[t] = tx[t]
    BY <1>1 DEF Judge, Approve, IInv, Typed, TypeOK
  <2> QED
    BY <2>1, <2>2
<1>2. ASSUME \A u \in Txs : tx'[u] \in {Idle, tx[u]} PROVE tx[t].saw = d
  BY <1>2 DEF Idle
<1>3. ASSUME NEW u \in Txs, tx' = [tx EXCEPT ![u] = Idle] PROVE \A x \in Txs : tx'[x] \in {Idle, tx[x]}
  BY <1>3 DEF IInv, Typed, TypeOK
<1>4. ASSUME NEW u \in Txs,
             CommitPlain(u) \/ CommitCreate(u) \/ CommitDefer(u) \/ CommitWin(u) \/ Collide(u) \/ Die(u)
      PROVE tx' = [tx EXCEPT ![u] = Idle]
  BY <1>4 DEF CommitPlain, CommitCreate, CommitDefer, CommitWin, Collide, Die, Settle, Restored
<1>5. ASSUME NEW c \in Campaigns, Delete(c) PROVE \A u \in Txs : tx'[u] \in {Idle, tx[u]}
  BY <1>5 DEF Delete
<1>6. ASSUME NEW c \in Campaigns,
             Research(c) \/ Plan(c) \/ Contact(c) \/ RejectReview(c) \/ Close(c) \/ Exhaust(c) \/ Stop(c) \/ Reply(c)
      PROVE tx' = tx
  BY <1>6 DEF Research, Plan, Contact, RejectReview, Close, Exhaust, Stop, Reply
<1>7. ASSUME NEW p \in Pairs, NEW w \in Campaigns, ResolveConflict(p, w) PROVE tx' = tx
  BY <1>7 DEF ResolveConflict
<1>8. ASSUME Suppress \/ UNCHANGED vars PROVE tx' = tx
  BY <1>8 DEF Suppress, vars
<1>9. ASSUME NEW j \in Jobs, GiveUp(j) \/ Retry(j) \/ LateRetry(j) PROVE tx' = tx
  BY <1>9 DEF GiveUp, Retry, LateRetry
<1> QED
  BY <1>1, <1>2, <1>3, <1>4, <1>5, <1>6, <1>7, <1>8, <1>9, StepCases

LEMMA FreshStep ==
  ASSUME IInv, Fresh, [Next]_vars
  PROVE  Fresh'
<1> SUFFICES ASSUME NEW d \in Campaigns \ rerun', Unsettled(d)'
             PROVE  /\ d \notin active'
                    /\ \A p \in Pairs : d \in {p[1], p[2]} => row'[p] = {}
                    /\ \A t \in Txs : tx'[t].saw # d
  BY DEF Fresh
<1>1. /\ Unsettled(d) /\ d \notin active /\ d \notin rerun
      /\ \A p \in Pairs : d \in {p[1], p[2]} => row[p] = {}
      /\ \A t \in Txs : tx[t].saw # d
  BY StillUnsettled, RerunGrows DEF Fresh
<1>2. d \notin active'
  BY <1>1, NewHolder
<1>3. \A t \in Txs : tx'[t].saw # d
  BY <1>1, NewSight
<1>4. ASSUME NEW p \in Pairs, d \in {p[1], p[2]} PROVE row'[p] = {}
  <2>1. \A t \in Txs, c \in Campaigns : p = <<tx[t].saw, c>> => p[1] # d /\ p[2] = c
    BY <1>1
  <2>2. CASE row'[p] # row[p]
    BY <1>1, <1>4, <2>1, <2>2, NewConflict
  <2> QED
    BY <1>1, <1>4, <2>2
<1> QED
  BY <1>2, <1>3, <1>4

\* How a campaign may come to hold a claim although it ended.
LEMMA HolderEnds ==
  ASSUME IInv, Fresh, Next, deleted' = {}, NEW c \in active', state'[c] \in Ended
  PROVE  \/ c \in active /\ state[c] \in Ended
         \/ c \in judged' \/ c \in rerun'
         \/ \E p \in Pairs : c \in {p[1], p[2]} /\ "resolved" \in row'[p]
<1> USE DEF Ended
<1>1. ASSUME NEW t \in Txs, CommitPlain(t) PROVE c \in rerun' \/ (c \in active /\ state[c] \in Ended)
  <2>1. tx[t] \in Working /\ c \in active /\ rerun' = rerun
    BY <1>1, ReadyWorks DEF IInv, CommitPlain, Settle
  <2>2. Unsettled(tx[t].camp) /\ tx[t].camp \in Campaigns
    BY <2>1 DEF Unsettled, Working
  <2>3. c # tx[t].camp \/ c \in rerun'
    BY <2>1, <2>2 DEF Fresh
  <2> QED
    BY <1>1, <2>1, <2>3 DEF CommitPlain, Settle, IInv, Typed, TypeOK
<1>2. ASSUME NEW t \in Txs, CommitCreate(t) \/ CommitWin(t) PROVE FALSE
  BY <1>2, VerdictSettles DEF CommitCreate, CommitWin, Settle, IInv, Typed, TypeOK
<1>3. ASSUME NEW t \in Txs, CommitDefer(t) PROVE c \in active /\ state[c] \in Ended
  BY <1>3, VerdictSettles DEF CommitDefer, Settle, IInv, Typed, TypeOK
<1>4. ASSUME NEW t \in Txs, Collide(t) \/ Die(t) PROVE c \in active /\ state[c] \in Ended
  BY <1>4 DEF Collide, Die, Restored
<1>5. ASSUME NEW t \in Txs, NEW d \in Campaigns, Judge(t, d) \/ Approve(t, d) PROVE c \in active /\ state[c] \in Ended
  BY <1>5 DEF Judge, Approve
<1>6. ASSUME NEW d \in Campaigns, Research(d) \/ Plan(d) \/ Contact(d) \/ Close(d) PROVE c \in active /\ state[c] \in Ended
  BY <1>6 DEF Research, Plan, Contact, Close, IInv, Typed, TypeOK
<1>7. ASSUME NEW d \in Campaigns, RejectReview(d) PROVE c \in judged' \/ (c \in active /\ state[c] \in Ended)
  BY <1>7 DEF RejectReview, IInv, Typed, TypeOK
<1>8. ASSUME NEW d \in Campaigns, ReleaseClaim(d, [state EXCEPT ![d] = "ended"], queued)
      PROVE c \in active /\ state[c] \in Ended
  BY <1>8 DEF ReleaseClaim, IInv, Typed, TypeOK
<1>9. ASSUME NEW d \in Campaigns, Exhaust(d) \/ Stop(d) PROVE c \in active /\ state[c] \in Ended
  BY <1>8, <1>9 DEF Exhaust, Stop
<1>10. ASSUME NEW d \in Campaigns, Reply(d) PROVE c \in active /\ state[c] \in Ended
  BY <1>8, <1>10 DEF Reply, IInv, Typed, TypeOK
<1>11. ASSUME NEW d \in Campaigns, Delete(d) PROVE FALSE
  BY <1>11 DEF Delete
<1>12. ASSUME NEW p \in Pairs, NEW w \in Campaigns, ResolveConflict(p, w)
       PROVE c \in {p[1], p[2]} /\ "resolved" \in row'[p]
  BY <1>12 DEF ResolveConflict, IInv, Typed, TypeOK
<1>13. ASSUME Suppress PROVE c \in active /\ state[c] \in Ended
  BY <1>13 DEF Suppress
<1>14. ASSUME NEW j \in Jobs, GiveUp(j) \/ Retry(j) \/ LateRetry(j) PROVE c \in active /\ state[c] \in Ended
  BY <1>14 DEF GiveUp, Retry, LateRetry
<1> QED
  BY <1>1, <1>2, <1>3, <1>4, <1>5, <1>6, <1>7, <1>9, <1>10, <1>11, <1>12, <1>13, <1>14, StepCases

\* A decision of a manager is on file until a campaign is erased.
LEMMA DecisionsStay ==
  ASSUME IInv, Next, deleted' = {}
  PROVE  /\ deleted = {} /\ judged \subseteq judged'
         /\ \A p \in Pairs : "resolved" \in row[p] => "resolved" \in row'[p]
<1>1. deleted = {}
  BY RowsStay
<1>2. ASSUME NEW t \in Txs, CommitDefer(t) \/ CommitWin(t)
      PROVE judged \subseteq judged' /\ \A p \in Pairs : "resolved" \in row[p] => "resolved" \in row'[p]
  <2>1. \E h, c, s : AddConflict(h, c, s)
    BY <1>2 DEF CommitDefer, CommitWin
  <2>2. \A p \in Pairs : "resolved" \in row[p] => "resolved" \in row'[p]
    BY <2>1 DEF AddConflict, IInv, Typed, TypeOK
  <2> QED
    BY <1>2, <2>2 DEF CommitDefer, CommitWin, Settle
<1>3. ASSUME NEW t \in Txs, CommitPlain(t) \/ CommitCreate(t) \/ Collide(t) \/ Die(t)
      PROVE judged \subseteq judged' /\ row' = row
  BY <1>3 DEF CommitPlain, CommitCreate, Collide, Die, Settle, Restored
<1>4. ASSUME NEW t \in Txs, NEW c \in Campaigns, Judge(t, c) \/ Approve(t, c) PROVE UNCHANGED <<judged, row>>
  BY <1>4 DEF Judge, Approve
<1>5. ASSUME NEW c \in Campaigns,
             \/ Research(c) \/ Plan(c) \/ Contact(c) \/ RejectReview(c) \/ Close(c) \/ Exhaust(c)
             \/ Stop(c) \/ Reply(c) \/ Suppress
      PROVE judged \subseteq judged' /\ row' = row
  BY <1>5 DEF Research, Plan, Contact, RejectReview, Close, Exhaust, Stop, Reply, Suppress
<1>6. ASSUME NEW c \in Campaigns, Delete(c) PROVE FALSE
  BY <1>6 DEF Delete
<1>7. ASSUME NEW q \in Pairs, NEW w \in Campaigns, ResolveConflict(q, w)
      PROVE judged' = judged /\ \A p \in Pairs : "resolved" \in row[p] => "resolved" \in row'[p]
  BY <1>7 DEF ResolveConflict, IInv, Typed, TypeOK
<1>8. ASSUME Suppress PROVE UNCHANGED <<judged, row>>
  BY <1>8 DEF Suppress
<1>9. ASSUME NEW j \in Jobs, GiveUp(j) \/ Retry(j) \/ LateRetry(j) PROVE UNCHANGED <<judged, row>>
  BY <1>9 DEF GiveUp, Retry, LateRetry
<1> QED
  BY <1>1, <1>2, <1>3, <1>4, <1>5, <1>6, <1>7, <1>8, <1>9, StepCases

\* A prospect whose judgement is over is not judged again: not by a claim that
\* wakes it, by no manager and by no job that rolled back (do_qualify(),
\* approve_item(), release_claim(), record_failure()). Only a job that the sweep
\* took from a live worker or that a late retry() queued leads back.
JudgedForGood == [][\A c \in Campaigns \ rerun' : Unsettled(c)' => Unsettled(c)]_vars

\* What Decided needs besides fairness: no way leads back into the judgement but
\* a second queueing of its job, which is counted (rerun).
THEOREM DecidedForGood == Spec => JudgedForGood
<1>1. IInv /\ [Next]_vars => [\A c \in Campaigns \ rerun' : Unsettled(c)' => Unsettled(c)]_vars
  BY StillUnsettled
<1>2. QED
  BY <1>1, Invariance, PTL DEF Spec, JudgedForGood

\* Nobody holds a claim or is in a conflict before its verdict is committed, so
\* only the second judgement of a job that was swept or retried late finds that
\* it has the claim already (handlers.py:84-140, claims.py:71-104).
THEOREM FreshUntilJudged == Spec => []Fresh
<1>1. Init => Fresh
  BY IdleType DEF Init, Fresh, Idle
<1>2. IInv /\ Fresh /\ [Next]_vars => Fresh'
  BY FreshStep
<1> QED
  BY <1>1, <1>2, Invariance, PTL DEF Spec

\* EndedHoldsNothing: whatever jobs, scans, replies and approvals overlap, an
\* enrollment that ended holds no claim unless a person decided, or its judgement
\* was queued a second time.
THEOREM EndedReleases == Spec => []EndedHoldsNothing
<1>1. Init => EndedHoldsNothing
  BY DEF Init, EndedHoldsNothing
<1>2. IInv /\ Fresh /\ EndedHoldsNothing /\ [Next]_vars => EndedHoldsNothing'
  <2>1. ASSUME IInv, Fresh, EndedHoldsNothing, Next, deleted' = {}, NEW c \in active', state'[c] \in Ended
        PROVE c \in judged' \/ c \in rerun' \/ \E p \in Pairs : c \in {p[1], p[2]} /\ "resolved" \in row'[p]
    BY <2>1, HolderEnds, DecisionsStay, RerunGrows DEF EndedHoldsNothing
  <2>2. ASSUME EndedHoldsNothing, UNCHANGED vars PROVE EndedHoldsNothing'
    BY <2>2 DEF EndedHoldsNothing, vars
  <2> QED
    BY <2>1, <2>2 DEF EndedHoldsNothing
<1> QED
  BY <1>1, <1>2, Invariance, FreshUntilJudged, PTL DEF Spec
=============================================================================
