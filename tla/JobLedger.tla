----------------------------- MODULE JobLedger ------------------------------
(***************************************************************************)
(* What the job queue promises, without batches, ticks, clocks or crashes. *)
(* Executors are handed queued jobs and give each of them at most one      *)
(* verdict; a job may be put back under the executor that holds it, and a  *)
(* request that saw it failed may reopen it at any later time. Nothing     *)
(* else moves a job, and the jobs marked running keep within the cap.      *)
(***************************************************************************)
EXTENDS Integers, FiniteSets

CONSTANTS Jobs, Executors, Cap

VARIABLES
  status,  \* what each job's row says
  hold,    \* the executors each job was handed to and that have not let go
  asked    \* requests to reopen a job, made when it had failed

vars == <<status, hold, asked>>

In(s) == {j \in Jobs : status[j] = s}

Moved(S, s) == [j \in Jobs |-> IF j \in S THEN s ELSE status[j]]

Has(x) == {j \in Jobs : x \in hold[j]}

\* hold without executor x for the jobs of S.
Without(x, S) == [j \in Jobs |-> IF j \in S THEN hold[j] \ {x} ELSE hold[j]]

Init ==
  /\ status \in [Jobs -> {"absent", "queued"}]
  /\ hold = [j \in Jobs |-> {}]
  /\ asked = [j \in Jobs |-> 0]

\* An executor with empty hands is given some queued jobs, within the cap.
Claim(x) ==
  /\ Has(x) = {}
  /\ \E S \in SUBSET In("queued") :
       /\ Cardinality(In("running") \cup S) <= Cap
       /\ status' = Moved(S, "running")
       /\ hold' = [j \in Jobs |-> IF j \in S THEN hold[j] \cup {x} ELSE hold[j]]
  /\ asked' = asked

\* An executor gives its verdict on a job it holds and lets go of it, whatever
\* the row says by now; a finished job may leave follow-up jobs.
Settle(x) ==
  \E j \in Has(x), verdict \in {"queued", "done", "failed", "cancelled"} :
    \E new \in SUBSET In("absent") :
      /\ new # {} => verdict = "done"
      /\ status' = [Moved(new, "queued") EXCEPT ![j] = verdict]
      /\ hold' = Without(x, {j})
      /\ asked' = asked

\* An executor loses jobs without a verdict.
Drop(x) ==
  /\ \E S \in SUBSET Has(x) : hold' = Without(x, S)
  /\ UNCHANGED <<status, asked>>

\* An executor with empty hands puts running jobs back, though another may
\* still be at work on them.
Recover(x) ==
  /\ Has(x) = {}
  /\ \E S \in SUBSET In("running") : status' = Moved(S, "queued")
  /\ UNCHANGED <<hold, asked>>

Submit == \E j \in In("absent") : status' = Moved({j}, "queued") /\ UNCHANGED <<hold, asked>>

Withdraw ==
  /\ \E S \in SUBSET In("queued") : status' = Moved(S, "cancelled")
  /\ UNCHANGED <<hold, asked>>

\* Somebody sees that the job has failed, and reopens it sooner or later.
Ask ==
  /\ \E j \in In("failed") : asked' = [asked EXCEPT ![j] = @ + 1]
  /\ UNCHANGED <<status, hold>>

Reopen ==
  \E j \in Jobs :
    /\ asked[j] > 0
    /\ asked' = [asked EXCEPT ![j] = @ - 1]
    /\ status' = Moved({j}, "queued")
    /\ hold' = hold

Next ==
  \/ \E x \in Executors : Claim(x) \/ Settle(x) \/ Drop(x) \/ Recover(x)
  \/ Submit \/ Withdraw \/ Ask \/ Reopen

Spec == Init /\ [][Next]_vars
=============================================================================
