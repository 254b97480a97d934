----------------------------- MODULE AgentCalls -----------------------------
(***************************************************************************)
(* The calls of a model made by the jobs of one claimed batch:             *)
(* agents/llm_client.py (attempts, waits, the fallback provider, one       *)
(* repair pass, replayed outputs) and the agents that call it              *)
(* (qualifier.py, sequencer.py, writer.py, and the hosted Researcher of    *)
(* orchestrator/dronahq.py), each with what it does of an answer it        *)
(* cannot use.                                                             *)
(*                                                                         *)
(* Worker.claim() marks the whole batch running at one time and            *)
(* Worker.run_batch() works through it job by job, so the age of a job,    *)
(* which the stale sweep looks at, is the time since the claim.            *)
(***************************************************************************)
EXTENDS Integers, Sequences

CONSTANTS
  Batches,        \* the batches a worker may claim: the kinds of their jobs, in order
  Retries,        \* RETRIES of one call
  RateLimitWaits, \* RATE_LIMIT_WAITS: refusals with a retry-after that cost no attempt
  Timeout,        \* TIMEOUT_S of one request to a provider
  MaxWait,        \* MAX_WAIT_S, the longest pause before the next attempt
  PostTimeout,    \* POST_TIMEOUT_S of the hosted Researcher
  WaitSeconds,    \* WAIT_SECONDS for its callback
  Durations,      \* the durations of requests and waits that are told apart
  Threshold       \* the campaign's ICP threshold

Kinds == {"research", "qualify", "plan", "draft"}
Modes == {"fake", "live", "replay"}

ASSUME AgentCallsAssumption ==
  /\ Batches \subseteq Seq(Kinds) \ {<< >>}
  /\ Retries \in Nat /\ RateLimitWaits \in Nat
  /\ Timeout \in Nat /\ MaxWait \in Nat
  /\ PostTimeout \in Nat /\ WaitSeconds \in Nat
  /\ Durations \subseteq Nat
  /\ Threshold \in 0 .. 100

VARIABLES
  batch,     \* the claimed jobs of one campaign
  mode,      \* settings.llm_mode; "record" calls as "live" does
  at,        \* the job of the batch that is running
  pc,        \* where its handler is
  runs,      \* calls of llm_client.run() its agent may make after this one
  redo,      \* do_draft() may still draft again, for another channel
  repairing, \* run() is in its repair pass
  left,      \* attempts_left of _call()
  waits,     \* rate_waits_left of _call()
  posts,     \* requests this job has sent to a provider
  took,      \* time this job has taken
  out        \* what became of each job that ended

call == <<runs, redo, repairing, left, waits>>
setup == <<batch, mode>>
vars == <<setup, at, pc, call, posts, took, out>>

\* How a job ended: what its result came from, the last answer of a model it
\* had, and the decision of a qualify job.
Sources   == {"model", "rules", "hosted", "offline", "filter", "raised"}
Answers   == {"garbage", "unfit", "fit"}
Decisions == {"reject", "borderline", "qualify"}
Outcome   == [by : Sources, answer : Answers \cup {"none"}, dec : Decisions \cup {"none"}]

\* The requests and the time of one _call(), and of all that a job may make.
CallPosts == Retries + 1 + RateLimitWaits + 1
CallTime  == (Retries + 1 + RateLimitWaits) * (Timeout + MaxWait) + Timeout
Calls(k)  == CASE k = "draft" -> 8 [] k = "plan" -> 4 [] k = "qualify" -> 2 [] OTHER -> 0
MostPosts(k) == Calls(k) * CallPosts
MostTime(k)  == IF k = "research" THEN PostTimeout + WaitSeconds ELSE Calls(k) * CallTime

TypeOK ==
  /\ batch \in Batches
  /\ mode \in Modes
  /\ at \in 1 .. Len(batch) + 1
  /\ pc \in {"start", "hosted", "polling", "attempt", "fallback", "end"}
  /\ runs \in {0, 1} /\ redo \in BOOLEAN /\ repairing \in BOOLEAN
  /\ left \in 0 .. Retries + 1 /\ waits \in 0 .. RateLimitWaits
  /\ posts \in Nat /\ took \in Nat
  /\ out \in Seq(Outcome)

Init ==
  /\ batch \in Batches
  /\ mode \in Modes
  /\ at = 1 /\ pc = "start"
  /\ runs = 0 /\ redo = FALSE /\ repairing = FALSE /\ left = 0 /\ waits = 0
  /\ posts = 0 /\ took = 0 /\ out = << >>

Kind == batch[at]

Within(limit) == {d \in Durations : d <= limit}

-----------------------------------------------------------------------------
(* The handler around a call.                                              *)

\* _call() begins, for the question or for its repair.
OpenCall(repair) ==
  /\ pc' = "attempt" /\ repairing' = repair
  /\ left' = Retries + 1 /\ waits' = RateLimitWaits

\* run() is called, and the agent may call it r times more.
Ask(r) == runs' = r /\ OpenCall(FALSE)

\* The job ends d after its last step began, and run_batch() goes on.
End(d, by, answer, dec) ==
  /\ out' = Append(out, [by |-> by, answer |-> answer, dec |-> dec])
  /\ at' = at + 1
  /\ pc' = IF at = Len(batch) THEN "end" ELSE "start"
  /\ runs' = 0 /\ redo' = FALSE /\ repairing' = FALSE /\ left' = 0 /\ waits' = 0
  /\ posts' = 0 /\ took' = 0 /\ UNCHANGED setup

\* The job goes on after an answer or a refusal: a request was sent unless the
\* output is a replayed one.
GoOn(d) ==
  /\ posts' = posts + (IF mode = "live" THEN 1 ELSE 0)
  /\ took' = took + d
  /\ UNCHANGED <<setup, at, out>>

\* qualifier.score() of five criteria: CRIT_VALUE in hundredths, rounded.
Score(met, part, unk) == (2 * (100 * met + 55 * part + 30 * unk) + 5) \div 10
Unknown == Score(0, 0, 5)
Scores  == {Score(n[1], n[2], n[3]) : n \in {k \in (0 .. 5) \X (0 .. 5) \X (0 .. 5) : k[1] + k[2] + k[3] <= 5}}

\* qualifier.decide(): no facts on file leave it to a person whatever the score.
Decide(score, noFacts) ==
  CASE noFacts -> "borderline"
    [] ~noFacts /\ score < Threshold - 20 -> "reject"
    [] ~noFacts /\ score >= Threshold -> "qualify"
    [] OTHER -> "borderline"

\* Mutant: the failed judgement's score decides.
DecideFailedOnScore(score, noFacts) == Decide(score, noFacts)

\* What do_qualify() decides of a judgement that failed.
DecideFailed(score, noFacts) == "borderline"

\* draft() returned. When the gate answers replan, do_draft() drafts again for
\* email, once; a gap of knowledge is not caught there.
Drafted(d, by, answer) ==
  \/ End(d, by, answer, "none")
  \/ /\ redo /\ redo' = FALSE
     /\ Ask(1) /\ GoOn(d)
  \/ redo /\ End(d, "raised", answer, "none")

\* The agent goes on by its rules: the Qualifier's criteria are all unknown,
\* the plan is the default sequence, the draft is the generic template.
ByRules(d, answer) ==
  CASE Kind = "qualify" -> \E noFacts \in BOOLEAN : End(d, "rules", answer, DecideFailed(Unknown, noFacts))
    [] Kind = "draft"   -> Drafted(d, "rules", answer)
    [] OTHER            -> End(d, "rules", answer, "none")

\* The agent uses a parsed answer. A Qualifier's answer that names none of the
\* criteria leaves them unknown. A plan of illegal channels and a draft that
\* fails the grounding or the length check are asked for once more.
Use(d, answer) ==
  CASE Kind = "qualify" ->
         \E dec \in {Decide(score, noFacts) : score \in IF answer = "fit" THEN Scores ELSE {Unknown},
                                             noFacts \in BOOLEAN} : End(d, "model", answer, dec)
    [] Kind # "qualify" /\ answer = "fit" ->
         IF Kind = "draft" THEN Drafted(d, "model", answer) ELSE End(d, "model", answer, "none")
    [] Kind # "qualify" /\ answer = "unfit" /\ runs > 0 ->
         Ask(runs - 1) /\ GoOn(d) /\ UNCHANGED redo
    [] OTHER -> ByRules(d, answer)

-----------------------------------------------------------------------------
(* The start of a job.                                                     *)

\* llm_mode "fake": no call, the deterministic templates answer.
Offline ==
  /\ pc = "start" /\ mode = "fake" /\ Kind # "research"
  /\ \E dec \in IF Kind = "qualify" THEN Decisions ELSE {"none"} : End(0, "offline", "none", dec)

\* hard_reject(): rules reject before any model runs.
Filter ==
  /\ pc = "start" /\ Kind = "qualify"
  /\ End(0, "filter", "none", "reject")

\* writer.draft() found no knowledge to draft from.
KnowledgeGap ==
  /\ pc = "start" /\ Kind = "draft" /\ mode # "fake"
  /\ End(0, "filter", "none", "none")

\* The agent builds its prompt and calls run().
AskModel ==
  /\ pc = "start" /\ mode # "fake" /\ Kind # "research"
  /\ Ask(IF Kind = "qualify" THEN 0 ELSE 1)
  /\ redo' = (Kind = "draft")
  /\ UNCHANGED <<setup, at, posts, took, out>>

\* do_research() with the direct provider, which reads the enrichment record.
Direct ==
  /\ pc = "start" /\ Kind = "research"
  /\ End(0, "rules", "none", "none")

\* do_research() with the hosted Researcher: dronahq.research() posts to it.
PostHosted ==
  /\ pc = "start" /\ Kind = "research"
  /\ pc' = "hosted"
  /\ UNCHANGED <<setup, at, call, posts, took, out>>

-----------------------------------------------------------------------------
(* The hosted Researcher.                                                  *)

\* The request ends: the facts have come, with the answer or through MCP; or it
\* failed and the direct provider takes over; or, after an answer without facts
\* or a timeout, the callback is polled for.
HostedReturns ==
  /\ pc = "hosted"
  /\ \E d \in Within(PostTimeout) :
       \/ End(d, "hosted", "none", "none")
       \/ End(d, "rules", "none", "none")
       \/ /\ pc' = "polling" /\ took' = took + d
          /\ UNCHANGED <<setup, at, call, posts, out>>

\* The callback arrives within the wait, or the direct provider takes over.
PollEnds ==
  /\ pc = "polling"
  /\ \/ \E d \in Within(WaitSeconds) : End(d, "hosted", "none", "none")
     \/ End(WaitSeconds, "rules", "none", "none")

-----------------------------------------------------------------------------
(* llm_client.                                                             *)

\* A text came back after d: it is parsed, or repaired once, or given up.
Parse(d, answer) ==
  CASE answer # "garbage" -> Use(d, answer)
    [] answer = "garbage" /\ ~repairing ->
         OpenCall(TRUE) /\ GoOn(d) /\ UNCHANGED <<runs, redo>>
    [] OTHER -> ByRules(d, answer)

\* The provider answers an attempt of _call().
Answered ==
  /\ pc = "attempt" /\ mode = "live"
  /\ \E d \in Within(Timeout), answer \in Answers : Parse(d, answer)

\* Mutant: a rate limit never costs an attempt.
RefusedFree ==
  /\ pc = "attempt" /\ mode = "live"
  /\ \E limited \in BOOLEAN, d \in Within(Timeout) :
       LET rest == IF limited THEN left ELSE left - 1
       IN  /\ left' = rest /\ waits' = IF limited /\ waits > 0 THEN waits - 1 ELSE waits
           /\ pc' = IF rest > 0 THEN "attempt" ELSE "fallback"
           /\ GoOn(d) /\ UNCHANGED <<runs, redo, repairing>>

\* Mutant: the loop runs once more after the last attempt.
RefusedOnceMore ==
  /\ pc = "attempt" /\ mode = "live"
  /\ \E d \in Within(Timeout) :
       /\ left' = left - 1
       /\ pc' = IF left >= 0 THEN "attempt" ELSE "fallback"
       /\ GoOn(d) /\ UNCHANGED <<runs, redo, repairing, waits>>

\* An attempt fails: one that names a time to retry after costs a rate-limit
\* wait while there are any, every other one costs an attempt. _call() pauses
\* before the next attempt.
Refused ==
  /\ pc = "attempt" /\ mode = "live"
  /\ \E limited \in BOOLEAN, d \in Within(Timeout), pause \in Within(MaxWait) :
       LET waited == limited /\ waits > 0
           rest   == IF waited THEN left ELSE left - 1
       IN  /\ left' = rest
           /\ waits' = IF waited THEN waits - 1 ELSE waits
           /\ pc' = IF rest > 0 THEN "attempt" ELSE "fallback"
           /\ GoOn(IF rest > 0 THEN d + pause ELSE d)
           /\ UNCHANGED <<runs, redo, repairing>>

\* The fallback provider answers, or run() raises AgentFailure.
Fallback ==
  /\ pc = "fallback"
  /\ \E d \in Within(Timeout) :
       \/ \E answer \in Answers : Parse(d, answer)
       \/ ByRules(d, "none")

\* Mutant: a replayed output that does not fit is repaired until it does.
ReplayedRepair ==
  /\ pc = "attempt" /\ mode = "replay"
  /\ \/ Use(0, "fit")
     \/ OpenCall(~repairing) /\ GoOn(0) /\ UNCHANGED <<runs, redo>>

\* llm_mode "replay": run() takes the recorded output of these inputs, which
\* the hint of a second try is not part of; without one it raises AgentFailure,
\* and one the schema no longer accepts fails the job.
Replayed ==
  /\ pc = "attempt" /\ mode = "replay"
  /\ \/ \E answer \in {"unfit", "fit"} :
          IF Kind # "qualify" /\ answer = "unfit" THEN ByRules(0, answer) ELSE Use(0, answer)
     \/ ByRules(0, "none")
     \/ End(0, "raised", "garbage", "none")

Next ==
  \/ Offline \/ Filter \/ KnowledgeGap \/ AskModel
  \/ Direct \/ PostHosted \/ HostedReturns \/ PollEnds
  \/ Answered \/ Refused \/ Fallback \/ Replayed

\* One thread runs the batch, and every request and every pause has a limit.
Spec == Init /\ [][Next]_vars /\ WF_vars(Next)

-----------------------------------------------------------------------------
(* Properties.                                                             *)

\* However the attempts, the rate-limit waits, the fallback provider, the
\* repair, the second try of the agent and the second draft of do_draft() add
\* up, a job never sends more requests, nor takes longer, than their product.
StepsAreBounded ==
  at <= Len(batch) => posts <= MostPosts(Kind) /\ took <= MostTime(Kind)

\* A failed judgement never qualifies anyone, at any threshold: who qualifies
\* was judged by an answer of the model, or offline by the rules' criteria.
FailureNeverQualifies ==
  \A i \in 1 .. Len(out) : out[i].dec = "qualify" => out[i].by \in {"model", "offline"}

\* A plan and a draft of the model passed the code's checks; an answer that
\* failed them, once or twice, leaves the default plan or the template.
OnlyFitIsUsed ==
  \A i \in 1 .. Len(out) :
    out[i].by = "model" =>
      out[i].answer = "fit" \/ (batch[i] = "qualify" /\ out[i].answer = "unfit")

\* Whatever the providers do, the batch comes to its end.
BatchEnds == <>(pc = "end")
=============================================================================
