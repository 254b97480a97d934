------------------------------- MODULE Hosted -------------------------------
(***************************************************************************)
(* The hosted agents: the Researcher that do_research() asks for facts and *)
(* the Responder that ingest_reply() asks to read a reply                  *)
(* (orchestrator/dronahq.py, agents/researcher.py, agents/responder.py),   *)
(* and the MCP tools by which they hand in what they found                 *)
(* (backend/mcp/tools.py).                                                 *)
(*                                                                         *)
(* An agent hands in its result in a transaction of its own, while the one *)
(* that asked waits: it posts, looks for a row saved since it started,     *)
(* polls for one until a deadline, and falls back to the direct provider.  *)
(* A post that is cut off, or that only acknowledges, ends before its      *)
(* agent does; once the deadline has passed too, the agent is at work      *)
(* though nobody waits for it.                                             *)
(*                                                                         *)
(* What ingest_reply() does with the class read is module Conversation's.  *)
(***************************************************************************)
EXTENDS Integers, FiniteSets

CONSTANTS
  Researches, \* research jobs, each of an enrollment of its own, of one prospect
  Replies,    \* replies that come in on one enrollment
  Loads,      \* the sets of jobs and replies that come up together
  Facts,      \* ids of facts
  Record,     \* facts of the prospect's enrichment record, not yet on file
  Results,    \* results a Researcher may give: how often each names a fact
  Tools,      \* tool calls served at once
  Submits,    \* bound: tool calls of the agents
  Deaths      \* bound: processes that die while they wait

Jobs == Researches \cup Replies

ASSUME HostedAssumption ==
  /\ Researches \cap Replies = {} /\ (Researches \cup Replies) \cap Tools = {}
  /\ Loads \subseteq SUBSET (Researches \cup Replies)
  /\ Record \subseteq Facts
  /\ Results \subseteq [Facts -> Nat]
  /\ Submits \in Nat /\ Deaths \in Nat

VARIABLES
  load,       \* the jobs and replies there are
  text,       \* what a reply says: an opt-out the rules know, another text
  pc,         \* where the transaction of a job or a reply is
  started,    \* clock_timestamp() before the post
  on,         \* the agent that was posted to is at work
  loose,      \* an agent may be at work though the post to it has ended
  tool,       \* the open tool calls
  rows,       \* research_callbacks and responder_decisions
  clock,      \* the database's clock
  prospect,   \* the prospect's facts, enrichment record and researched flag
  seen,       \* the prospect as a transaction has read it
  new,        \* the facts of the record the direct provider found
  over,       \* history: readers of the prospect that somebody wrote since
  used,       \* the reading of a reply: by whom, and of which answer
  suppressed, \* the prospect is on the suppression list
  submits, deaths

bounds == <<submits, deaths>>
waits  == <<pc, started, on, loose>>
person == <<prospect, over>>
reads  == <<seen, new>>
vars   == <<load, text, waits, tool, rows, clock, person, reads, used, suppressed, bounds>>

Texts   == {"opt-out words", "other"}
Answers == {"unsubscribe", "interested", "facts"}
Classes == {"unsubscribe", "escalate", "positive", "question"}
Places  == {"idle", "posted", "polling", "saving", "direct", "writing", "model", "done", "refused"}
Readers == {"rules", "hosted", "inline", "model", "none"}

Prospect == [facts : [Facts -> Nat], rich : SUBSET Facts, researched : BOOLEAN]
Row      == [of : Jobs, at : Nat, answer : Answers]
Call     == [of : Jobs, at : Nat, answer : Answers, result : Results]
Reading  == [by : Readers, row : Row, cls : Classes]
Nobody   == [by |-> "none"]
IdleCall == [at |-> 0]

Blank == [facts |-> [f \in Facts |-> 0], rich |-> Record, researched |-> FALSE]

TypeOK ==
  /\ load \in Loads
  /\ text \in [Replies -> Texts]
  /\ pc \in [Jobs -> Places]
  /\ started \in [Jobs -> Nat]
  /\ on \in [Jobs -> BOOLEAN] /\ loose \in [Jobs -> BOOLEAN]
  /\ tool \in [Tools -> Call \cup {IdleCall}]
  /\ rows \subseteq Row
  /\ clock \in Nat
  /\ prospect \in Prospect
  /\ seen \in [Jobs \cup Tools -> Prospect]
  /\ new \in [Jobs -> SUBSET Facts]
  /\ over \subseteq Jobs \cup Tools
  /\ used \in [Replies -> Reading \cup {Nobody}]
  /\ suppressed \in BOOLEAN
  /\ submits \in 0 .. Submits /\ deaths \in 0 .. Deaths

Init ==
  /\ load \in Loads
  /\ text \in {x \in [Replies -> Texts] : \A r \in Replies \ load : x[r] = "other"}
  /\ pc = [j \in Jobs |-> "idle"]
  /\ started = [j \in Jobs |-> 0]
  /\ on = [j \in Jobs |-> FALSE] /\ loose = [j \in Jobs |-> FALSE]
  /\ tool = [t \in Tools |-> IdleCall]
  /\ rows = {}
  /\ clock = 0
  /\ prospect = Blank
  /\ seen = [w \in Jobs \cup Tools |-> Blank]
  /\ new = [j \in Jobs |-> {}]
  /\ over = {}
  /\ used = [r \in Replies |-> Nobody]
  /\ suppressed = FALSE
  /\ submits = Submits /\ deaths = Deaths

-----------------------------------------------------------------------------
(* The prospect's row: read, and later written as a whole.                 *)

Goto(j, place) == pc' = [pc EXCEPT ![j] = place]

\* w reads the prospect.
Look(w) ==
  /\ seen' = [seen EXCEPT ![w] = prospect]
  /\ over' = over \ {w}

\* Those that are between their read and their write.
Writers == {j \in Jobs : pc[j] \in {"saving", "writing"}} \cup {t \in Tools : tool[t] # IdleCall}

\* w writes the prospect, computed from what it has read, and is done.
Put(w, p) ==
  /\ prospect' = p
  /\ over' = Writers \ {w}
  /\ seen' = [seen EXCEPT ![w] = Blank]

\* A mutant: facts on file are given again.
SavedAgain(p, result) ==
  [facts |-> [f \in Facts |-> p.facts[f] + result[f]], rich |-> {f \in p.rich : result[f] = 0}, researched |-> TRUE]

\* save_research_in(): the facts not on file are added, and leave the record.
Saved(p, result) ==
  LET added == {f \in Facts : p.facts[f] = 0 /\ result[f] > 0}
  IN  [facts |-> [f \in Facts |-> IF f \in added THEN result[f] ELSE p.facts[f]],
       rich |-> p.rich \ added, researched |-> TRUE]

\* researcher.research(): the record's facts that are not on file.
Enriched(p) == {f \in p.rich : p.facts[f] = 0}

\* do_research() of the direct provider, unless others have researched.
Recorded(p, found) ==
  IF p.researched THEN p
  ELSE [facts |-> [f \in Facts |-> p.facts[f] + (IF f \in found THEN 1 ELSE 0)],
        rich |-> {}, researched |-> TRUE]

-----------------------------------------------------------------------------
(* The wait for an agent.                                                  *)

\* Rows of the same enrollment: of the job, or of any of its replies.
Same(i, j) == i = j \/ {i, j} \subseteq Replies

\* A mutant: whatever was ever saved counts.
SinceEver(j) == {x \in rows : Same(x.of, j)}

\* The rows saved since the job started, by the start of their transactions.
Since(j) == {x \in rows : Same(x.of, j) /\ x.at >= started[j]}

Newest(S) == {x \in S : \A y \in S : y.at <= x.at}

\* The agent is posted to.
Post(j) ==
  /\ Goto(j, "posted")
  /\ clock' = clock + 1
  /\ started' = [started EXCEPT ![j] = clock + 1]
  /\ on' = [on EXCEPT ![j] = TRUE]
  /\ UNCHANGED loose

\* The post of j ends and the agent with it, or the agent goes on: the post was
\* cut off by its time limit or by an error, or it returned without a result.
Return(j, goesOn) ==
  /\ on' = [on EXCEPT ![j] = FALSE]
  /\ loose' = [loose EXCEPT ![j] = @ \/ goesOn]
  /\ UNCHANGED <<started, clock>>

-----------------------------------------------------------------------------
(* Research.                                                               *)

\* do_research() begins, with the hosted or the direct provider.
BeginResearch(j) ==
  /\ j \in Researches \cap load /\ pc[j] = "idle"
  /\ Look(j)
  /\ \/ Post(j) /\ UNCHANGED new
     \/ /\ Goto(j, "direct")
        /\ new' = [new EXCEPT ![j] = Enriched(prospect)]
        /\ UNCHANGED <<started, on, loose, clock>>
  /\ UNCHANGED <<load, text, tool, rows, prospect, used, suppressed, bounds>>

\* Facts saved through MCP end the job: nothing is written by it.
FactsCame(j) ==
  /\ Since(j) # {} /\ Goto(j, "done")
  /\ seen' = [seen EXCEPT ![j] = Blank]
  /\ UNCHANGED <<person, new>>

\* _fallback(): the direct provider, on the prospect as first read.
FallBack(j) ==
  /\ Goto(j, "direct")
  /\ new' = [new EXCEPT ![j] = Enriched(seen[j])]
  /\ UNCHANGED <<person, seen>>

\* The post of research() ends: with the facts saved, with facts in the answer
\* of an agent that is done, with neither yet, or with an error that is no
\* timeout.
ResearchReturns(j) ==
  /\ j \in Researches /\ pc[j] = "posted"
  /\ \E goesOn \in BOOLEAN :
       /\ Return(j, goesOn)
       /\ \/ FactsCame(j)
          \/ /\ Since(j) = {} /\ ~goesOn
             /\ Goto(j, "saving") /\ Look(j) /\ UNCHANGED <<prospect, new>>
          \/ /\ Since(j) = {}
             /\ Goto(j, "polling") /\ UNCHANGED <<person, reads>>
          \/ FallBack(j)
  /\ UNCHANGED <<load, text, tool, rows, used, suppressed, bounds>>

\* The poll finds a row, or the deadline passes.
ResearchPolls(j) ==
  /\ j \in Researches /\ pc[j] = "polling"
  /\ FactsCame(j) \/ FallBack(j)
  /\ UNCHANGED <<load, text, started, on, loose, tool, rows, clock, used, suppressed, bounds>>

\* save_research_in() of the answer's own facts.
SaveAnswer(j) ==
  /\ pc[j] = "saving"
  /\ \E result \in Results : Put(j, Saved(seen[j], result))
  /\ clock' = clock + 1
  /\ rows' = rows \cup {[of |-> j, at |-> clock + 1, answer |-> "facts"]}
  /\ Goto(j, "done")
  /\ UNCHANGED <<load, text, started, on, loose, tool, new, used, suppressed, bounds>>

\* Mutant: the prospect is not read again after the wait.
NoLookAgain(j) ==
  /\ pc[j] = "direct"
  /\ over' = over \ {j}
  /\ Goto(j, "writing")
  /\ UNCHANGED <<load, text, started, on, loose, tool, rows, clock, prospect, reads, used, suppressed, bounds>>

\* do_research() reads the prospect again after the provider has answered.
LookAgain(j) ==
  /\ pc[j] = "direct"
  /\ Look(j)
  /\ Goto(j, "writing")
  /\ UNCHANGED <<load, text, started, on, loose, tool, rows, clock, prospect, new, used, suppressed, bounds>>

\* It writes the facts found and commits.
WriteRecord(j) ==
  /\ pc[j] = "writing"
  /\ IF seen[j].researched
     THEN seen' = [seen EXCEPT ![j] = Blank] /\ UNCHANGED person
     ELSE Put(j, Recorded(seen[j], new[j]))
  /\ new' = [new EXCEPT ![j] = {}]
  /\ Goto(j, "done")
  /\ UNCHANGED <<load, text, started, on, loose, tool, rows, clock, used, suppressed, bounds>>

-----------------------------------------------------------------------------
(* Replies.                                                                *)

Reads == {r \in Replies : pc[r] \in {"posted", "polling", "model"}}

\* Mutant: the answer is taken for one of the classes.
ClassAsIs(answer, low) == IF low THEN "escalate" ELSE answer

\* LLM_TO_INTERNAL, of an answer read with enough confidence or not.
ClassOf(answer, low) ==
  CASE low -> "escalate"
    [] ~low /\ answer = "interested" -> "positive"
    [] OTHER -> "question"

\* The reading ends on the answer x, and ingest_reply() acts on the class.
Take(r, by, x, cls) ==
  /\ used' = [used EXCEPT ![r] = [by |-> by, row |-> x, cls |-> cls]]
  /\ suppressed' = (suppressed \/ cls = "unsubscribe")
  /\ Goto(r, "done")

TakeAnswer(r, by, x) == \E low \in BOOLEAN : Take(r, by, x, ClassOf(x.answer, low))

\* An answer given to the one that asks, which is no row.
Said(r, answer) == [of |-> r, at |-> 0, answer |-> answer]

\* The lock of the enrollment is had: the rules read first (the opt-out stands
\* for all the classes they are final about), then the hosted
\* agent or the direct provider is asked.
BeginReading(r) ==
  /\ r \in Replies \cap load /\ pc[r] = "idle" /\ Reads = {}
  /\ IF text[r] = "opt-out words"
     THEN Take(r, "rules", Said(r, "unsubscribe"), "unsubscribe") /\ UNCHANGED <<started, on, loose, clock>>
     ELSE /\ \/ Post(r)
             \/ Goto(r, "model") /\ UNCHANGED <<started, on, loose, clock>>
          /\ UNCHANGED <<used, suppressed>>
  /\ UNCHANGED <<load, text, tool, rows, person, reads, bounds>>

\* statement_timeout ends the wait for the lock: the sender gets an error.
LockTimesOut(r) ==
  /\ r \in Replies \cap load /\ pc[r] = "idle" /\ Reads # {}
  /\ Goto(r, "refused")
  /\ UNCHANGED <<load, text, started, on, loose, tool, rows, clock, person, reads, used, suppressed, bounds>>

\* submitted(): the decision handed in last since the post.
TakeSubmitted(r) == \E x \in Newest(Since(r)) : TakeAnswer(r, "hosted", x)

\* The post of respond() ends: a decision was handed in, the answer of an agent
\* that is done is one, there is neither yet (the post returned without one or
\* ran into its time limit), or the post failed.
ReplyReturns(r) ==
  /\ r \in Replies /\ pc[r] = "posted"
  /\ \E goesOn \in BOOLEAN :
       /\ Return(r, goesOn)
       /\ \/ TakeSubmitted(r)
          \/ /\ Since(r) = {} /\ ~goesOn
             /\ \E answer \in Answers \ {"facts"} : TakeAnswer(r, "inline", Said(r, answer))
          \/ Since(r) = {} /\ Goto(r, "polling") /\ UNCHANGED <<used, suppressed>>
          \/ Goto(r, "model") /\ UNCHANGED <<used, suppressed>>
  /\ UNCHANGED <<load, text, tool, rows, person, reads, bounds>>

\* Mutant: the poll has no deadline.
ReplyPollsOn(r) ==
  /\ r \in Replies /\ pc[r] = "polling"
  /\ TakeSubmitted(r)
  /\ UNCHANGED <<load, text, started, on, loose, tool, rows, clock, person, reads, bounds>>

\* The poll finds a decision, or the deadline passes.
ReplyPolls(r) ==
  /\ r \in Replies /\ pc[r] = "polling"
  /\ TakeSubmitted(r) \/ (Goto(r, "model") /\ UNCHANGED <<used, suppressed>>)
  /\ UNCHANGED <<load, text, started, on, loose, tool, rows, clock, person, reads, bounds>>

\* The direct provider: the model answers, or the keyword rules do.
ReadDirectly(r) ==
  /\ pc[r] = "model"
  /\ \/ \E answer \in Answers \ {"facts"} : TakeAnswer(r, "model", Said(r, answer))
     \/ \E cls \in {"positive", "question"} : Take(r, "rules", Said(r, "interested"), cls)
  /\ UNCHANGED <<load, text, started, on, loose, tool, rows, clock, person, reads, bounds>>

-----------------------------------------------------------------------------
(* The agents' tool calls, and processes that die.                         *)

\* save_research or set_classification begins, called by an agent at work. Its
\* rows carry the time the transaction began.
ToolBegins(t) ==
  /\ tool[t] = IdleCall /\ submits > 0 /\ submits' = submits - 1
  /\ clock' = clock + 1
  /\ \E j \in Jobs :
       /\ on[j] \/ loose[j]
       /\ \E answer \in IF j \in Replies THEN Answers \ {"facts"} ELSE {"facts"}, result \in Results :
            /\ j \in Replies => result = CHOOSE x \in Results : TRUE
            /\ tool' = [tool EXCEPT ![t] = [of |-> j, at |-> clock + 1, answer |-> answer, result |-> result]]
  /\ Look(t)
  /\ UNCHANGED <<load, text, pc, started, on, loose, rows, prospect, new, used, suppressed, deaths>>

\* It commits.
ToolCommits(t) ==
  /\ tool[t] # IdleCall
  /\ rows' = rows \cup {[of |-> tool[t].of, at |-> tool[t].at, answer |-> tool[t].answer]}
  /\ IF tool[t].of \in Researches THEN Put(t, Saved(seen[t], tool[t].result)) ELSE UNCHANGED <<person, seen>>
  /\ tool' = [tool EXCEPT ![t] = IdleCall]
  /\ UNCHANGED <<load, text, waits, clock, new, used, suppressed, bounds>>

\* The process that waits dies: a research job is queued again, the sender of a
\* reply gets an error, and the agent works on.
Dies(j) ==
  /\ deaths > 0 /\ deaths' = deaths - 1
  /\ pc[j] \notin {"idle", "done", "refused"}
  /\ Goto(j, IF j \in Replies THEN "refused" ELSE "idle")
  /\ on' = [on EXCEPT ![j] = FALSE]
  /\ loose' = [loose EXCEPT ![j] = @ \/ on[j]]
  /\ seen' = [seen EXCEPT ![j] = Blank] /\ new' = [new EXCEPT ![j] = {}] /\ over' = over \ {j}
  /\ UNCHANGED <<load, text, started, tool, rows, clock, prospect, used, suppressed, submits>>

Works(j) ==
  \/ BeginResearch(j) \/ ResearchReturns(j) \/ ResearchPolls(j) \/ SaveAnswer(j) \/ LookAgain(j) \/ WriteRecord(j)
  \/ BeginReading(j) \/ LockTimesOut(j) \/ ReplyReturns(j) \/ ReplyPolls(j) \/ ReadDirectly(j)

Next ==
  \/ \E j \in Jobs : Works(j) \/ Dies(j)
  \/ \E t \in Tools : ToolBegins(t) \/ ToolCommits(t)

\* Posts, polls and lock waits all have time limits, so every transaction goes on.
Fairness == \A j \in Jobs : WF_vars(Works(j))

Spec == Init /\ [][Next]_vars /\ Fairness

-----------------------------------------------------------------------------
(* Properties.                                                             *)

\* A decision handed in is taken for one reply only (dronahq.py:130-136 asks for
\* those saved since the post, and the enrollment's lock keeps the waits apart):
\* its own reply, or a later one if its agent was at work after the post to it
\* had ended, cut off or returned without a decision (dronahq.py:140-158). What
\* an agent handed in before its post ended misreads nothing.
DecisionsReadOnce ==
  \A r \in Replies : used[r].by = "hosted" =>
    /\ used[r].row.of # r => loose[used[r].row.of]
    /\ \A s \in Replies \ {r} : used[s].by = "hosted" => used[s].row # used[r].row

\* A fact is on file no more often than one result names it: neither two agents,
\* nor an agent and the record, nor a job that runs again, put it there twice.
FactOnce ==
  \A f \in Facts : prospect.facts[f] <= 1 \/ \E result \in Results : prospect.facts[f] <= result[f]

Writes(w) ==
  IF w \in Tools THEN tool[w] # IdleCall /\ tool'[w] = IdleCall
  ELSE pc[w] \in {"saving", "writing"} /\ pc'[w] = "done"

\* However long the agents take, what they saved while a job waited is not
\* written over by it: facts are lost only to a writer between whose read and
\* write, with no wait in between, another one wrote.
LostOnlyByOverlap ==
  [][\A f \in Facts : prospect.facts[f] > 0 /\ prospect'.facts[f] = 0 =>
       \E w \in Jobs \cup Tools : Writes(w) /\ w \in over]_vars

\* Whatever the agents do or fail to do, every job and every reply comes to its
\* end, unless its sender was told it was refused, and a job leaves the prospect
\* researched.
EveryJobEnds ==
  \A j \in Jobs :
    j \in load ~> /\ pc[j] \in {"done", "refused"}
                  /\ pc[j] = "done" /\ j \in Researches => prospect.researched
=============================================================================
