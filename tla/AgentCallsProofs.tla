-------------------------- MODULE AgentCallsProofs --------------------------
(***************************************************************************)
(* Proofs about AgentCalls, for every batch and every limit.               *)
(*                                                                         *)
(* The bound on requests and time is not inductive by itself: what is is   *)
(* the account of what a job has spent together with what it may still     *)
(* spend, which every attempt, repair, second try and second draft takes   *)
(* from the part ahead (Spent). The same part ahead, counted in steps,     *)
(* falls with each of them (Ahead): a batch cannot go round in circles.    *)
(***************************************************************************)
EXTENDS AgentCalls, TLAPS

Unit == Timeout + MaxWait

\* The requests and the time ahead of a job after the current call of _call().
PostsAfter == (IF repairing THEN 0 ELSE CallPosts) + (IF runs = 1 THEN 2 * CallPosts ELSE 0)
              + (IF redo THEN 4 * CallPosts ELSE 0)
TimeAfter  == (IF repairing THEN 0 ELSE CallTime) + (IF runs = 1 THEN 2 * CallTime ELSE 0)
              + (IF redo THEN 4 * CallTime ELSE 0)

Calling == pc \in {"attempt", "fallback"}

\* Where the handler is tells which job it runs and how far it is.
Shape ==
  /\ at = Len(batch) + 1 <=> pc = "end"
  /\ Len(out) = at - 1
  /\ pc = "start" => posts = 0 /\ took = 0
  /\ pc \in {"hosted", "polling"} => Kind = "research" /\ posts = 0
  /\ pc = "hosted" => took = 0
  /\ pc = "polling" => took <= PostTimeout
  /\ Calling => /\ Kind # "research"
                /\ Kind = "qualify" => runs = 0
                /\ redo => Kind = "draft"
  /\ pc = "attempt" => left > 0

\* What a calling job has spent, with what it may still spend, is within bounds.
Spent ==
  /\ pc = "attempt" => /\ posts + left + waits + 1 + PostsAfter <= MostPosts(Kind)
                       /\ took + (left + waits) * Unit + Timeout + TimeAfter <= MostTime(Kind)
  /\ pc = "fallback" => /\ posts + 1 + PostsAfter <= MostPosts(Kind)
                        /\ took + Timeout + TimeAfter <= MostTime(Kind)

IInv == TypeOK /\ Shape /\ Spent /\ FailureNeverQualifies /\ OnlyFitIsUsed

USE AgentCallsAssumption DEF call, setup, vars

-----------------------------------------------------------------------------
(* Arithmetic, and what a job may still spend.                             *)

LEMMA Units ==
  /\ Unit \in Nat /\ CallPosts \in Nat /\ CallTime \in Nat
  /\ CallPosts = Retries + RateLimitWaits + 2
  /\ CallTime = (Retries + 1 + RateLimitWaits) * Unit + Timeout
BY DEF Unit, CallPosts, CallTime

LEMMA Bounds ==
  ASSUME NEW k \in Kinds
  PROVE  /\ MostPosts(k) \in Nat /\ MostTime(k) \in Nat
         /\ k = "qualify" => MostPosts(k) = 2 * CallPosts /\ MostTime(k) = 2 * CallTime
         /\ k = "plan" => MostPosts(k) = 4 * CallPosts /\ MostTime(k) = 4 * CallTime
         /\ k = "draft" => MostPosts(k) = 8 * CallPosts /\ MostTime(k) = 8 * CallTime
         /\ k = "research" => MostTime(k) = PostTimeout + WaitSeconds
<1> DEFINE P == CallPosts  T == CallTime
<1>1. P \in Nat /\ T \in Nat
  BY Units
<1> HIDE DEF P, T
<1>2. /\ MostPosts(k) = Calls(k) * P
      /\ MostTime(k) = IF k = "research" THEN PostTimeout + WaitSeconds ELSE Calls(k) * T
  BY DEF MostPosts, MostTime, P, T
<1>3. Calls(k) = IF k = "draft" THEN 8 ELSE IF k = "plan" THEN 4 ELSE IF k = "qualify" THEN 2 ELSE 0
  BY DEF Calls
<1>4. Calls(k) \in {0, 2, 4, 8}
  BY <1>3
<1>5. /\ MostPosts(k) \in Nat /\ MostTime(k) \in Nat
      /\ k = "qualify" => MostPosts(k) = 2 * P /\ MostTime(k) = 2 * T
      /\ k = "plan" => MostPosts(k) = 4 * P /\ MostTime(k) = 4 * T
      /\ k = "draft" => MostPosts(k) = 8 * P /\ MostTime(k) = 8 * T
      /\ k = "research" => MostTime(k) = PostTimeout + WaitSeconds
  BY <1>1, <1>2, <1>3, <1>4
<1>6. QED BY <1>5 DEF P, T

LEMMA AheadIsNat ==
  /\ runs \in {0, 1} /\ redo \in BOOLEAN /\ repairing \in BOOLEAN => PostsAfter \in Nat /\ TimeAfter \in Nat
  /\ (runs \in {0, 1} /\ redo \in BOOLEAN /\ repairing \in BOOLEAN => PostsAfter \in Nat /\ TimeAfter \in Nat)'
BY Units DEF PostsAfter, TimeAfter, CallPosts, CallTime

LEMMA OneLess == ASSUME NEW n \in Nat, NEW u \in Nat, n > 0 PROVE (n - 1) * u = n * u - u /\ n * u \in Nat /\ (n - 1) * u \in Nat
OBVIOUS

\* A call of c follows what cost at most u: the part ahead shrank by c.
LEMMA Account ==
  ASSUME NEW a \in Nat, NEW b \in Nat, NEW u \in Nat, NEW c \in Nat, NEW x \in Nat, NEW y \in Nat, NEW m \in Nat,
         b <= a + u, c + y <= x, a + u + x <= m
  PROVE  b + c + y <= m
OBVIOUS

LEMMA Parts ==
  ASSUME NEW p \in Nat, NEW l \in Nat, NEW w \in Nat, NEW c \in Nat, NEW y \in Nat, NEW m \in Nat,
         l + w + 1 = c, p + c + y <= m
  PROVE  p + l + w + 1 + y <= m
OBVIOUS

LEMMA Request ==
  ASSUME NEW p \in Nat, NEW q \in Nat, NEW l \in Nat, NEW w \in Nat, NEW k \in Nat, NEW v \in Nat,
         NEW y \in Nat, NEW m \in Nat,
         q <= p + 1, k + v = l + w - 1, p + l + w + 1 + y <= m
  PROVE  q + k + v + 1 + y <= m /\ q + 1 + y <= m
OBVIOUS

\* One of n attempts took at most u, or was the last and took at most y.
LEMMA Attempt ==
  ASSUME NEW t \in Nat, NEW s \in Nat, NEW n \in Nat, NEW u \in Nat, NEW x \in Nat, NEW y \in Nat, NEW m \in Nat,
         n > 0, t + n * u + y + x <= m
  PROVE  /\ s <= t + u => s + (n - 1) * u + y + x <= m
         /\ s <= t + y /\ y <= u => s + y + x <= m
<1>1. n * u \in Nat /\ (n - 1) * u \in Nat /\ n * u = (n - 1) * u + u
  BY OneLess
<1>2. QED BY <1>1

LEMMA KindIsKnown == ASSUME TypeOK, Shape, pc # "end" PROVE at \in 1 .. Len(batch) /\ Kind \in Kinds
<1>1. batch \in Seq(Kinds) /\ at \in 1 .. Len(batch) + 1 /\ at # Len(batch) + 1
  BY DEF TypeOK, Shape
<1>2. Len(batch) \in Nat
  BY <1>1
<1>3. at \in 1 .. Len(batch)
  BY <1>1, <1>2
<1>4. QED BY <1>1, <1>3 DEF Kind

\* Ends of a job: the next one starts with nothing spent.
LEMMA EndKeeps ==
  ASSUME IInv, pc # "end", NEW d \in Nat, NEW by \in Sources, NEW answer \in Answers \cup {"none"},
         NEW dec \in Decisions \cup {"none"}, End(d, by, answer, dec),
         dec = "qualify" => by \in {"model", "offline"},
         by = "model" => answer = "fit" \/ (Kind = "qualify" /\ answer = "unfit")
  PROVE  IInv'
<1> DEFINE new == [by |-> by, answer |-> answer, dec |-> dec]
<1>1. TypeOK /\ Shape /\ FailureNeverQualifies /\ OnlyFitIsUsed
  BY DEF IInv
<1>2. at \in 1 .. Len(batch) /\ Len(batch) \in Nat /\ batch' = batch /\ mode' = mode
  BY <1>1, KindIsKnown DEF End, TypeOK
<1>3. new \in Outcome /\ out \in Seq(Outcome) /\ out' = Append(out, new)
  BY <1>1 DEF Outcome, TypeOK, End
<1>4. out' \in Seq(Outcome) /\ Len(out') = Len(out) + 1 /\ Len(out) = at - 1
  BY <1>1, <1>3 DEF Shape
<1>5. TypeOK'
  <2>1. (at \in 1 .. Len(batch) + 1)' /\ pc' \in {"start", "end"}
    BY <1>2 DEF End
  <2>2. /\ runs' = 0 /\ redo' = FALSE /\ repairing' = FALSE /\ left' = 0 /\ waits' = 0
        /\ posts' = 0 /\ took' = 0 /\ batch' = batch /\ mode' = mode
    BY <1>2 DEF End
  <2>3. (left \in 0 .. Retries + 1 /\ waits \in 0 .. RateLimitWaits)'
    BY <2>2
  <2>4. QED BY <1>1, <1>4, <2>1, <2>2, <2>3 DEF TypeOK
<1>6. Shape'
  <2>1. (at = Len(batch) + 1 <=> pc = "end")'
    BY <1>2 DEF End
  <2>2. (Len(out) = at - 1)'
    BY <1>2, <1>4 DEF End
  <2>3. pc' \in {"start", "end"} /\ posts' = 0 /\ took' = 0
    BY DEF End
  <2>4. QED BY <2>1, <2>2, <2>3 DEF Shape, Calling
<1>7. Spent'
  BY DEF Spent, End
<1>8. \A i \in 1 .. Len(out') : (i \in 1 .. Len(out) /\ out'[i] = out[i]) \/ (i = at /\ out'[i] = new)
  BY <1>2, <1>3, <1>4
<1>9. FailureNeverQualifies'
  BY <1>1, <1>8 DEF FailureNeverQualifies
<1>10. OnlyFitIsUsed'
  BY <1>1, <1>2, <1>8 DEF OnlyFitIsUsed, Kind
<1>11. QED BY <1>5, <1>6, <1>7, <1>9, <1>10 DEF IInv

\* Room for one more request of a calling job.
Room ==
  /\ posts + 1 + PostsAfter <= MostPosts(Kind)
  /\ took + Timeout + TimeAfter <= MostTime(Kind)

LEMMA CallingHasRoom == ASSUME IInv, Calling PROVE Room
<1>1. TypeOK /\ Shape /\ Spent
  BY DEF IInv
<1>2. Kind \in Kinds
  BY <1>1, KindIsKnown DEF Calling
<1>3. MostPosts(Kind) \in Nat /\ MostTime(Kind) \in Nat /\ PostsAfter \in Nat /\ TimeAfter \in Nat
  BY <1>1, <1>2, Bounds, AheadIsNat DEF TypeOK
<1>4. CASE pc = "fallback"
  BY <1>1, <1>4 DEF Spent, Room
<1>5. CASE pc = "attempt"
  <2>1. left + waits \in Nat /\ (left + waits) * Unit \in Nat /\ left > 0 /\ posts \in Nat /\ took \in Nat
    BY <1>1, <1>5, Units DEF TypeOK, Shape
  <2>2. left \in Nat /\ waits \in Nat
    BY <1>1 DEF TypeOK
  <2>3. posts + left + waits + 1 + PostsAfter <= MostPosts(Kind)
    BY <1>1, <1>5 DEF Spent
  <2>4. took + (left + waits) * Unit + Timeout + TimeAfter <= MostTime(Kind)
    BY <1>1, <1>5 DEF Spent
  <2>5. QED BY <1>3, <2>1, <2>2, <2>3, <2>4 DEF Room
<1>6. QED BY <1>4, <1>5 DEF Calling

\* The three ways a calling job calls again: the repair pass, the second try of
\* its agent, the second draft of do_draft().
Repair    == ~repairing /\ OpenCall(TRUE) /\ runs' = runs /\ redo' = redo
TryAgain  == runs > 0 /\ Ask(runs - 1) /\ redo' = redo
DraftMail == redo /\ redo' = FALSE /\ Ask(1)

\* What is ahead after such a call is less by at least the call.
LEMMA AgainCosts ==
  ASSUME TypeOK, TypeOK', Repair \/ TryAgain \/ DraftMail
  PROVE  CallPosts + PostsAfter' <= PostsAfter /\ CallTime + TimeAfter' <= TimeAfter
<1>1. /\ runs \in {0, 1} /\ runs' \in {0, 1} /\ redo \in BOOLEAN /\ redo' \in BOOLEAN
      /\ repairing \in BOOLEAN /\ repairing' \in BOOLEAN
  BY DEF TypeOK
<1>2. CASE Repair
  BY <1>1, <1>2, Units DEF Repair, OpenCall, PostsAfter, TimeAfter, CallPosts, CallTime
<1>3. CASE TryAgain
  BY <1>1, <1>3, Units DEF TryAgain, OpenCall, Ask, PostsAfter, TimeAfter, CallPosts, CallTime
<1>4. CASE DraftMail
  BY <1>1, <1>4, Units DEF DraftMail, OpenCall, Ask, PostsAfter, TimeAfter, CallPosts, CallTime
<1>5. QED BY <1>2, <1>3, <1>4

\* A call that follows an answer, within the room left after one request.
LEMMA CallAgain ==
  ASSUME IInv, Calling, NEW d \in Nat, d <= Timeout, GoOn(d), Repair \/ TryAgain \/ DraftMail
  PROVE  IInv'
<1>1. TypeOK /\ Shape /\ FailureNeverQualifies /\ OnlyFitIsUsed /\ Room
  BY CallingHasRoom DEF IInv
<1>2. Kind \in Kinds /\ Kind' = Kind /\ Kind # "research" /\ at \in 1 .. Len(batch)
  BY <1>1, KindIsKnown DEF Calling, Shape, GoOn, Kind
<1>3. /\ pc' = "attempt" /\ left' = Retries + 1 /\ waits' = RateLimitWaits
      /\ batch' = batch /\ mode' = mode /\ at' = at /\ out' = out
      /\ took' = took + d /\ posts' \in Nat /\ posts' <= posts + 1 /\ posts \in Nat /\ took \in Nat
  BY <1>1 DEF OpenCall, Ask, GoOn, TypeOK, Repair, TryAgain, DraftMail
<1>4. /\ runs \in {0, 1} /\ runs' \in {0, 1} /\ redo \in BOOLEAN /\ redo' \in BOOLEAN
      /\ repairing \in BOOLEAN /\ repairing' \in BOOLEAN
  <2>1. runs \in {0, 1} /\ redo \in BOOLEAN /\ repairing \in BOOLEAN
    BY <1>1 DEF TypeOK
  <2>2. repairing' \in {TRUE, FALSE} /\ redo' \in {redo, FALSE}
    BY DEF OpenCall, Ask, Repair, TryAgain, DraftMail
  <2>3. runs' \in {0, 1}
    <3>1. CASE Repair
      BY <3>1, <2>1 DEF Repair
    <3>2. CASE TryAgain
      BY <3>2, <2>1 DEF TryAgain, Ask
    <3>3. CASE DraftMail
      BY <3>3 DEF DraftMail, Ask
    <3>4. QED BY <3>1, <3>2, <3>3
  <2>4. QED BY <2>1, <2>2, <2>3
<1>5. CallPosts + PostsAfter' <= PostsAfter /\ CallTime + TimeAfter' <= TimeAfter
  <2>1. TypeOK'
    BY <1>1, <1>3, <1>4 DEF TypeOK
  <2>2. QED BY <1>1, <2>1, AgainCosts
<1>6. TypeOK'
  BY <1>1, <1>3, <1>4 DEF TypeOK
<1>7. Shape'
  <2>1. Kind = "qualify" => runs' = 0
    BY <1>1 DEF Shape, Calling, OpenCall, Ask, Repair, TryAgain, DraftMail
  <2>2. redo' => Kind = "draft"
    BY <1>1 DEF Shape, Calling, Repair, TryAgain, DraftMail
  <2>3. QED BY <1>1, <1>2, <1>3, <2>1, <2>2 DEF Shape, Calling
<1>8. Spent'
  <2>1. /\ MostPosts(Kind) \in Nat /\ MostTime(Kind) \in Nat /\ PostsAfter \in Nat /\ TimeAfter \in Nat
        /\ PostsAfter' \in Nat /\ TimeAfter' \in Nat
    BY <1>2, <1>4, Bounds, AheadIsNat
  <2>2. MostPosts(Kind)' = MostPosts(Kind) /\ MostTime(Kind)' = MostTime(Kind)
    BY <1>2 DEF MostPosts, MostTime
  <2>3. posts' + left' + waits' + 1 + PostsAfter' <= MostPosts(Kind)
    <3>1. left' + waits' + 1 = CallPosts /\ CallPosts \in Nat
      BY <1>3, Units
    <3>2. posts + 1 + PostsAfter <= MostPosts(Kind)
      BY <1>1 DEF Room
    <3>3. left' \in Nat /\ waits' \in Nat
      BY <1>3
    <3>4. posts' + CallPosts + PostsAfter' <= MostPosts(Kind)
      <4>1. posts' <= posts + 1 /\ CallPosts + PostsAfter' <= PostsAfter
        BY <1>3, <1>5
      <4>2. posts \in Nat /\ posts' \in Nat /\ 1 \in Nat
        BY <1>3
      <4>3. QED BY <2>1, <3>1, <3>2, <4>1, <4>2, Account
    <3>5. posts' \in Nat /\ PostsAfter' \in Nat /\ MostPosts(Kind) \in Nat
      BY <1>3, <2>1
    <3>6. QED BY <3>1, <3>3, <3>4, <3>5, Parts
  <2>4. (left' + waits') * Unit + Timeout = CallTime
    BY <1>3, Units
  <2>5. (left' + waits') * Unit \in Nat
    BY <1>3, Units
  <2>6. took' + (left' + waits') * Unit + Timeout + TimeAfter' <= MostTime(Kind)
    <3> DEFINE n == (left' + waits') * Unit
    <3>1. n \in Nat /\ n + Timeout = CallTime
      BY <2>4, <2>5
    <3>2. took + Timeout + TimeAfter <= MostTime(Kind)
      BY <1>1 DEF Room
    <3> HIDE DEF n
    <3>3. took' + n + Timeout + TimeAfter' <= MostTime(Kind)
      <4>1. took' <= took + Timeout /\ CallTime + TimeAfter' <= TimeAfter
        BY <1>3, <1>5
      <4>2. took \in Nat /\ took' \in Nat /\ CallTime \in Nat /\ Timeout \in Nat
        BY <1>3, Units
      <4>3. took' + CallTime + TimeAfter' <= MostTime(Kind)
        BY <2>1, <3>2, <4>1, <4>2, Account
      <4>4. TimeAfter' \in Nat /\ MostTime(Kind) \in Nat
        BY <2>1
      <4>5. QED BY <3>1, <4>2, <4>3, <4>4
    <3>4. QED BY <3>3 DEF n
  <2>7. Unit' = Unit
    BY DEF Unit
  <2>8. QED BY <1>3, <2>2, <2>3, <2>6, <2>7 DEF Spent
<1>9. QED BY <1>1, <1>3, <1>6, <1>7, <1>8 DEF IInv, FailureNeverQualifies, OnlyFitIsUsed

-----------------------------------------------------------------------------
(* The pieces of the actions.                                              *)

\* An answer of a call took d.
Answering(d) == Calling /\ d \in Nat /\ d <= Timeout

LEMMA DraftedKeeps ==
  ASSUME IInv, NEW d, Answering(d), Kind = "draft", NEW by \in {"model", "rules"}, NEW answer \in Answers \cup {"none"},
         by = "model" => answer = "fit", Drafted(d, by, answer)
  PROVE  IInv'
<1>1. pc # "end" /\ d \in Nat /\ d <= Timeout /\ Calling
  BY DEF Answering, Calling
<1>2. CASE End(d, by, answer, "none")
  BY <1>1, <1>2, EndKeeps DEF Sources, Decisions
<1>3. CASE redo /\ redo' = FALSE /\ Ask(1) /\ GoOn(d)
  BY <1>1, <1>3, CallAgain DEF DraftMail
<1>4. CASE End(d, "raised", answer, "none")
  BY <1>1, <1>4, EndKeeps DEF Sources, Decisions
<1>5. QED BY <1>2, <1>3, <1>4 DEF Drafted

LEMMA ByRulesKeeps ==
  ASSUME IInv, NEW d, Answering(d), NEW answer \in Answers \cup {"none"}, ByRules(d, answer)
  PROVE  IInv'
<1>1. pc # "end" /\ d \in Nat /\ Kind \in Kinds
  BY KindIsKnown DEF Answering, Calling, IInv
<1>2. CASE Kind = "qualify"
  <2>1. End(d, "rules", answer, "borderline")
    BY <1>2 DEF ByRules, DecideFailed
  <2>2. QED BY <1>1, <2>1, EndKeeps DEF Sources, Decisions
<1>3. CASE Kind = "draft"
  <2>1. Drafted(d, "rules", answer)
    BY <1>3 DEF ByRules
  <2>2. QED BY <1>3, <2>1, DraftedKeeps
<1>4. CASE Kind \notin {"qualify", "draft"}
  <2>1. End(d, "rules", answer, "none")
    BY <1>4 DEF ByRules
  <2>2. QED BY <1>1, <2>1, EndKeeps DEF Sources, Decisions
<1>5. QED BY <1>2, <1>3, <1>4

LEMMA DecideIsDecision == ASSUME NEW score, NEW noFacts \in BOOLEAN PROVE Decide(score, noFacts) \in Decisions
BY DEF Decide, Decisions

LEMMA UseKeeps ==
  ASSUME IInv, NEW d, Answering(d), NEW answer \in {"unfit", "fit"}, Use(d, answer)
  PROVE  IInv'
<1>1. pc # "end" /\ d \in Nat /\ d <= Timeout /\ Calling /\ answer \in Answers \cup {"none"}
  BY DEF Answering, Calling, Answers
<1>2. CASE Kind = "qualify"
  <2>1. PICK dec \in {Decide(score, noFacts) : score \in IF answer = "fit" THEN Scores ELSE {Unknown},
                                               noFacts \in BOOLEAN} : End(d, "model", answer, dec)
    BY <1>2 DEF Use
  <2>2. dec \in Decisions
    BY <2>1, DecideIsDecision
  <2>3. QED BY <1>1, <1>2, <2>1, <2>2, EndKeeps DEF Sources
<1>3. CASE Kind # "qualify" /\ answer = "fit"
  <2>1. CASE Kind = "draft"
    <3>1. Drafted(d, "model", answer)
      BY <1>3, <2>1 DEF Use
    <3>2. QED BY <1>1, <1>3, <2>1, <3>1, DraftedKeeps
  <2>2. CASE Kind # "draft"
    <3>1. End(d, "model", answer, "none")
      BY <1>3, <2>2 DEF Use
    <3>2. QED BY <1>1, <1>3, <3>1, EndKeeps DEF Sources, Decisions
  <2>3. QED BY <2>1, <2>2
<1>4. CASE Kind # "qualify" /\ answer = "unfit" /\ runs > 0
  <2>1. Ask(runs - 1) /\ GoOn(d) /\ redo' = redo
    BY <1>4 DEF Use
  <2>2. QED BY <1>1, <1>4, <2>1, CallAgain DEF TryAgain
<1>5. CASE Kind # "qualify" /\ answer = "unfit" /\ ~(runs > 0)
  <2>1. ByRules(d, answer)
    BY <1>5 DEF Use
  <2>2. QED BY <1>1, <2>1, ByRulesKeeps
<1>6. QED BY <1>2, <1>3, <1>4, <1>5

LEMMA ParseKeeps ==
  ASSUME IInv, NEW d, Answering(d), NEW answer \in Answers, Parse(d, answer)
  PROVE  IInv'
<1>1. d \in Nat /\ d <= Timeout /\ Calling
  BY DEF Answering
<1>2. CASE answer # "garbage"
  BY <1>2, UseKeeps DEF Parse, Answers
<1>3. CASE answer = "garbage" /\ ~repairing
  <2>1. OpenCall(TRUE) /\ GoOn(d) /\ runs' = runs /\ redo' = redo
    BY <1>3 DEF Parse
  <2>2. QED BY <1>1, <1>3, <2>1, CallAgain DEF Repair
<1>4. CASE answer = "garbage" /\ repairing
  <2>1. ByRules(d, answer)
    BY <1>4 DEF Parse
  <2>2. QED BY <2>1, ByRulesKeeps
<1>5. QED BY <1>2, <1>3, <1>4

LEMMA RefusedKeeps == ASSUME IInv, Refused PROVE IInv'
<1>1. PICK limited \in BOOLEAN, d \in Within(Timeout), pause \in Within(MaxWait) :
        LET waited == limited /\ waits > 0
            rest   == IF waited THEN left ELSE left - 1
        IN  /\ left' = rest
            /\ waits' = IF waited THEN waits - 1 ELSE waits
            /\ pc' = IF rest > 0 THEN "attempt" ELSE "fallback"
            /\ GoOn(IF rest > 0 THEN d + pause ELSE d)
            /\ UNCHANGED <<runs, redo, repairing>>
  BY DEF Refused
<1>2. TypeOK /\ Shape /\ Spent /\ FailureNeverQualifies /\ OnlyFitIsUsed /\ pc = "attempt"
  BY DEF IInv, Refused
<1>3. left \in Nat /\ left > 0 /\ waits \in Nat /\ d \in Nat /\ d <= Timeout /\ pause \in Nat /\ pause <= MaxWait
  BY <1>2 DEF TypeOK, Shape, Within
<1>4. /\ runs' = runs /\ redo' = redo /\ repairing' = repairing
      /\ batch' = batch /\ mode' = mode /\ at' = at /\ out' = out
      /\ posts' \in Nat /\ posts' <= posts + 1 /\ posts \in Nat /\ took \in Nat
  BY <1>1, <1>2 DEF GoOn, TypeOK
<1>5. /\ left' \in Nat /\ waits' \in Nat /\ left' + waits' = left + waits - 1
      /\ left' <= left /\ waits' <= waits
      /\ (pc' = "attempt" /\ left' > 0) \/ (pc' = "fallback" /\ left' = 0)
      /\ took' \in Nat
      /\ pc' = "attempt" => took' <= took + Unit
      /\ pc' = "fallback" => took' <= took + Timeout
  <2>1. CASE limited /\ waits > 0
    <3>1. left' = left /\ waits' = waits - 1 /\ pc' = "attempt" /\ took' = took + (d + pause)
      BY <1>1, <1>3, <2>1 DEF GoOn
    <3>2. QED BY <1>3, <1>4, <2>1, <3>1 DEF Unit
  <2>2. CASE ~(limited /\ waits > 0)
    <3>1. left' = left - 1 /\ waits' = waits
      BY <1>1, <2>2
    <3>2. CASE left - 1 > 0
      <4>1. pc' = "attempt" /\ took' = took + (d + pause)
        BY <1>1, <2>2, <3>2 DEF GoOn
      <4>2. QED BY <1>3, <1>4, <3>1, <3>2, <4>1 DEF Unit
    <3>3. CASE ~(left - 1 > 0)
      <4>1. pc' = "fallback" /\ took' = took + d
        BY <1>1, <2>2, <3>3 DEF GoOn
      <4>2. QED BY <1>3, <1>4, <3>1, <3>3, <4>1 DEF Unit
    <3>4. QED BY <3>2, <3>3
  <2>3. QED BY <2>1, <2>2
<1>6. TypeOK'
  <2>1. (left \in 0 .. Retries + 1 /\ waits \in 0 .. RateLimitWaits)'
    BY <1>2, <1>3, <1>5 DEF TypeOK
  <2>2. QED BY <1>2, <1>4, <1>5, <2>1 DEF TypeOK
<1>7. Kind' = Kind /\ Kind \in Kinds
  BY <1>2, <1>4, KindIsKnown DEF Kind
<1>8. Shape'
  BY <1>2, <1>4, <1>5, <1>7 DEF Shape, Calling
<1>9. Spent'
  <2>1. left + waits \in Nat /\ left + waits > 0 /\ left' + waits' = (left + waits) - 1
    <3>1. left \in Nat /\ waits \in Nat /\ left > 0
      BY <1>3
    <3>2. left' + waits' = left + waits - 1
      BY <1>5
    <3>3. QED BY <3>1, <3>2
  <2>2. /\ posts + left + waits + 1 + PostsAfter <= MostPosts(Kind)
        /\ took + (left + waits) * Unit + Timeout + TimeAfter <= MostTime(Kind)
    BY <1>2 DEF Spent
  <2>3. /\ PostsAfter' = PostsAfter /\ TimeAfter' = TimeAfter /\ Unit' = Unit
        /\ MostPosts(Kind)' = MostPosts(Kind) /\ MostTime(Kind)' = MostTime(Kind)
    BY <1>4, <1>7 DEF PostsAfter, TimeAfter, Unit, CallPosts, CallTime, MostPosts, MostTime
  <2>4. PostsAfter \in Nat /\ TimeAfter \in Nat /\ MostPosts(Kind) \in Nat /\ MostTime(Kind) \in Nat
    BY <1>2, <1>7, AheadIsNat, Bounds DEF TypeOK
  <2>5. took \in Nat /\ took' \in Nat /\ Unit \in Nat /\ Timeout \in Nat /\ Timeout <= Unit
    <3>1. took' \in Nat
      BY <1>5
    <3>2. QED BY <1>4, <3>1, Units DEF Unit
  <2>6. /\ posts' + left' + waits' + 1 + PostsAfter <= MostPosts(Kind)
        /\ posts' + 1 + PostsAfter <= MostPosts(Kind)
    <3>1. posts' \in Nat /\ posts' <= posts + 1 /\ posts \in Nat
      BY <1>4
    <3>2. left \in Nat /\ waits \in Nat
      BY <1>3
    <3>3. left' \in Nat /\ waits' \in Nat
      BY <1>5
    <3>4. left' + waits' = left + waits - 1
      BY <1>5
    <3>5. posts + left + waits + 1 + PostsAfter <= MostPosts(Kind)
      BY <2>2
    <3>6. PostsAfter \in Nat /\ MostPosts(Kind) \in Nat
      BY <2>4
    <3>7. QED BY <3>1, <3>2, <3>3, <3>4, <3>5, <3>6, Request
  <2>7. CASE pc' = "attempt"
    <3>1. took' <= took + Unit
      BY <1>5, <2>7
    <3>2. took' + ((left + waits) - 1) * Unit + Timeout + TimeAfter <= MostTime(Kind)
      BY <2>1, <2>2, <2>4, <2>5, <3>1, Attempt
    <3>3. took' + (left' + waits') * Unit + Timeout + TimeAfter <= MostTime(Kind)
      BY <2>1, <3>2
    <3>4. QED BY <2>3, <2>6, <2>7, <3>3 DEF Spent
  <2>8. CASE pc' = "fallback"
    <3>1. took' <= took + Timeout /\ left' \in Nat /\ waits' \in Nat /\ posts' \in Nat
      BY <1>4, <1>5, <2>8
    <3>2. posts' + 1 + PostsAfter <= MostPosts(Kind)
      BY <2>6
    <3>3. took' + Timeout + TimeAfter <= MostTime(Kind)
      BY <2>1, <2>2, <2>4, <2>5, <3>1, Attempt
    <3>4. QED BY <2>3, <2>8, <3>2, <3>3 DEF Spent
  <2>9. QED BY <1>5, <2>7, <2>8
<1>10. QED BY <1>2, <1>4, <1>6, <1>8, <1>9 DEF IInv, FailureNeverQualifies, OnlyFitIsUsed

-----------------------------------------------------------------------------
(* Termination. What is ahead of a batch, in steps, is a whole job for each *)
(* job not begun and for the running one the attempts, waits, fallbacks and *)
(* calls it has left. Every step takes from it, so the fairness of Spec is  *)
(* all that BatchEnds adds.                                                 *)

WholeJob == 8 * CallPosts + 1

\* The steps ahead of the running job, once it has begun.
JobAhead ==
  CASE pc = "attempt"  -> left + waits + 1 + PostsAfter
    [] pc = "fallback" -> 1 + PostsAfter
    [] pc = "hosted"   -> 2
    [] OTHER           -> 1

Ahead ==
  IF pc \in {"start", "end"}
    THEN (Len(batch) - at + 1) * WholeJob
    ELSE (Len(batch) - at) * WholeJob + JobAhead

AlwaysLess == [][Ahead' \in Nat /\ Ahead' < Ahead]_vars

JobOver == at' = at + 1 /\ pc' \in {"start", "end"} /\ batch' = batch

CallsAgain == (Repair \/ TryAgain \/ DraftMail) /\ batch' = batch /\ at' = at

LEMMA EndIsOver ==
  ASSUME NEW d, NEW by, NEW answer, NEW dec, End(d, by, answer, dec)
  PROVE  JobOver
BY DEF End, JobOver

LEMMA DraftedMoves ==
  ASSUME NEW d, NEW by, NEW answer, Drafted(d, by, answer)
  PROVE  JobOver \/ CallsAgain
BY EndIsOver DEF Drafted, CallsAgain, DraftMail, GoOn

LEMMA ByRulesMoves ==
  ASSUME NEW d, NEW answer, ByRules(d, answer)
  PROVE  JobOver \/ CallsAgain
<1>1. CASE Kind = "qualify"
  <2>1. PICK noFacts \in BOOLEAN : End(d, "rules", answer, DecideFailed(Unknown, noFacts))
    BY <1>1 DEF ByRules
  <2>2. QED BY <2>1, EndIsOver
<1>2. CASE Kind = "draft"
  <2>1. Drafted(d, "rules", answer)
    BY <1>2 DEF ByRules
  <2>2. QED BY <2>1, DraftedMoves
<1>3. CASE Kind \notin {"qualify", "draft"}
  <2>1. End(d, "rules", answer, "none")
    BY <1>3 DEF ByRules
  <2>2. QED BY <2>1, EndIsOver
<1>4. QED BY <1>1, <1>2, <1>3

LEMMA UseMoves ==
  ASSUME NEW d, NEW answer \in {"unfit", "fit"}, Use(d, answer)
  PROVE  JobOver \/ CallsAgain
<1>1. CASE Kind = "qualify"
  <2>1. PICK dec : End(d, "model", answer, dec)
    BY <1>1 DEF Use
  <2>2. QED BY <2>1, EndIsOver
<1>2. CASE Kind # "qualify" /\ answer = "fit"
  <2>1. Drafted(d, "model", answer) \/ End(d, "model", answer, "none")
    BY <1>2 DEF Use
  <2>2. QED BY <2>1, DraftedMoves, EndIsOver
<1>3. CASE Kind # "qualify" /\ answer = "unfit" /\ runs > 0
  BY <1>3 DEF Use, CallsAgain, TryAgain, GoOn
<1>4. CASE Kind # "qualify" /\ answer = "unfit" /\ ~(runs > 0)
  <2>1. ByRules(d, answer)
    BY <1>4 DEF Use
  <2>2. QED BY <2>1, ByRulesMoves
<1>5. QED BY <1>1, <1>2, <1>3, <1>4

LEMMA ParseMoves ==
  ASSUME NEW d, NEW answer \in Answers, Parse(d, answer)
  PROVE  JobOver \/ CallsAgain
<1>1. CASE answer # "garbage"
  <2>1. Use(d, answer) /\ answer \in {"unfit", "fit"}
    BY <1>1 DEF Parse, Answers
  <2>2. QED BY <2>1, UseMoves
<1>2. CASE answer = "garbage" /\ ~repairing
  BY <1>2 DEF Parse, CallsAgain, Repair, GoOn
<1>3. CASE answer = "garbage" /\ repairing
  <2>1. ByRules(d, answer)
    BY <1>3 DEF Parse
  <2>2. QED BY <2>1, ByRulesMoves
<1>4. QED BY <1>1, <1>2, <1>3

\* What a step does to the place in the batch and in the job.
LEMMA Moves ==
  ASSUME Next
  PROVE  \/ JobOver /\ pc # "end"
         \/ CallsAgain /\ Calling
         \/ AskModel \/ PostHosted \/ Refused
         \/ pc = "hosted" /\ pc' = "polling" /\ batch' = batch /\ at' = at
<1>1. CASE Offline \/ Filter \/ KnowledgeGap \/ Direct
  BY <1>1, EndIsOver DEF Offline, Filter, KnowledgeGap, Direct
<1>2. CASE HostedReturns
  BY <1>2, EndIsOver DEF HostedReturns
<1>3. CASE PollEnds
  BY <1>3, EndIsOver DEF PollEnds
<1>4. CASE Answered
  BY <1>4, ParseMoves DEF Answered, Calling
<1>5. CASE Fallback
  BY <1>5, ParseMoves, ByRulesMoves DEF Fallback, Calling
<1>6. CASE Replayed
  <2>1. CASE End(0, "raised", "garbage", "none")
    BY <1>6, <2>1, EndIsOver DEF Replayed
  <2>2. CASE \E answer \in {"unfit", "fit"} : ByRules(0, answer) \/ Use(0, answer)
    BY <1>6, <2>2, ByRulesMoves, UseMoves DEF Replayed, Calling
  <2>3. CASE ByRules(0, "none")
    BY <1>6, <2>3, ByRulesMoves DEF Replayed, Calling
  <2>4. QED BY <1>6, <2>1, <2>2, <2>3 DEF Replayed
<1>7. QED BY <1>1, <1>2, <1>3, <1>4, <1>5, <1>6 DEF Next

\* n jobs of w steps and r of another: a step of the last one, or its end.
LEMMA Fewer ==
  ASSUME NEW n \in Nat, NEW w \in Nat, NEW r \in Nat, NEW s \in Nat
  PROVE  /\ n * w \in Nat /\ (n + 1) * w = n * w + w
         /\ s < r => n * w + s \in Nat /\ n * w + s < n * w + r
         /\ r > 0 => n * w < n * w + r
<1>1. n * w \in Nat /\ (n + 1) * w = n * w + w
  OBVIOUS
<1> DEFINE p == n * w
<1>2. p \in Nat
  BY <1>1
<1> HIDE DEF p
<1>3. (s < r => p + s \in Nat /\ p + s < p + r) /\ (r > 0 => p < p + r)
  BY <1>2
<1>4. QED BY <1>1, <1>3 DEF p

LEMMA JobAheadIsNat ==
  ASSUME TypeOK
  PROVE  JobAhead \in Nat /\ JobAhead > 0 /\ WholeJob \in Nat /\ WholeJob > 0
<1>1. PostsAfter \in Nat /\ left \in Nat /\ waits \in Nat
  BY AheadIsNat DEF TypeOK
<1>2. JobAhead \in Nat /\ JobAhead > 0
  BY <1>1 DEF JobAhead
<1>3. WholeJob \in Nat /\ WholeJob > 0
  <2>1. CallPosts \in Nat
    BY Units
  <2>2. QED BY <2>1 DEF WholeJob
<1>4. QED BY <1>2, <1>3

\* A call of c after one that had x ahead and l + w tries left.
LEMMA LowerCall ==
  ASSUME NEW x \in Nat, NEW y \in Nat, NEW c \in Nat, NEW l \in Nat, NEW w \in Nat, c + y <= x
  PROVE  c + y < l + w + 1 + x /\ c + y < 1 + x
OBVIOUS

LEMMA LowerStart ==
  ASSUME NEW y \in Nat, NEW c \in Nat, y <= 7 * c
  PROVE  c + y < 8 * c + 1
OBVIOUS

\* A try less, or the last one.
LEMMA LowerTry ==
  ASSUME NEW x \in Nat, NEW l \in Nat, NEW w \in Nat, NEW k \in Nat, NEW v \in Nat,
         l > 0, k + v = l + w - 1
  PROVE  k + v + 1 + x < l + w + 1 + x /\ 1 + x < l + w + 1 + x
OBVIOUS

LEMMA StepTakes ==
  ASSUME IInv, IInv', Next
  PROVE  Ahead' \in Nat /\ Ahead' < Ahead
<1>1. TypeOK /\ Shape /\ TypeOK' /\ Shape'
  BY DEF IInv
<1> DEFINE n == Len(batch) - at
<1>2. /\ JobAhead \in Nat /\ JobAhead > 0 /\ WholeJob \in Nat /\ WholeJob > 0
      /\ JobAhead' \in Nat /\ JobAhead' > 0 /\ WholeJob' = WholeJob
  <2>1. JobAhead' \in Nat /\ JobAhead' > 0
    <3>1. PostsAfter' \in Nat /\ left' \in Nat /\ waits' \in Nat
      BY <1>1, AheadIsNat DEF TypeOK
    <3>2. QED BY <3>1 DEF JobAhead
  <2>2. QED BY <1>1, <2>1, JobAheadIsNat DEF WholeJob, CallPosts
<1>3. pc # "end" /\ n \in Nat
  <2>1. pc # "end"
    BY DEF Next, Offline, Filter, KnowledgeGap, AskModel, Direct, PostHosted, HostedReturns, PollEnds,
           Answered, Refused, Fallback, Replayed
  <2>2. at \in 1 .. Len(batch) /\ Len(batch) \in Nat
    BY <1>1, <2>1, KindIsKnown DEF TypeOK
  <2>3. QED BY <2>1, <2>2
<1>4. /\ pc = "start" => Ahead = n * WholeJob + WholeJob
      /\ pc # "start" => Ahead = n * WholeJob + JobAhead
  <2>1. Len(batch) - at + 1 = n + 1
    OBVIOUS
  <2>2. (n + 1) * WholeJob = n * WholeJob + WholeJob
    BY <1>2, <1>3, Fewer
  <2>3. QED BY <1>3, <2>1, <2>2 DEF Ahead
<1>5. CASE JobOver
  <2>1. Ahead' = (Len(batch) - (at + 1) + 1) * WholeJob
    BY <1>2, <1>5 DEF JobOver, Ahead
  <2>2. Len(batch) - (at + 1) + 1 = n
    BY <1>1 DEF TypeOK
  <2>3. Ahead' = n * WholeJob
    BY <2>1, <2>2
  <2>4. QED BY <1>2, <1>3, <1>4, <2>3, Fewer
<1>6. ASSUME batch' = batch, at' = at, pc' \notin {"start", "end"},
             pc = "start" => JobAhead' < WholeJob, pc # "start" => JobAhead' < JobAhead
      PROVE  Ahead' \in Nat /\ Ahead' < Ahead
  <2>1. Ahead' = n * WholeJob + JobAhead'
    BY <1>2, <1>6 DEF Ahead
  <2>2. CASE pc = "start"
    BY <1>2, <1>3, <1>4, <1>6, <2>1, <2>2, Fewer
  <2>3. CASE pc # "start"
    BY <1>2, <1>3, <1>4, <1>6, <2>1, <2>3, Fewer
  <2>4. QED BY <2>2, <2>3
<1>7. /\ PostsAfter \in Nat /\ PostsAfter' \in Nat /\ CallPosts \in Nat /\ CallPosts > 1
      /\ CallPosts = Retries + 1 + RateLimitWaits + 1
  BY <1>1, AheadIsNat, Units DEF TypeOK
<1>8. CASE CallsAgain /\ Calling
  <2>1. pc' = "attempt" /\ left' = Retries + 1 /\ waits' = RateLimitWaits
    BY <1>8 DEF CallsAgain, Repair, TryAgain, DraftMail, Ask, OpenCall
  <2>2. JobAhead' = CallPosts + PostsAfter'
    BY <1>7, <2>1 DEF JobAhead
  <2>3. CallPosts + PostsAfter' <= PostsAfter
    BY <1>1, <1>8, AgainCosts DEF CallsAgain
  <2>4. left \in Nat /\ waits \in Nat
    BY <1>1 DEF TypeOK
  <2>5. JobAhead' < JobAhead
    <3>1. JobAhead \in {left + waits + 1 + PostsAfter, 1 + PostsAfter}
      BY <1>8 DEF JobAhead, Calling
    <3>2. /\ CallPosts + PostsAfter' < left + waits + 1 + PostsAfter
          /\ CallPosts + PostsAfter' < 1 + PostsAfter
      BY <1>7, <2>3, <2>4, LowerCall
    <3>3. QED BY <2>2, <3>1, <3>2
  <2>6. pc # "start"
    BY <1>8 DEF Calling
  <2>7. QED BY <1>6, <1>8, <2>1, <2>5, <2>6 DEF CallsAgain
<1>9. CASE AskModel
  <2>1. /\ pc = "start" /\ pc' = "attempt" /\ left' = Retries + 1 /\ waits' = RateLimitWaits
        /\ batch' = batch /\ at' = at /\ repairing' = FALSE
    BY <1>9 DEF AskModel, Ask, OpenCall
  <2>2. JobAhead' = CallPosts + PostsAfter'
    BY <1>7, <2>1 DEF JobAhead
  <2>3. PostsAfter' <= 7 * CallPosts
    BY <1>7, <2>1 DEF PostsAfter, CallPosts
  <2>4. JobAhead' < WholeJob
    <3>1. CallPosts + PostsAfter' < 8 * CallPosts + 1
      BY <1>7, <2>3, LowerStart
    <3>2. QED BY <2>2, <3>1 DEF WholeJob
  <2>5. QED BY <1>6, <2>1, <2>4
<1>10. CASE PostHosted
  <2>1. pc = "start" /\ pc' = "hosted" /\ batch' = batch /\ at' = at
    BY <1>10 DEF PostHosted
  <2>2. JobAhead' < WholeJob
    BY <1>7, <2>1 DEF JobAhead, WholeJob
  <2>3. QED BY <1>6, <2>1, <2>2
<1>11. CASE pc = "hosted" /\ pc' = "polling" /\ batch' = batch /\ at' = at
  BY <1>6, <1>11 DEF JobAhead
<1>12. CASE Refused
  <2>1. /\ pc = "attempt" /\ batch' = batch /\ at' = at
        /\ pc' \in {"attempt", "fallback"}
        /\ left' + waits' = left + waits - 1
        /\ UNCHANGED <<runs, redo, repairing>>
    BY <1>1, <1>12 DEF Refused, GoOn, TypeOK
  <2>2. PostsAfter' = PostsAfter
    BY <2>1 DEF PostsAfter, CallPosts
  <2>3. left \in Nat /\ waits \in Nat /\ left' \in Nat /\ waits' \in Nat /\ left > 0
    BY <1>1, <2>1 DEF TypeOK, Shape
  <2>4. JobAhead = left + waits + 1 + PostsAfter
    BY <2>1 DEF JobAhead
  <2>5. JobAhead' \in {left' + waits' + 1 + PostsAfter, 1 + PostsAfter}
    BY <2>1, <2>2 DEF JobAhead
  <2>6. JobAhead' < JobAhead
    <3>1. /\ left' + waits' + 1 + PostsAfter < left + waits + 1 + PostsAfter
          /\ 1 + PostsAfter < left + waits + 1 + PostsAfter
      BY <1>7, <2>1, <2>3, LowerTry
    <3>2. QED BY <2>4, <2>5, <3>1
  <2>7. QED BY <1>6, <2>1, <2>6
<1>13. QED BY <1>5, <1>8, <1>9, <1>10, <1>11, <1>12, Moves

-----------------------------------------------------------------------------
(* Every action, and the theorems.                                         *)

LEMMA InitKeeps == ASSUME Init PROVE IInv
<1>1. batch \in Seq(Kinds) /\ Len(batch) \in Nat /\ Len(batch) > 0
  BY DEF Init
<1>2. TypeOK
  <2>1. 1 \in 1 .. Len(batch) + 1 /\ 0 \in 0 .. Retries + 1 /\ 0 \in 0 .. RateLimitWaits
    BY <1>1
  <2>2. << >> \in Seq(Outcome)
    OBVIOUS
  <2>3. QED BY <2>1, <2>2 DEF Init, TypeOK
<1>3. Shape /\ Spent
  BY <1>1 DEF Init, Shape, Spent, Calling
<1>4. FailureNeverQualifies /\ OnlyFitIsUsed
  BY DEF Init, FailureNeverQualifies, OnlyFitIsUsed
<1>5. QED BY <1>2, <1>3, <1>4 DEF IInv

LEMMA StartKeeps == ASSUME IInv, Offline \/ Filter \/ KnowledgeGap \/ Direct PROVE IInv'
<1>1. CASE Offline
  <2>1. PICK dec \in IF Kind = "qualify" THEN Decisions ELSE {"none"} : End(0, "offline", "none", dec)
    BY <1>1 DEF Offline
  <2>2. dec \in Decisions \cup {"none"} /\ pc # "end" /\ 0 \in Nat
    BY <1>1, <2>1 DEF Offline
  <2>3. QED BY <2>1, <2>2, EndKeeps DEF Sources
<1>2. CASE Filter
  BY <1>2, EndKeeps DEF Filter, Sources, Decisions
<1>3. CASE KnowledgeGap
  BY <1>3, EndKeeps DEF KnowledgeGap, Sources
<1>4. CASE Direct
  BY <1>4, EndKeeps DEF Direct, Sources
<1>5. QED BY <1>1, <1>2, <1>3, <1>4

LEMMA AskKeeps == ASSUME IInv, AskModel PROVE IInv'
<1>1. TypeOK /\ Shape /\ FailureNeverQualifies /\ OnlyFitIsUsed /\ pc = "start" /\ posts = 0 /\ took = 0
  BY DEF IInv, AskModel, Shape
<1>2. /\ pc' = "attempt" /\ repairing' = FALSE /\ left' = Retries + 1 /\ waits' = RateLimitWaits
      /\ runs' = (IF Kind = "qualify" THEN 0 ELSE 1) /\ redo' = (Kind = "draft") /\ Kind # "research"
      /\ batch' = batch /\ mode' = mode /\ at' = at /\ posts' = 0 /\ took' = 0
      /\ out' = out
  BY <1>1 DEF AskModel, Ask, OpenCall
<1>3. Kind \in Kinds /\ Kind' = Kind
  BY <1>1, <1>2, KindIsKnown DEF Kind
<1>4. TypeOK'
  <2>1. runs' \in {0, 1} /\ redo' \in BOOLEAN /\ repairing' \in BOOLEAN
    <3>1. (IF Kind = "qualify" THEN 0 ELSE 1) \in {0, 1} /\ (Kind = "draft") \in BOOLEAN
      OBVIOUS
    <3>2. QED BY <1>2, <3>1
  <2>2. left' \in 0 .. Retries + 1 /\ waits' \in 0 .. RateLimitWaits /\ posts' \in Nat /\ took' \in Nat
    BY <1>2
  <2>3. /\ batch' \in Batches /\ mode' \in Modes /\ at' \in 1 .. Len(batch') + 1
        /\ out' \in Seq(Outcome) /\ pc' = "attempt"
    BY <1>1, <1>2 DEF TypeOK
  <2>4. QED BY <2>1, <2>2, <2>3 DEF TypeOK
<1>5. Shape'
  <2>1. (at = Len(batch) + 1 <=> pc = "end")' /\ (Len(out) = at - 1)'
    BY <1>1, <1>2 DEF Shape
  <2>2. pc' = "attempt" /\ Kind' # "research" /\ left' > 0
    BY <1>2, <1>3
  <2>3. (Kind' = "qualify" => runs' = 0) /\ (redo' => Kind' = "draft")
    BY <1>2, <1>3
  <2>4. QED BY <2>1, <2>2, <2>3 DEF Shape, Calling
<1>6. Spent'
  <2>1. /\ MostPosts(Kind)' = MostPosts(Kind) /\ MostTime(Kind)' = MostTime(Kind) /\ Unit' = Unit
    BY <1>3 DEF MostPosts, MostTime, Unit
  <2>2. /\ CallPosts + PostsAfter' = MostPosts(Kind) /\ CallTime + TimeAfter' = MostTime(Kind)
        /\ PostsAfter' \in Nat /\ TimeAfter' \in Nat
    <3>1. /\ PostsAfter' = CallPosts + (IF runs' = 1 THEN 2 * CallPosts ELSE 0) + (IF redo' THEN 4 * CallPosts ELSE 0)
          /\ TimeAfter' = CallTime + (IF runs' = 1 THEN 2 * CallTime ELSE 0) + (IF redo' THEN 4 * CallTime ELSE 0)
      BY <1>2 DEF PostsAfter, TimeAfter, CallPosts, CallTime
    <3>2. CallPosts \in Nat /\ CallTime \in Nat
      BY Units
    <3>3. CASE Kind = "qualify"
      <4>1. runs' = 0 /\ redo' = FALSE
        BY <1>2, <3>3
      <4>2. MostPosts(Kind) = 2 * CallPosts /\ MostTime(Kind) = 2 * CallTime
        BY <1>3, <3>3, Bounds
      <4>3. QED BY <3>1, <3>2, <4>1, <4>2
    <3>4. CASE Kind = "plan"
      <4>1. runs' = 1 /\ redo' = FALSE
        BY <1>2, <3>4
      <4>2. MostPosts(Kind) = 4 * CallPosts /\ MostTime(Kind) = 4 * CallTime
        BY <1>3, <3>4, Bounds
      <4>3. QED BY <3>1, <3>2, <4>1, <4>2
    <3>5. CASE Kind = "draft"
      <4>1. runs' = 1 /\ redo' = TRUE
        BY <1>2, <3>5
      <4>2. MostPosts(Kind) = 8 * CallPosts /\ MostTime(Kind) = 8 * CallTime
        BY <1>3, <3>5, Bounds
      <4>3. QED BY <3>1, <3>2, <4>1, <4>2
    <3>6. QED BY <1>2, <1>3, <3>3, <3>4, <3>5 DEF Kinds
  <2>3. left' + waits' + 1 = CallPosts /\ (left' + waits') * Unit + Timeout = CallTime
    BY <1>2, Units
  <2>4. left' \in Nat /\ waits' \in Nat /\ (left' + waits') * Unit \in Nat /\ Timeout \in Nat
    BY <1>2, Units
  <2>5. posts' + left' + waits' + 1 + PostsAfter' <= MostPosts(Kind)
    <3>1. 0 + CallPosts + PostsAfter' <= MostPosts(Kind) /\ CallPosts \in Nat /\ 0 \in Nat /\ MostPosts(Kind) \in Nat
      BY <1>3, <2>2, Units, Bounds
    <3>2. 0 + left' + waits' + 1 + PostsAfter' <= MostPosts(Kind)
      <4>1. PostsAfter' \in Nat /\ left' \in Nat /\ waits' \in Nat /\ left' + waits' + 1 = CallPosts
        BY <2>2, <2>3, <2>4
      <4>2. QED BY <3>1, <4>1, Parts
    <3>3. QED BY <1>2, <3>2
  <2>6. took' + (left' + waits') * Unit + Timeout + TimeAfter' <= MostTime(Kind)
    BY <1>2, <2>2, <2>3, <2>4
  <2>7. QED BY <1>2, <2>1, <2>5, <2>6 DEF Spent
<1>7. QED BY <1>1, <1>2, <1>4, <1>5, <1>6 DEF IInv, FailureNeverQualifies, OnlyFitIsUsed

LEMMA HostedKeeps == ASSUME IInv, PostHosted \/ HostedReturns \/ PollEnds PROVE IInv'
<1>1. TypeOK /\ Shape /\ FailureNeverQualifies /\ OnlyFitIsUsed
  BY DEF IInv
<1>2. CASE PostHosted
  <2>1. /\ pc' = "hosted" /\ Kind = "research" /\ pc = "start" /\ posts' = posts /\ took' = took
        /\ UNCHANGED <<batch, mode, at, call, out>>
    BY <1>2 DEF PostHosted
  <2>2. Kind' = Kind
    BY <2>1 DEF Kind
  <2>3. TypeOK' /\ Shape' /\ Spent'
    BY <1>1, <2>1, <2>2 DEF TypeOK, Shape, Spent, Calling
  <2>4. QED BY <1>1, <2>1, <2>3 DEF IInv, FailureNeverQualifies, OnlyFitIsUsed
<1>3. CASE HostedReturns
  <2>1. PICK d \in Within(PostTimeout) :
          \/ End(d, "hosted", "none", "none")
          \/ End(d, "rules", "none", "none")
          \/ /\ pc' = "polling" /\ took' = took + d
             /\ UNCHANGED <<setup, at, call, posts, out>>
    BY <1>3 DEF HostedReturns
  <2>2. d \in Nat /\ d <= PostTimeout /\ pc = "hosted"
    BY <1>3 DEF Within, HostedReturns
  <2>3. CASE End(d, "hosted", "none", "none")
    BY <2>2, <2>3, EndKeeps DEF Sources
  <2>4. CASE End(d, "rules", "none", "none")
    BY <2>2, <2>4, EndKeeps DEF Sources
  <2>5. CASE pc' = "polling" /\ took' = took + d /\ UNCHANGED <<setup, at, call, posts, out>>
    <3>1. Kind' = Kind /\ took = 0 /\ Kind = "research" /\ posts = 0
      BY <1>1, <2>2, <2>5 DEF Kind, Shape
    <3>2. TypeOK'
      BY <1>1, <2>2, <2>5 DEF TypeOK
    <3>3. Shape' /\ Spent'
      BY <1>1, <2>2, <2>5, <3>1 DEF Shape, Spent, Calling
    <3>4. QED BY <1>1, <2>5, <3>2, <3>3 DEF IInv, FailureNeverQualifies, OnlyFitIsUsed
  <2>6. QED BY <2>1, <2>3, <2>4, <2>5
<1>4. CASE PollEnds
  <2>1. pc # "end" /\ WaitSeconds \in Nat
    BY <1>4 DEF PollEnds
  <2>2. CASE \E d \in Within(WaitSeconds) : End(d, "hosted", "none", "none")
    BY <2>1, <2>2, EndKeeps DEF Within, Sources
  <2>3. CASE End(WaitSeconds, "rules", "none", "none")
    BY <2>1, <2>3, EndKeeps DEF Sources
  <2>4. QED BY <1>4, <2>2, <2>3 DEF PollEnds
<1>5. QED BY <1>2, <1>3, <1>4

LEMMA AnswerKeeps == ASSUME IInv, Answered \/ Fallback \/ Replayed PROVE IInv'
<1>1. CASE Answered
  <2>1. PICK d \in Within(Timeout), answer \in Answers : Parse(d, answer)
    BY <1>1 DEF Answered
  <2>2. Answering(d)
    BY <1>1 DEF Answered, Answering, Calling, Within
  <2>3. QED BY <2>1, <2>2, ParseKeeps
<1>2. CASE Fallback
  <2>1. PICK d \in Within(Timeout) : (\E answer \in Answers : Parse(d, answer)) \/ ByRules(d, "none")
    BY <1>2 DEF Fallback
  <2>2. Answering(d)
    BY <1>2 DEF Fallback, Answering, Calling, Within
  <2>3. QED BY <2>1, <2>2, ParseKeeps, ByRulesKeeps
<1>3. CASE Replayed
  <2>1. Answering(0) /\ pc # "end" /\ 0 \in Nat
    BY <1>3 DEF Replayed, Answering, Calling
  <2>2. CASE \E answer \in {"unfit", "fit"} :
               IF Kind # "qualify" /\ answer = "unfit" THEN ByRules(0, answer) ELSE Use(0, answer)
    <3>1. PICK answer \in {"unfit", "fit"} :
               IF Kind # "qualify" /\ answer = "unfit" THEN ByRules(0, answer) ELSE Use(0, answer)
      BY <2>2
    <3>2. answer \in Answers \cup {"none"}
      BY DEF Answers
    <3>3. QED BY <2>1, <3>1, <3>2, ByRulesKeeps, UseKeeps
  <2>3. CASE ByRules(0, "none")
    BY <2>1, <2>3, ByRulesKeeps
  <2>4. CASE End(0, "raised", "garbage", "none")
    BY <2>1, <2>4, EndKeeps DEF Sources, Answers
  <2>5. QED BY <1>3, <2>2, <2>3, <2>4 DEF Replayed
<1>4. QED BY <1>1, <1>2, <1>3

\* IInv holds throughout: of every batch, whatever the providers answer.
THEOREM Invariance == Spec => []IInv
<1>1. IInv /\ [Next]_vars => IInv'
  <2> SUFFICES ASSUME IInv, [Next]_vars PROVE IInv'
    OBVIOUS
  <2>1. CASE UNCHANGED vars
    BY <2>1 DEF IInv, TypeOK, Shape, Spent, Calling, Kind, PostsAfter, TimeAfter, Unit, CallPosts, CallTime,
                MostPosts, MostTime, Calls, FailureNeverQualifies, OnlyFitIsUsed
  <2>2. CASE Offline \/ Filter \/ KnowledgeGap \/ Direct
    BY <2>2, StartKeeps
  <2>3. CASE AskModel
    BY <2>3, AskKeeps
  <2>4. CASE PostHosted \/ HostedReturns \/ PollEnds
    BY <2>4, HostedKeeps
  <2>5. CASE Answered \/ Fallback \/ Replayed
    BY <2>5, AnswerKeeps
  <2>6. CASE Refused
    BY <2>6, RefusedKeeps
  <2>7. QED BY <2>1, <2>2, <2>3, <2>4, <2>5, <2>6 DEF Next
<1>2. QED BY InitKeeps, <1>1, PTL DEF Spec

\* The batch, the call and its accounts keep their types.
THEOREM TypeCorrect == Spec => []TypeOK
<1>1. IInv => TypeOK
  BY DEF IInv
<1>2. QED BY <1>1, Invariance, PTL

\* A job of any kind stays within the product of its calls, their attempts and
\* waits, in requests and in time.
THEOREM StepsBounded == Spec => []StepsAreBounded
<1>1. IInv => StepsAreBounded
  <2> SUFFICES ASSUME IInv, at <= Len(batch) PROVE posts <= MostPosts(Kind) /\ took <= MostTime(Kind)
    BY DEF StepsAreBounded
  <2>1. TypeOK /\ Shape
    BY DEF IInv
  <2>2. Len(batch) \in Nat /\ at \in Nat /\ pc # "end"
    BY <2>1 DEF TypeOK, Shape
  <2>3. Kind \in Kinds
    BY <2>1, <2>2, KindIsKnown
  <2>4. MostPosts(Kind) \in Nat /\ MostTime(Kind) \in Nat /\ posts \in Nat /\ took \in Nat
    BY <2>1, <2>3, Bounds DEF TypeOK
  <2>5. CASE pc = "start"
    BY <2>1, <2>4, <2>5 DEF Shape
  <2>6. CASE pc \in {"hosted", "polling"}
    <3>1. posts = 0 /\ took <= PostTimeout /\ MostTime(Kind) = PostTimeout + WaitSeconds
      BY <2>1, <2>3, <2>6, Bounds DEF Shape
    <3>2. QED BY <2>4, <3>1
  <2>7. CASE Calling
    <3>1. Room /\ PostsAfter \in Nat /\ TimeAfter \in Nat
      BY <2>1, <2>7, CallingHasRoom, AheadIsNat DEF TypeOK
    <3>2. QED BY <2>4, <3>1 DEF Room
  <2>8. QED BY <2>1, <2>2, <2>5, <2>6, <2>7 DEF TypeOK, Calling
<1>2. QED BY <1>1, Invariance, PTL

\* No failed judgement qualifies, at any threshold.
THEOREM NoFalseQualify == Spec => []FailureNeverQualifies
<1>1. IInv => FailureNeverQualifies
  BY DEF IInv
<1>2. QED BY <1>1, Invariance, PTL

\* No answer that failed the code's checks is used.
THEOREM OnlyFit == Spec => []OnlyFitIsUsed
<1>1. IInv => OnlyFitIsUsed
  BY DEF IInv
<1>2. QED BY <1>1, Invariance, PTL

\* Whatever the providers answer, each step of a batch is one of the finitely
\* many it had left: the attempts, waits, repairs and second tries of run() and
\* of its agents cannot go round in circles.
THEOREM BatchGoesOn == Spec => AlwaysLess
<1>1. IInv /\ IInv' /\ [Next]_vars => [Ahead' \in Nat /\ Ahead' < Ahead]_vars
  BY StepTakes
<1>2. QED BY <1>1, Invariance, PTL DEF Spec, AlwaysLess
=============================================================================
