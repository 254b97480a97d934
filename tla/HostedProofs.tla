---------------------------- MODULE HostedProofs ----------------------------
(***************************************************************************)
(* Proofs about Hosted, for any jobs, replies, facts, results and tools.   *)
(*                                                                         *)
(* Four inductive facts carry the properties: a row that a waiting reply   *)
(* could take for its own comes of its own agent or of a loose one         *)
(* (Strays), the decisions taken are older than any post waited for        *)
(* (Past), a prospect nobody has researched has no facts (Clean), and who  *)
(* writes without anybody in between has read what is there (Current).     *)
(* What is saved and read of a researched prospect stays so (ResearchInv), *)
(* and a job goes from place to place one way (Ahead).                     *)
(***************************************************************************)
EXTENDS Hosted, TLAPS

Waiting(j) == pc[j] \in {"posted", "polling"}

\* An agent that is not loose is at work while its job is posted; the places of
\* research jobs and of replies differ.
Placed == \A j \in Jobs :
  /\ on[j] => pc[j] = "posted"
  /\ pc[j] \in {"saving", "direct", "writing"} => j \in Researches
  /\ pc[j] = "model" => j \in Replies

\* The enrollment's lock lets one reply at a time be read.
OneReader == \A r, s \in Reads : r = s

\* Rows on record and rows in open tool calls.
Rows == rows \cup {[of |-> tool[t].of, at |-> tool[t].at, answer |-> tool[t].answer] : t \in {u \in Tools : tool[u] # IdleCall}}

Strays ==
  /\ \A x \in Rows : x.at <= clock
  /\ \A r \in Replies, x \in Rows :
       Waiting(r) /\ x.of \in Replies /\ x.of # r /\ x.at >= started[r] => loose[x.of]

Fits(p) ==
  /\ ~p.researched => \A f \in Facts : p.facts[f] = 0
  /\ \A f \in Facts : p.facts[f] <= 1 \/ \E result \in Results : p.facts[f] <= result[f]

\* The decisions taken are older than any post that is waited for.
Past ==
  \A s \in Replies : used[s].by = "hosted" =>
    /\ used[s].row.at <= clock
    /\ \A r \in Replies : Waiting(r) => used[s].row.at < started[r]

Clean == Fits(prospect) /\ \A w \in Jobs \cup Tools : Fits(seen[w])

Current == \A w \in Writers \ over : seen[w] = prospect

IInv == TypeOK /\ Placed /\ OneReader /\ Strays /\ Past /\ Clean /\ Current /\ DecisionsReadOnce

\* What a step may not lose.
NoLoss ==
  \A f \in Facts : prospect.facts[f] > 0 /\ prospect'.facts[f] = 0 =>
    \E w \in Jobs \cup Tools : Writes(w) /\ w \in over

USE HostedAssumption DEF bounds, waits, person, reads, vars

-----------------------------------------------------------------------------
(* The operators on a prospect.                                            *)

LEMMA BlankFits == Blank \in Prospect /\ Fits(Blank)
BY DEF Blank, Prospect, Fits

LEMMA SavedFits ==
  ASSUME NEW p \in Prospect, Fits(p), NEW result \in Results
  PROVE  /\ Saved(p, result) \in Prospect /\ Fits(Saved(p, result))
         /\ \A f \in Facts : p.facts[f] > 0 => Saved(p, result).facts[f] > 0
<1> DEFINE added == {f \in Facts : p.facts[f] = 0 /\ result[f] > 0}
           facts == [f \in Facts |-> IF f \in added THEN result[f] ELSE p.facts[f]]
<1>1. p.facts \in [Facts -> Nat] /\ p.rich \in SUBSET Facts /\ result \in [Facts -> Nat]
  BY DEF Prospect
<1>2. facts \in [Facts -> Nat] /\ p.rich \ added \in SUBSET Facts
  BY <1>1
<1>3. Saved(p, result) = [facts |-> facts, rich |-> p.rich \ added, researched |-> TRUE]
  BY DEF Saved
<1>4. Saved(p, result) \in Prospect
  BY <1>2, <1>3 DEF Prospect
<1>5. Saved(p, result).facts = facts /\ Saved(p, result).researched
  BY <1>3
<1>6. \A f \in Facts : p.facts[f] > 0 => facts[f] > 0
  BY <1>1
<1>7. \A f \in Facts : facts[f] <= 1 \/ \E x \in Results : facts[f] <= x[f]
  BY <1>1 DEF Fits
<1>8. QED BY <1>4, <1>5, <1>6, <1>7 DEF Fits

LEMMA RecordedFits ==
  ASSUME NEW p \in Prospect, Fits(p), NEW found \in SUBSET Facts
  PROVE  /\ Recorded(p, found) \in Prospect /\ Fits(Recorded(p, found))
         /\ \A f \in Facts : p.facts[f] > 0 => Recorded(p, found).facts[f] > 0
<1>1. CASE p.researched
  BY <1>1 DEF Recorded
<1>2. CASE ~p.researched
  <2> DEFINE facts == [f \in Facts |-> p.facts[f] + (IF f \in found THEN 1 ELSE 0)]
  <2>1. p.facts \in [Facts -> Nat] /\ \A f \in Facts : p.facts[f] = 0
    BY <1>2 DEF Prospect, Fits
  <2>2. facts \in [Facts -> Nat] /\ \A f \in Facts : facts[f] <= 1
    BY <2>1
  <2>3. Recorded(p, found) = [facts |-> facts, rich |-> {}, researched |-> TRUE]
    BY <1>2 DEF Recorded
  <2>4. Recorded(p, found) \in Prospect
    BY <2>2, <2>3 DEF Prospect
  <2>5. QED BY <2>1, <2>2, <2>3, <2>4 DEF Fits
<1>3. QED BY <1>1, <1>2

LEMMA EnrichedIsFacts == ASSUME NEW p \in Prospect PROVE Enriched(p) \in SUBSET Facts
BY DEF Enriched, Prospect

-----------------------------------------------------------------------------
\* The strengthened invariant holds before any job begins.
THEOREM InitKeeps == Init => IInv
<1> SUFFICES ASSUME Init PROVE IInv
  OBVIOUS
<1>1. TypeOK
  <2>1. prospect \in Prospect /\ seen \in [Jobs \cup Tools -> Prospect]
    BY BlankFits DEF Init
  <2>2. used \in [Replies -> Reading \cup {Nobody}] /\ tool \in [Tools -> Call \cup {IdleCall}]
    BY DEF Init
  <2>3. new \in [Jobs -> SUBSET Facts] /\ text \in [Replies -> Texts] /\ pc \in [Jobs -> Places]
    BY DEF Init, Places
  <2>4. on \in [Jobs -> BOOLEAN] /\ loose \in [Jobs -> BOOLEAN] /\ started \in [Jobs -> Nat]
    BY DEF Init
  <2>5. rows \subseteq Row /\ clock \in Nat /\ over \subseteq Jobs \cup Tools /\ suppressed \in BOOLEAN
    BY DEF Init
  <2>6. load \in Loads /\ submits \in 0 .. Submits /\ deaths \in 0 .. Deaths
    BY DEF Init
  <2>7. QED BY <2>1, <2>2, <2>3, <2>4, <2>5, <2>6 DEF TypeOK
<1>2. Placed /\ OneReader
  BY DEF Init, Placed, OneReader, Reads, Jobs
<1>3. Strays
  <2>1. Rows = {}
    BY DEF Init, Rows
  <2>2. QED BY <2>1 DEF Strays
<1>4. Clean /\ Current /\ Past /\ DecisionsReadOnce
  BY BlankFits DEF Init, Clean, Current, Writers, Past, DecisionsReadOnce, Nobody
<1>5. QED BY <1>1, <1>2, <1>3, <1>4 DEF IInv

LEMMA RowsTyped == ASSUME TypeOK PROVE Rows \subseteq Row
BY DEF TypeOK, Rows, Row, Call

\* Rows stay apart while no reply begins to wait and no row is added.
LEMMA StraysStay ==
  ASSUME IInv, clock' \in Nat, clock' >= clock, Rows' \subseteq Rows,
         \A r \in Replies : Waiting(r)' => Waiting(r) /\ started'[r] = started[r],
         \A j \in Jobs : loose[j] => loose'[j]
  PROVE  Strays'
<1>1. Strays /\ clock \in Nat /\ Rows \subseteq Row
  BY RowsTyped DEF IInv, TypeOK
<1>2. ASSUME NEW x \in Rows' PROVE x.at <= clock'
  BY <1>1, <1>2 DEF Strays, Row
<1>3. ASSUME NEW r \in Replies, NEW x \in Rows',
             Waiting(r)', x.of \in Replies, x.of # r, x.at >= started'[r]
      PROVE  loose'[x.of]
  BY <1>1, <1>3 DEF Strays, Jobs
<1>4. QED BY <1>2, <1>3 DEF Strays

\* A decision taken was a row.
LEMMA HostedRows ==
  ASSUME IInv
  PROVE  \A r \in Replies : used[r].by = "hosted" => used[r].row.of \in Jobs /\ used[r].row.at \in Nat
<1> SUFFICES ASSUME NEW r \in Replies, used[r].by = "hosted" PROVE used[r].row.of \in Jobs /\ used[r].row.at \in Nat
  OBVIOUS
<1>1. used[r] # Nobody
  BY DEF Nobody
<1>2. used[r] \in Reading
  BY <1>1 DEF IInv, TypeOK
<1>3. used[r].row \in Row
  BY <1>2 DEF Reading
<1>4. QED BY <1>3 DEF Row

\* Readings stay apart while nobody takes one.
LEMMA UsedStays ==
  ASSUME IInv, used' = used, \A j \in Jobs : loose[j] => loose'[j] PROVE DecisionsReadOnce'
<1>1. \A r \in Replies : used[r].by = "hosted" => used[r].row.of \in Jobs
  BY HostedRows
<1>2. QED BY <1>1 DEF IInv, DecisionsReadOnce

\* What was taken stays older than any wait, while nobody takes a decision and
\* a reply that begins to wait does so later.
LEMMA PastStays ==
  ASSUME IInv, used' = used, clock' \in Nat, clock' >= clock,
         \A r \in Replies : Waiting(r)' =>
           (Waiting(r) /\ started'[r] = started[r]) \/ (started'[r] \in Nat /\ started'[r] > clock)
  PROVE  Past'
<1> SUFFICES ASSUME NEW s \in Replies, used[s].by = "hosted"
             PROVE  /\ used[s].row.at <= clock'
                    /\ \A r \in Replies : Waiting(r)' => used[s].row.at < started'[r]
  BY DEF Past
<1>1. used[s].row.at \in Nat /\ used[s].row.at <= clock /\ clock \in Nat
  BY HostedRows DEF IInv, Past, TypeOK
<1>2. \A r \in Replies : Waiting(r) => used[s].row.at < started[r]
  BY DEF IInv, Past
<1>3. QED BY <1>1, <1>2

LEMMA CleanStays ==
  ASSUME IInv, prospect' = prospect,
         \A w \in Jobs \cup Tools : seen'[w] \in {seen[w], prospect, Blank}
  PROVE  Clean'
<1>1. Fits(prospect) /\ Fits(Blank) /\ \A w \in Jobs \cup Tools : Fits(seen[w])
  BY BlankFits DEF IInv, Clean
<1>2. ASSUME NEW w \in Jobs \cup Tools PROVE Fits(seen'[w])
  BY <1>1
<1>3. Clean' <=> Fits(prospect') /\ \A w \in Jobs \cup Tools : Fits(seen'[w])
  BY DEF Clean, Fits
<1>4. QED BY <1>1, <1>2, <1>3

\* Who writes has read what is there, while nobody writes.
LEMMA CurrentStays ==
  ASSUME IInv, prospect' = prospect,
         \A w \in Writers' \ over' : (w \in Writers \ over /\ seen'[w] = seen[w]) \/ seen'[w] = prospect
  PROVE  Current'
BY DEF IInv, Current

\* One write: everybody else between a read and a write is overtaken.
LEMMA PutKeeps ==
  ASSUME IInv, NEW w \in Writers, NEW p \in Prospect, Fits(p), Put(w, p), Writes(w),
         Writers' \subseteq Writers \ {w},
         \A f \in Facts : seen[w].facts[f] > 0 => p.facts[f] > 0
  PROVE  /\ Clean' /\ Current' /\ NoLoss
         /\ prospect' \in Prospect /\ seen' \in [Jobs \cup Tools -> Prospect] /\ over' \subseteq Jobs \cup Tools
<1>1. w \in Jobs \cup Tools /\ Writers \subseteq Jobs \cup Tools
  BY DEF Writers
<1>2. prospect' = p /\ over' = Writers \ {w} /\ seen' = [seen EXCEPT ![w] = Blank]
  BY DEF Put
<1>3. seen \in [Jobs \cup Tools -> Prospect] /\ prospect \in Prospect
  BY DEF IInv, TypeOK
<1>4. Clean'
  <2>1. Fits(Blank) /\ \A v \in Jobs \cup Tools : Fits(seen[v])
    BY BlankFits DEF IInv, Clean
  <2>2. ASSUME NEW v \in Jobs \cup Tools PROVE Fits(seen'[v])
    BY <1>2, <1>3, <2>1
  <2>3. Clean' <=> Fits(prospect') /\ \A v \in Jobs \cup Tools : Fits(seen'[v])
    BY DEF Clean, Fits
  <2>4. QED BY <1>2, <2>2, <2>3
<1>5. Current'
  BY <1>2 DEF Current
<1>6. NoLoss
  <2>1. CASE w \in over
    BY <1>1, <2>1 DEF NoLoss
  <2>2. CASE w \notin over
    <3>1. seen[w] = prospect
      BY <2>2 DEF IInv, Current
    <3>2. \A f \in Facts : prospect.facts[f] > 0 => p.facts[f] > 0
      BY <3>1
    <3>3. \A f \in Facts : ~(p.facts[f] > 0 /\ p.facts[f] = 0)
      OBVIOUS
    <3>4. QED BY <1>2, <3>2, <3>3 DEF NoLoss
  <2>3. QED BY <2>1, <2>2
<1>7. QED BY <1>1, <1>2, <1>3, <1>4, <1>5, <1>6, BlankFits

LEMMA NothingLost == ASSUME IInv, prospect' = prospect PROVE NoLoss
<1>1. \A f \in Facts : ~(prospect.facts[f] > 0 /\ prospect.facts[f] = 0)
  OBVIOUS
<1>2. QED BY <1>1 DEF NoLoss

-----------------------------------------------------------------------------
(* Research.                                                               *)

LEMMA BeginResearchKeeps ==
  ASSUME IInv, NEW j \in Jobs, BeginResearch(j) PROVE IInv' /\ NoLoss
<1>1. /\ j \in Researches /\ pc[j] = "idle" /\ prospect' = prospect
      /\ seen' = [seen EXCEPT ![j] = prospect] /\ over' = over \ {j}
      /\ UNCHANGED <<load, text, tool, rows, used, suppressed, submits, deaths, loose>>
  BY DEF BeginResearch, Look, Post
<1>2. \/ /\ pc' = [pc EXCEPT ![j] = "posted"] /\ clock' = clock + 1 /\ new' = new
         /\ started' = [started EXCEPT ![j] = clock + 1] /\ on' = [on EXCEPT ![j] = TRUE]
      \/ /\ pc' = [pc EXCEPT ![j] = "direct"] /\ new' = [new EXCEPT ![j] = Enriched(prospect)]
         /\ UNCHANGED <<started, on, clock>>
  BY DEF BeginResearch, Goto, Post
<1>3. TypeOK'
  <2>1. seen' \in [Jobs \cup Tools -> Prospect] /\ over' \subseteq Jobs \cup Tools
    BY <1>1 DEF IInv, TypeOK
  <2>2. new' \in [Jobs -> SUBSET Facts]
    BY <1>2, EnrichedIsFacts DEF IInv, TypeOK
  <2>3. pc' \in [Jobs -> Places]
    BY <1>2 DEF IInv, TypeOK, Places
  <2>4. started' \in [Jobs -> Nat] /\ on' \in [Jobs -> BOOLEAN] /\ clock' \in Nat
    <3>1. started \in [Jobs -> Nat] /\ on \in [Jobs -> BOOLEAN] /\ clock \in Nat /\ clock + 1 \in Nat
      BY DEF IInv, TypeOK
    <3>2. on' = on \/ on' = [on EXCEPT ![j] = TRUE]
      BY <1>2
    <3>3. on' \in [Jobs -> BOOLEAN]
      BY <3>1, <3>2
    <3>4. (started' = started \/ started' = [started EXCEPT ![j] = clock + 1]) /\ clock' \in {clock, clock + 1}
      BY <1>2
    <3>5. QED BY <3>1, <3>3, <3>4
  <2>5. QED BY <1>1, <2>1, <2>2, <2>3, <2>4 DEF IInv, TypeOK
<1>4. Placed'
  BY <1>1, <1>2 DEF IInv, TypeOK, Placed
<1>5. OneReader' /\ \A r \in Replies : Waiting(r)' => Waiting(r) /\ started'[r] = started[r]
  BY <1>1, <1>2 DEF IInv, TypeOK, OneReader, Reads, Waiting, Jobs
<1>6. Strays'
  <2>1. clock' \in Nat /\ clock' >= clock /\ Rows' = Rows
    BY <1>1, <1>2 DEF IInv, TypeOK, Rows
  <2>2. QED BY <1>1, <1>5, <2>1, StraysStay
<1>7. Past' /\ DecisionsReadOnce'
  <2>1. Past'
    BY <1>1, <1>2, <1>5, PastStays DEF IInv, TypeOK, Waiting
  <2>2. DecisionsReadOnce'
    BY <1>1, UsedStays
  <2>3. QED BY <2>1, <2>2
<1>8. Clean'
  BY <1>1, CleanStays DEF IInv, TypeOK
<1>9. Current'
  BY <1>1, <1>2, CurrentStays DEF IInv, TypeOK, Writers
<1>10. QED BY <1>1, <1>3, <1>4, <1>5, <1>6, <1>7, <1>8, <1>9, NothingLost DEF IInv

\* A research job that waits or looks: only its own place and readings change.
LEMMA ResearcherMoves ==
  ASSUME IInv, NEW j \in Researches, NEW place \in Places,
         pc' = [pc EXCEPT ![j] = place], place # "posted", place # "model",
         UNCHANGED <<load, text, started, tool, rows, clock, prospect, used, suppressed, bounds>>,
         on' = on \/ on' = [on EXCEPT ![j] = FALSE], pc[j] = "posted" => on' = [on EXCEPT ![j] = FALSE],
         loose' \in [Jobs -> BOOLEAN], \A i \in Jobs : loose[i] => loose'[i],
         new' \in [Jobs -> SUBSET Facts],
         \/ seen' = seen /\ over' = over /\ (place \in {"saving", "writing"} => pc[j] \in {"saving", "writing"})
         \/ seen' = [seen EXCEPT ![j] = Blank] /\ over' = over /\ place \notin {"saving", "writing"}
         \/ seen' = [seen EXCEPT ![j] = prospect] /\ over' = over \ {j}
  PROVE  IInv' /\ NoLoss
<1>1. j \in Jobs /\ j \notin Replies /\ j \notin Tools
  BY DEF Jobs
<1>2. TypeOK'
  <2>1. seen' \in [Jobs \cup Tools -> Prospect] /\ over' \subseteq Jobs \cup Tools
    BY BlankFits DEF IInv, TypeOK
  <2>2. on' \in [Jobs -> BOOLEAN]
    BY <1>1 DEF IInv, TypeOK
  <2>3. pc' \in [Jobs -> Places]
    BY DEF IInv, TypeOK
  <2>4. QED BY <2>1, <2>2, <2>3 DEF IInv, TypeOK
<1>3. Placed'
  BY <1>1 DEF IInv, TypeOK, Placed
<1>4. \A r \in Replies : pc'[r] = pc[r]
  BY <1>1 DEF IInv, TypeOK, Jobs
<1>5. OneReader'
  BY <1>4 DEF IInv, OneReader, Reads
<1>6. Strays'
  <2>1. clock' \in Nat /\ clock' >= clock /\ Rows' = Rows
    BY DEF IInv, TypeOK, Rows
  <2>2. QED BY <1>4, <2>1, StraysStay DEF Waiting
<1>7. Past' /\ DecisionsReadOnce'
  <2>1. Past'
    BY <1>4, PastStays DEF IInv, TypeOK, Waiting
  <2>2. DecisionsReadOnce'
    BY UsedStays
  <2>3. QED BY <2>1, <2>2
<1>8. Clean'
  <2>1. \A w \in Jobs \cup Tools : seen'[w] \in {seen[w], prospect, Blank}
    BY DEF IInv, TypeOK
  <2>2. QED BY <2>1, CleanStays
<1>9. Current'
  <2>1. ASSUME NEW w \in Writers' \ over'
        PROVE  (w \in Writers \ over /\ seen'[w] = seen[w]) \/ seen'[w] = prospect
    BY <1>1, <2>1 DEF IInv, TypeOK, Writers
  <2>2. QED BY <2>1, CurrentStays
<1>10. QED BY <1>2, <1>3, <1>5, <1>6, <1>7, <1>8, <1>9, NothingLost DEF IInv

LEMMA ResearchReturnsKeeps ==
  ASSUME IInv, NEW j \in Jobs, ResearchReturns(j) PROVE IInv' /\ NoLoss
<1>1. PICK goesOn \in BOOLEAN :
        /\ on' = [on EXCEPT ![j] = FALSE] /\ loose' = [loose EXCEPT ![j] = @ \/ goesOn]
        /\ UNCHANGED <<started, clock>>
        /\ \/ FactsCame(j)
           \/ Goto(j, "saving") /\ Look(j) /\ UNCHANGED <<prospect, new>>
           \/ Goto(j, "polling") /\ UNCHANGED <<person, reads>>
           \/ FallBack(j)
  BY DEF ResearchReturns, Return
<1>2. /\ j \in Researches /\ pc[j] = "posted"
      /\ UNCHANGED <<load, text, tool, rows, used, suppressed, bounds>>
  BY DEF ResearchReturns
<1>3. loose' \in [Jobs -> BOOLEAN] /\ \A i \in Jobs : loose[i] => loose'[i]
  BY <1>1 DEF IInv, TypeOK
<1>4. new \in [Jobs -> SUBSET Facts] /\ Enriched(seen[j]) \in SUBSET Facts
  BY EnrichedIsFacts DEF IInv, TypeOK
<1>5. CASE FactsCame(j)
  BY <1>1, <1>2, <1>3, <1>4, <1>5, ResearcherMoves DEF FactsCame, Goto, Places
<1>6. CASE Goto(j, "saving") /\ Look(j) /\ UNCHANGED <<prospect, new>>
  BY <1>1, <1>2, <1>3, <1>4, <1>6, ResearcherMoves DEF Look, Goto, Places
<1>7. CASE Goto(j, "polling") /\ UNCHANGED <<person, reads>>
  BY <1>1, <1>2, <1>3, <1>4, <1>7, ResearcherMoves DEF Goto, Places
<1>8. CASE FallBack(j)
  <2>1. new' \in [Jobs -> SUBSET Facts]
    BY <1>4, <1>8 DEF FallBack
  <2>2. QED BY <1>1, <1>2, <1>3, <1>8, <2>1, ResearcherMoves DEF FallBack, Goto, Places
<1>9. QED BY <1>1, <1>5, <1>6, <1>7, <1>8

LEMMA ResearchPollsKeeps ==
  ASSUME IInv, NEW j \in Jobs, ResearchPolls(j) PROVE IInv' /\ NoLoss
<1>1. /\ j \in Researches /\ pc[j] = "polling" /\ (FactsCame(j) \/ FallBack(j))
      /\ UNCHANGED <<load, text, started, on, loose, tool, rows, clock, used, suppressed, bounds>>
  BY DEF ResearchPolls
<1>2. loose \in [Jobs -> BOOLEAN] /\ new \in [Jobs -> SUBSET Facts] /\ Enriched(seen[j]) \in SUBSET Facts
  BY EnrichedIsFacts DEF IInv, TypeOK
<1>3. CASE FactsCame(j)
  BY <1>1, <1>2, <1>3, ResearcherMoves DEF FactsCame, Goto, Places
<1>4. CASE FallBack(j)
  <2>1. new' \in [Jobs -> SUBSET Facts]
    BY <1>2, <1>4 DEF FallBack
  <2>2. QED BY <1>1, <1>2, <1>4, <2>1, ResearcherMoves DEF FallBack, Goto, Places
<1>5. QED BY <1>1, <1>3, <1>4

LEMMA LookAgainKeeps ==
  ASSUME IInv, NEW j \in Jobs, LookAgain(j) PROVE IInv' /\ NoLoss
<1>1. j \in Researches
  BY DEF IInv, Placed, LookAgain
<1>2. loose \in [Jobs -> BOOLEAN] /\ new \in [Jobs -> SUBSET Facts]
  BY DEF IInv, TypeOK
<1>3. QED BY <1>1, <1>2, ResearcherMoves DEF LookAgain, Look, Goto, Places

LEMMA SaveAnswerKeeps ==
  ASSUME IInv, NEW j \in Jobs, SaveAnswer(j) PROVE IInv' /\ NoLoss
<1>1. PICK result \in Results : Put(j, Saved(seen[j], result))
  BY DEF SaveAnswer
<1>2. /\ pc[j] = "saving" /\ pc' = [pc EXCEPT ![j] = "done"] /\ clock' = clock + 1
      /\ rows' = rows \cup {[of |-> j, at |-> clock + 1, answer |-> "facts"]}
      /\ UNCHANGED <<load, text, started, on, loose, tool, new, used, suppressed, bounds>>
  BY DEF SaveAnswer, Goto
<1>3. j \in Researches /\ j \notin Replies /\ j \in Writers /\ j \notin Tools
  BY <1>2 DEF IInv, Placed, Writers, Jobs
<1>4. seen[j] \in Prospect /\ Fits(seen[j])
  BY DEF IInv, TypeOK, Clean
<1>5. Writers' \subseteq Writers \ {j} /\ Writes(j)
  BY <1>2, <1>3 DEF IInv, TypeOK, Writers, Writes
<1>6. /\ Clean' /\ Current' /\ NoLoss
      /\ prospect' \in Prospect /\ seen' \in [Jobs \cup Tools -> Prospect] /\ over' \subseteq Jobs \cup Tools
  BY <1>1, <1>3, <1>4, <1>5, SavedFits, PutKeeps
<1>7. TypeOK'
  <2>1. pc' \in [Jobs -> Places]
    BY <1>2 DEF IInv, TypeOK, Places
  <2>2. rows' \subseteq Row /\ clock' \in Nat
    BY <1>2 DEF IInv, TypeOK, Row, Answers
  <2>3. QED BY <1>2, <1>6, <2>1, <2>2 DEF IInv, TypeOK
<1>8. Placed'
  BY <1>2, <1>3 DEF IInv, TypeOK, Placed
<1>9. OneReader' /\ \A r \in Replies : Waiting(r)' <=> Waiting(r)
  BY <1>2, <1>3 DEF IInv, TypeOK, OneReader, Reads, Waiting, Jobs
<1>10. Strays'
  <2>1. Rows' = Rows \cup {[of |-> j, at |-> clock + 1, answer |-> "facts"]}
    BY <1>2 DEF Rows
  <2>2. QED BY <1>2, <1>3, <1>9, <2>1, RowsTyped DEF IInv, TypeOK, Strays, Row
<1>11. Past' /\ DecisionsReadOnce'
  <2>1. Past'
    BY <1>2, <1>9, PastStays DEF IInv, TypeOK, Waiting
  <2>2. DecisionsReadOnce'
    BY <1>2, UsedStays
  <2>3. QED BY <2>1, <2>2
<1>12. QED BY <1>6, <1>7, <1>8, <1>9, <1>10, <1>11 DEF IInv

LEMMA WriteRecordKeeps ==
  ASSUME IInv, NEW j \in Jobs, WriteRecord(j) PROVE IInv' /\ NoLoss
<1>1. /\ pc[j] = "writing" /\ pc' = [pc EXCEPT ![j] = "done"] /\ new' = [new EXCEPT ![j] = {}]
      /\ UNCHANGED <<load, text, started, on, loose, tool, rows, clock, used, suppressed, bounds>>
  BY DEF WriteRecord, Goto
<1>2. j \in Researches /\ j \notin Replies /\ j \in Writers /\ j \notin Tools
  BY <1>1 DEF IInv, Placed, Writers, Jobs
<1>3. new' \in [Jobs -> SUBSET Facts] /\ loose \in [Jobs -> BOOLEAN]
  BY <1>1 DEF IInv, TypeOK
<1>4. CASE seen[j].researched
  <2>1. seen' = [seen EXCEPT ![j] = Blank] /\ UNCHANGED <<prospect, over>>
    BY <1>4 DEF WriteRecord
  <2>2. QED BY <1>1, <1>2, <1>3, <2>1, ResearcherMoves DEF Places
<1>5. CASE ~seen[j].researched
  <2>1. Put(j, Recorded(seen[j], new[j]))
    BY <1>5 DEF WriteRecord
  <2>2. seen[j] \in Prospect /\ Fits(seen[j]) /\ new[j] \in SUBSET Facts
    BY DEF IInv, TypeOK, Clean
  <2>3. Writers' \subseteq Writers \ {j} /\ Writes(j)
    BY <1>1, <1>2 DEF IInv, TypeOK, Writers, Writes
  <2>4. /\ Clean' /\ Current' /\ NoLoss
        /\ prospect' \in Prospect /\ seen' \in [Jobs \cup Tools -> Prospect] /\ over' \subseteq Jobs \cup Tools
    BY <1>2, <2>1, <2>2, <2>3, RecordedFits, PutKeeps
  <2>5. TypeOK'
    <3>1. pc' \in [Jobs -> Places]
      BY <1>1 DEF IInv, TypeOK, Places
    <3>2. QED BY <1>1, <1>3, <2>4, <3>1 DEF IInv, TypeOK
  <2>6. Placed'
    BY <1>1, <1>2 DEF IInv, TypeOK, Placed
  <2>7. OneReader' /\ \A r \in Replies : Waiting(r)' <=> Waiting(r)
    BY <1>1, <1>2 DEF IInv, TypeOK, OneReader, Reads, Waiting, Jobs
  <2>8. Strays'
    <3>1. clock' \in Nat /\ clock' >= clock /\ Rows' = Rows
      BY <1>1 DEF IInv, TypeOK, Rows
    <3>2. QED BY <1>1, <2>7, <3>1, StraysStay
  <2>9. Past' /\ DecisionsReadOnce'
    <3>1. Past'
      BY <1>1, <2>7, PastStays DEF IInv, TypeOK, Waiting
    <3>2. DecisionsReadOnce'
      BY <1>1, UsedStays
    <3>3. QED BY <3>1, <3>2
  <2>10. QED BY <2>4, <2>5, <2>6, <2>7, <2>8, <2>9 DEF IInv
<1>6. QED BY <1>4, <1>5

-----------------------------------------------------------------------------
(* Replies.                                                                *)

\* A reading that comes to no decision: only its own place changes.
LEMMA ReaderMoves ==
  ASSUME IInv, NEW r \in Replies, NEW place \in {"polling", "model", "refused"},
         pc' = [pc EXCEPT ![r] = place],
         place = "polling" => pc[r] = "posted",
         place = "model" => r \in Reads \/ Reads = {},
         UNCHANGED <<load, text, started, tool, rows, clock, person, reads, used, suppressed, bounds>>,
         on' = on \/ on' = [on EXCEPT ![r] = FALSE], pc[r] = "posted" => on' = [on EXCEPT ![r] = FALSE],
         loose' \in [Jobs -> BOOLEAN], \A i \in Jobs : loose[i] => loose'[i]
  PROVE  IInv' /\ NoLoss
<1>1. r \in Jobs /\ r \notin Researches /\ r \notin Tools
  BY DEF Jobs
<1>2. TypeOK'
  <2>1. on' \in [Jobs -> BOOLEAN]
    BY <1>1 DEF IInv, TypeOK
  <2>2. pc' \in [Jobs -> Places]
    BY <1>1 DEF IInv, TypeOK, Places
  <2>3. QED BY <2>1, <2>2 DEF IInv, TypeOK
<1>3. Placed'
  BY <1>1 DEF IInv, TypeOK, Placed
<1>4. OneReader'
  BY <1>1 DEF IInv, TypeOK, OneReader, Reads
<1>5. Strays'
  <2>1. clock' \in Nat /\ clock' >= clock /\ Rows' = Rows
    BY DEF IInv, TypeOK, Rows
  <2>2. \A s \in Replies : Waiting(s)' => Waiting(s) /\ started'[s] = started[s]
    BY <1>1 DEF IInv, TypeOK, Waiting
  <2>3. QED BY <2>1, <2>2, StraysStay
<1>6. Past' /\ DecisionsReadOnce'
  <2>1. Past'
    BY <1>1, PastStays DEF IInv, TypeOK, Waiting
  <2>2. DecisionsReadOnce'
    BY UsedStays
  <2>3. QED BY <2>1, <2>2
<1>7. Clean'
  BY CleanStays
<1>8. Current'
  BY <1>1, CurrentStays DEF IInv, TypeOK, Writers
<1>9. QED BY <1>2, <1>3, <1>4, <1>5, <1>6, <1>7, <1>8, NothingLost DEF IInv

\* A reading ends on a decision of its own agent, or of a loose one.
LEMMA TakeKeeps ==
  ASSUME IInv, NEW r \in Replies, NEW by \in Readers, NEW x \in Row, NEW cls \in Classes,
         Take(r, by, x, cls), x.of = r \/ loose[x.of],
         by = "hosted" => Waiting(r) /\ x.at >= started[r] /\ x.at <= clock,
         UNCHANGED <<load, text, started, tool, rows, clock, person, reads, bounds>>,
         on' = on \/ on' = [on EXCEPT ![r] = FALSE], pc[r] = "posted" => on' = [on EXCEPT ![r] = FALSE],
         loose' \in [Jobs -> BOOLEAN], \A i \in Jobs : loose[i] => loose'[i]
  PROVE  IInv' /\ NoLoss
<1> DEFINE reading == [by |-> by, row |-> x, cls |-> cls]
<1>1. r \in Jobs /\ r \notin Researches /\ r \notin Tools
  BY DEF Jobs
<1>2. /\ used' = [used EXCEPT ![r] = reading] /\ pc' = [pc EXCEPT ![r] = "done"]
      /\ suppressed' = (suppressed \/ cls = "unsubscribe")
  BY DEF Take, Goto
<1>3. TypeOK'
  <2>1. on' \in [Jobs -> BOOLEAN]
    BY <1>1 DEF IInv, TypeOK
  <2>2. pc' \in [Jobs -> Places]
    BY <1>1, <1>2 DEF IInv, TypeOK, Places
  <2>3. reading \in Reading
    BY DEF Reading
  <2>4. used' \in [Replies -> Reading \cup {Nobody}]
    BY <1>2, <2>3 DEF IInv, TypeOK
  <2>5. suppressed' \in BOOLEAN
    BY <1>2
  <2>6. QED BY <2>1, <2>2, <2>4, <2>5 DEF IInv, TypeOK
<1>4. Placed'
  BY <1>1, <1>2 DEF IInv, TypeOK, Placed
<1>5. OneReader'
  BY <1>1, <1>2 DEF IInv, TypeOK, OneReader, Reads
<1>6. Strays'
  <2>1. clock' \in Nat /\ clock' >= clock /\ Rows' = Rows
    BY DEF IInv, TypeOK, Rows
  <2>2. \A s \in Replies : Waiting(s)' => Waiting(s) /\ started'[s] = started[s]
    BY <1>1, <1>2 DEF IInv, TypeOK, Waiting
  <2>3. QED BY <2>1, <2>2, StraysStay
<1>7. Past' /\ DecisionsReadOnce'
  <2>0. used'[r] = reading /\ \A s \in Replies \ {r} : used'[s] = used[s]
    BY <1>2 DEF IInv, TypeOK
  <2>1. reading.by = by /\ reading.row = x /\ x.at \in Nat /\ x.of \in Jobs
    BY DEF Row
  <2>2. \A s \in Replies : Waiting(s)' => s # r /\ Waiting(s) /\ started'[s] = started[s]
    BY <1>1, <1>2 DEF IInv, TypeOK, Waiting
  <2>3. by = "hosted" => \A s \in Replies : ~Waiting(s)'
    BY <2>2 DEF IInv, OneReader, Reads, Waiting
  <2>4. Past'
    <3> SUFFICES ASSUME NEW s \in Replies, used'[s].by = "hosted"
                 PROVE  /\ used'[s].row.at <= clock
                        /\ \A q \in Replies : Waiting(q)' => used'[s].row.at < started'[q]
      BY DEF Past
    <3>1. CASE s = r
      BY <2>0, <2>1, <2>3, <3>1
    <3>2. CASE s # r
      BY <2>0, <2>2, <3>2 DEF IInv, Past
    <3>3. QED BY <3>1, <3>2
  <2>5. by = "hosted" => \A s \in Replies \ {r} : used[s].by = "hosted" => used[s].row # x
    <3> SUFFICES ASSUME by = "hosted", NEW s \in Replies \ {r}, used[s].by = "hosted", used[s].row = x PROVE FALSE
      OBVIOUS
    <3>1. x.at < started[r]
      BY DEF IInv, Past
    <3>2. started[r] \in Nat /\ x.at >= started[r]
      BY <1>1 DEF IInv, TypeOK
    <3>3. QED BY <2>1, <3>1, <3>2
  <2>6. \A s \in Replies : used[s].by = "hosted" => used[s].row.of \in Jobs
    BY HostedRows
  <2>7. DecisionsReadOnce'
    <3> SUFFICES ASSUME NEW s \in Replies, used'[s].by = "hosted"
                 PROVE  /\ used'[s].row.of # s => loose'[used'[s].row.of]
                        /\ \A q \in Replies \ {s} : used'[q].by = "hosted" => used'[q].row # used'[s].row
      BY DEF DecisionsReadOnce
    <3>1. CASE s = r
      BY <2>0, <2>1, <2>5, <3>1
    <3>2. CASE s # r
      <4>1. used'[s].row.of # s => loose'[used'[s].row.of]
        BY <2>0, <2>6, <3>2 DEF IInv, DecisionsReadOnce
      <4>2. \A q \in Replies \ {s, r} : used'[q].by = "hosted" => used'[q].row # used'[s].row
        BY <2>0, <3>2 DEF IInv, DecisionsReadOnce
      <4>3. used'[r].by = "hosted" => used'[r].row # used'[s].row
        BY <2>0, <2>1, <2>5, <3>2
      <4>4. QED BY <4>1, <4>2, <4>3
    <3>3. QED BY <3>1, <3>2
  <2>8. QED BY <2>4, <2>7
<1>8. Clean'
  BY CleanStays
<1>9. Current'
  BY <1>1, <1>2, CurrentStays DEF IInv, TypeOK, Writers
<1>10. QED BY <1>3, <1>4, <1>5, <1>6, <1>7, <1>8, <1>9, NothingLost DEF IInv

\* ClassOf() gives a class, whatever the answer.
LEMMA ClassIsOne ==
  ASSUME NEW answer, NEW low \in BOOLEAN PROVE ClassOf(answer, low) \in Classes
BY DEF ClassOf, Classes

\* An answer of one's own, as a row.
LEMMA SaidIsRow ==
  ASSUME NEW r \in Replies, NEW answer \in Answers PROVE Said(r, answer) \in Row /\ Said(r, answer).of = r
BY DEF Said, Row, Jobs

\* What a waiting reply takes comes of its own agent or of a loose one.
LEMMA SubmittedKeeps ==
  ASSUME IInv, NEW r \in Replies, Waiting(r), TakeSubmitted(r),
         UNCHANGED <<load, text, started, tool, rows, clock, person, reads, bounds>>,
         on' = on \/ on' = [on EXCEPT ![r] = FALSE], pc[r] = "posted" => on' = [on EXCEPT ![r] = FALSE],
         loose' \in [Jobs -> BOOLEAN], \A i \in Jobs : loose[i] => loose'[i]
  PROVE  IInv' /\ NoLoss
<1>1. PICK x \in Newest(Since(r)) : TakeAnswer(r, "hosted", x)
  BY DEF TakeSubmitted
<1>2. PICK low \in BOOLEAN : Take(r, "hosted", x, ClassOf(x.answer, low))
  BY <1>1 DEF TakeAnswer
<1>3. x \in rows /\ Same(x.of, r) /\ x.at >= started[r]
  BY <1>1 DEF Newest, Since
<1>4. x \in Row /\ x \in Rows
  BY <1>3 DEF IInv, TypeOK, Rows
<1>5. x.at <= clock
  BY <1>4 DEF IInv, Strays
<1>6. x.of = r \/ loose[x.of]
  BY <1>3, <1>4 DEF IInv, Strays, Same
<1>7. "hosted" \in Readers /\ ClassOf(x.answer, low) \in Classes
  BY ClassIsOne DEF Readers
<1>8. QED BY <1>2, <1>3, <1>4, <1>5, <1>6, <1>7, TakeKeeps

\* What the direct provider or the agent's own answer says.
LEMMA OwnAnswerKeeps ==
  ASSUME IInv, NEW r \in Replies, NEW by \in {"inline", "model"},
         \E answer \in Answers \ {"facts"} : TakeAnswer(r, by, Said(r, answer)),
         UNCHANGED <<load, text, started, tool, rows, clock, person, reads, bounds>>,
         on' = on \/ on' = [on EXCEPT ![r] = FALSE], pc[r] = "posted" => on' = [on EXCEPT ![r] = FALSE],
         loose' \in [Jobs -> BOOLEAN], \A i \in Jobs : loose[i] => loose'[i]
  PROVE  IInv' /\ NoLoss
<1>1. PICK answer \in Answers : TakeAnswer(r, by, Said(r, answer))
  OBVIOUS
<1>2. PICK low \in BOOLEAN : Take(r, by, Said(r, answer), ClassOf(Said(r, answer).answer, low))
  BY <1>1 DEF TakeAnswer
<1>3. by \in Readers /\ by # "hosted" /\ ClassOf(Said(r, answer).answer, low) \in Classes
  BY ClassIsOne DEF Readers
<1>4. QED BY <1>2, <1>3, SaidIsRow, TakeKeeps

LEMMA BeginReadingKeeps ==
  ASSUME IInv, NEW r \in Jobs, BeginReading(r) PROVE IInv' /\ NoLoss
<1>1. /\ r \in Replies /\ pc[r] = "idle" /\ Reads = {}
      /\ UNCHANGED <<load, text, tool, rows, person, reads, bounds>>
  BY DEF BeginReading
<1>2. loose \in [Jobs -> BOOLEAN] /\ r \notin Researches /\ r \notin Tools
  BY <1>1 DEF IInv, TypeOK
<1>3. CASE Take(r, "rules", Said(r, "unsubscribe"), "unsubscribe") /\ UNCHANGED <<started, on, loose, clock>>
  BY <1>1, <1>2, <1>3, SaidIsRow, TakeKeeps DEF Readers, Answers, Classes
<1>4. CASE Goto(r, "model") /\ UNCHANGED <<started, on, loose, clock, used, suppressed>>
  BY <1>1, <1>2, <1>4, ReaderMoves DEF Goto
<1>5. CASE Post(r) /\ UNCHANGED <<used, suppressed>>
  <2>1. /\ pc' = [pc EXCEPT ![r] = "posted"] /\ clock' = clock + 1 /\ loose' = loose
        /\ started' = [started EXCEPT ![r] = clock + 1] /\ on' = [on EXCEPT ![r] = TRUE]
    BY <1>5 DEF Post, Goto
  <2>2. TypeOK'
    <3>1. pc' \in [Jobs -> Places]
      BY <2>1 DEF IInv, TypeOK, Places
    <3>2. on' \in [Jobs -> BOOLEAN]
      BY <2>1 DEF IInv, TypeOK
    <3>3. clock' \in Nat /\ started' \in [Jobs -> Nat]
      BY <2>1 DEF IInv, TypeOK
    <3>4. QED BY <1>1, <1>5, <2>1, <3>1, <3>2, <3>3 DEF IInv, TypeOK
  <2>3. Placed'
    BY <1>1, <1>2, <2>1 DEF IInv, TypeOK, Placed
  <2>4. Reads' = {r}
    BY <1>1, <2>1 DEF IInv, TypeOK, Reads
  <2>5. OneReader'
    BY <2>4 DEF OneReader
  <2>6. Strays'
    <3>1. Rows' = Rows /\ clock \in Nat
      BY <1>1 DEF IInv, TypeOK, Rows
    <3>2. started'[r] = clock + 1
      BY <2>1 DEF IInv, TypeOK
    <3>3. ASSUME NEW x \in Rows PROVE x.at \in Nat /\ x.at <= clock
      BY <3>3, RowsTyped DEF IInv, Strays, Row
    <3>4. \A s \in Replies : Waiting(s)' => s = r
      BY <2>4 DEF Waiting, Reads
    <3>5. QED BY <2>1, <3>1, <3>2, <3>3, <3>4 DEF Strays
  <2>7. Past' /\ DecisionsReadOnce'
    <3>1. started'[r] = clock + 1 /\ clock \in Nat
      BY <2>1 DEF IInv, TypeOK
    <3>2. \A s \in Replies : Waiting(s)' => s = r
      BY <2>4 DEF Waiting, Reads
    <3>3. Past'
      BY <1>5, <2>1, <3>1, <3>2, PastStays
    <3>4. DecisionsReadOnce'
      BY <1>5, <2>1, UsedStays
    <3>5. QED BY <3>3, <3>4
  <2>8. Clean'
    BY <1>1, CleanStays
  <2>9. Current'
    BY <1>1, <1>2, <2>1, CurrentStays DEF IInv, TypeOK, Writers
  <2>10. QED BY <1>1, <2>2, <2>3, <2>5, <2>6, <2>7, <2>8, <2>9, NothingLost DEF IInv
<1>6. QED BY <1>3, <1>4, <1>5 DEF BeginReading

LEMMA LockTimesOutKeeps ==
  ASSUME IInv, NEW r \in Jobs, LockTimesOut(r) PROVE IInv' /\ NoLoss
<1>1. loose \in [Jobs -> BOOLEAN] /\ r \in Replies
  BY DEF IInv, TypeOK, LockTimesOut
<1>2. QED BY <1>1, ReaderMoves DEF LockTimesOut, Goto

LEMMA ReplyReturnsKeeps ==
  ASSUME IInv, NEW r \in Jobs, ReplyReturns(r) PROVE IInv' /\ NoLoss
<1>1. /\ r \in Replies /\ pc[r] = "posted" /\ Waiting(r) /\ r \in Reads
      /\ UNCHANGED <<load, text, tool, rows, person, reads, bounds>>
  BY DEF ReplyReturns, Waiting, Reads
<1>2. PICK goesOn \in BOOLEAN :
        /\ Return(r, goesOn)
        /\ \/ TakeSubmitted(r)
           \/ \E answer \in Answers \ {"facts"} : TakeAnswer(r, "inline", Said(r, answer))
           \/ Goto(r, "polling") /\ UNCHANGED <<used, suppressed>>
           \/ Goto(r, "model") /\ UNCHANGED <<used, suppressed>>
  BY DEF ReplyReturns
<1>3. /\ on' = [on EXCEPT ![r] = FALSE] /\ UNCHANGED <<started, clock>>
      /\ loose' \in [Jobs -> BOOLEAN] /\ \A i \in Jobs : loose[i] => loose'[i]
  BY <1>2 DEF IInv, TypeOK, Return
<1>4. CASE TakeSubmitted(r)
  BY <1>1, <1>3, <1>4, SubmittedKeeps
<1>5. CASE \E answer \in Answers \ {"facts"} : TakeAnswer(r, "inline", Said(r, answer))
  BY <1>1, <1>3, <1>5, OwnAnswerKeeps
<1>6. CASE Goto(r, "polling") /\ UNCHANGED <<used, suppressed>>
  BY <1>1, <1>3, <1>6, ReaderMoves DEF Goto
<1>7. CASE Goto(r, "model") /\ UNCHANGED <<used, suppressed>>
  BY <1>1, <1>3, <1>7, ReaderMoves DEF Goto
<1>8. QED BY <1>2, <1>4, <1>5, <1>6, <1>7

LEMMA ReplyPollsKeeps ==
  ASSUME IInv, NEW r \in Jobs, ReplyPolls(r) PROVE IInv' /\ NoLoss
<1>1. /\ r \in Replies /\ pc[r] = "polling" /\ Waiting(r) /\ r \in Reads
      /\ UNCHANGED <<load, text, started, on, loose, tool, rows, clock, person, reads, bounds>>
  BY DEF ReplyPolls, Waiting, Reads
<1>2. loose \in [Jobs -> BOOLEAN]
  BY DEF IInv, TypeOK
<1>3. CASE TakeSubmitted(r)
  BY <1>1, <1>2, <1>3, SubmittedKeeps
<1>4. CASE Goto(r, "model") /\ UNCHANGED <<used, suppressed>>
  BY <1>1, <1>2, <1>4, ReaderMoves DEF Goto
<1>5. QED BY <1>3, <1>4 DEF ReplyPolls

LEMMA ReadDirectlyKeeps ==
  ASSUME IInv, NEW r \in Jobs, ReadDirectly(r) PROVE IInv' /\ NoLoss
<1>1. /\ r \in Replies /\ r \in Jobs /\ pc[r] = "model" /\ loose \in [Jobs -> BOOLEAN]
      /\ UNCHANGED <<load, text, started, on, loose, tool, rows, clock, person, reads, bounds>>
  BY DEF IInv, TypeOK, Placed, ReadDirectly
<1>2. CASE \E answer \in Answers \ {"facts"} : TakeAnswer(r, "model", Said(r, answer))
  BY <1>1, <1>2, OwnAnswerKeeps
<1>3. CASE \E cls \in {"positive", "question"} : Take(r, "rules", Said(r, "interested"), cls)
  BY <1>1, <1>3, SaidIsRow, TakeKeeps DEF Readers, Answers, Classes
<1>4. QED BY <1>2, <1>3 DEF ReadDirectly

-----------------------------------------------------------------------------
(* Tool calls and deaths.                                                  *)

LEMMA ToolBeginsKeeps ==
  ASSUME IInv, NEW t \in Tools, ToolBegins(t) PROVE IInv' /\ NoLoss
<1>1. /\ tool[t] = IdleCall /\ submits > 0 /\ submits' = submits - 1 /\ clock' = clock + 1
      /\ seen' = [seen EXCEPT ![t] = prospect] /\ over' = over \ {t}
      /\ UNCHANGED <<load, text, pc, started, on, loose, rows, prospect, new, used, suppressed, deaths>>
  BY DEF ToolBegins, Look
<1>2. PICK j \in Jobs :
        /\ on[j] \/ loose[j]
        /\ \E answer \in IF j \in Replies THEN Answers \ {"facts"} ELSE {"facts"}, result \in Results :
             tool' = [tool EXCEPT ![t] = [of |-> j, at |-> clock + 1, answer |-> answer, result |-> result]]
  BY DEF ToolBegins
<1>3. PICK answer \in Answers, result \in Results :
        tool' = [tool EXCEPT ![t] = [of |-> j, at |-> clock + 1, answer |-> answer, result |-> result]]
  BY <1>2 DEF Answers
<1> DEFINE opened == [of |-> j, at |-> clock + 1, answer |-> answer, result |-> result]
           row == [of |-> j, at |-> clock + 1, answer |-> answer]
<1>4. t \notin Jobs /\ tool'[t] = opened /\ \A u \in Tools \ {t} : tool'[u] = tool[u]
  BY <1>3 DEF IInv, TypeOK, Jobs
<1>5. TypeOK'
  <2>1. seen' \in [Jobs \cup Tools -> Prospect] /\ over' \subseteq Jobs \cup Tools
    BY <1>1 DEF IInv, TypeOK
  <2>2. opened \in Call
    BY DEF IInv, TypeOK, Call
  <2>3. tool' \in [Tools -> Call \cup {IdleCall}]
    BY <1>3, <2>2 DEF IInv, TypeOK
  <2>4. clock' \in Nat /\ submits' \in 0 .. Submits
    BY <1>1 DEF IInv, TypeOK
  <2>5. QED BY <1>1, <2>1, <2>3, <2>4 DEF IInv, TypeOK
<1>6. Placed' /\ OneReader'
  BY <1>1 DEF IInv, Placed, OneReader, Reads
<1>7. Strays'
  <2>1. Rows' \subseteq Rows \cup {row}
    <3>1. ASSUME NEW u \in Tools, tool'[u] # IdleCall
          PROVE  [of |-> tool'[u].of, at |-> tool'[u].at, answer |-> tool'[u].answer] \in Rows \cup {row}
      <4>1. CASE u = t
        <5>1. tool'[u].of = j /\ tool'[u].at = clock + 1 /\ tool'[u].answer = answer
          BY <1>4, <4>1
        <5>2. QED BY <5>1
      <4>2. CASE u # t
        BY <1>4, <3>1, <4>2 DEF Rows
      <4>3. QED BY <4>1, <4>2
    <3>2. rows \subseteq Rows
      BY DEF Rows
    <3>3. ASSUME NEW x \in Rows' PROVE x \in Rows \cup {row}
      <4>1. CASE x \in rows'
        BY <1>1, <3>2, <4>1
      <4>2. CASE x \notin rows'
        <5>1. PICK u \in Tools :
                /\ tool'[u] # IdleCall
                /\ x = [of |-> tool'[u].of, at |-> tool'[u].at, answer |-> tool'[u].answer]
          BY <4>2 DEF Rows
        <5>2. QED BY <3>1, <5>1
      <4>3. QED BY <4>1, <4>2
    <3>4. QED BY <3>3
  <2>2. ASSUME NEW x \in Rows' PROVE x.at <= clock'
    <3>1. CASE x \in Rows
      <4>1. x.at \in Nat /\ x.at <= clock /\ clock \in Nat
        BY <3>1, RowsTyped DEF IInv, TypeOK, Strays, Row
      <4>2. QED BY <1>1, <4>1
    <3>2. CASE x = row
      <4>1. x.at = clock + 1 /\ clock + 1 \in Nat
        BY <3>2 DEF IInv, TypeOK
      <4>2. QED BY <1>1, <4>1
    <3>3. QED BY <2>1, <3>1, <3>2
  <2>3. ASSUME NEW r \in Replies, NEW x \in Rows',
               Waiting(r)', x.of \in Replies, x.of # r, x.at >= started'[r]
        PROVE  loose'[x.of]
    <3>1. CASE x \in Rows
      BY <1>1, <2>3, <3>1 DEF IInv, Strays, Waiting
    <3>2. CASE x = row
      <4>1. x.of = j
        BY <3>2
      <4>2. ~on[j]
        BY <1>1, <2>3, <4>1 DEF IInv, Placed, OneReader, Reads, Waiting
      <4>3. QED BY <1>1, <1>2, <4>1, <4>2
    <3>3. QED BY <2>1, <3>1, <3>2
  <2>4. QED BY <2>2, <2>3 DEF Strays
<1>8. Past' /\ DecisionsReadOnce'
  <2>1. Past'
    BY <1>1, PastStays DEF IInv, TypeOK, Waiting
  <2>2. DecisionsReadOnce'
    BY <1>1, UsedStays
  <2>3. QED BY <2>1, <2>2
<1>9. Clean'
  <2>1. \A w \in Jobs \cup Tools : seen'[w] \in {seen[w], prospect, Blank}
    BY <1>1 DEF IInv, TypeOK
  <2>2. QED BY <1>1, <2>1, CleanStays
<1>10. Current'
  <2>1. ASSUME NEW w \in Writers' \ over'
        PROVE  (w \in Writers \ over /\ seen'[w] = seen[w]) \/ seen'[w] = prospect
    <3>1. w \in Jobs \cup Tools
      BY <2>1 DEF Writers
    <3>2. CASE w = t
      BY <1>1, <3>1, <3>2 DEF IInv, TypeOK
    <3>3. CASE w # t
      BY <1>1, <1>4, <2>1, <3>1, <3>3 DEF IInv, TypeOK, Writers
    <3>4. QED BY <3>2, <3>3
  <2>2. QED BY <1>1, <2>1, CurrentStays
<1>11. QED BY <1>1, <1>5, <1>6, <1>7, <1>8, <1>9, <1>10, NothingLost DEF IInv

LEMMA ToolCommitsKeeps ==
  ASSUME IInv, NEW t \in Tools, ToolCommits(t) PROVE IInv' /\ NoLoss
<1> DEFINE row == [of |-> tool[t].of, at |-> tool[t].at, answer |-> tool[t].answer]
<1>1. /\ tool[t] # IdleCall /\ rows' = rows \cup {row} /\ tool' = [tool EXCEPT ![t] = IdleCall]
      /\ UNCHANGED <<load, text, waits, clock, new, used, suppressed, bounds>>
  BY DEF ToolCommits
<1>2. tool[t] \in Call /\ t \in Writers /\ t \notin Jobs
  BY <1>1 DEF IInv, TypeOK, Writers, Jobs
<1>3. row \in Row /\ row \in Rows /\ tool[t].result \in Results
  BY <1>1, <1>2 DEF Call, Row, Rows
<1>4. tool' \in [Tools -> Call \cup {IdleCall}] /\ rows' \subseteq Row
  BY <1>1, <1>3 DEF IInv, TypeOK
<1>5. Placed' /\ OneReader'
  BY <1>1 DEF IInv, Placed, OneReader, Reads
<1>6. Strays'
  <2>1. Rows' \subseteq Rows
    <3>1. ASSUME NEW u \in Tools, tool'[u] # IdleCall PROVE tool'[u] = tool[u] /\ tool[u] # IdleCall
      BY <1>1, <3>1 DEF IInv, TypeOK
    <3>2. rows' \subseteq Rows
      BY <1>1, <1>3 DEF Rows
    <3>3. QED BY <3>1, <3>2 DEF Rows
  <2>2. clock' \in Nat /\ clock' >= clock
    BY <1>1 DEF IInv, TypeOK
  <2>3. QED BY <1>1, <2>1, <2>2, StraysStay DEF Waiting
<1>7. Past' /\ DecisionsReadOnce'
  <2>1. Past'
    BY <1>1, PastStays DEF IInv, TypeOK, Waiting
  <2>2. DecisionsReadOnce'
    BY <1>1, UsedStays
  <2>3. QED BY <2>1, <2>2
<1>8. Writers' \subseteq Writers \ {t} /\ Writes(t)
  BY <1>1, <1>2 DEF IInv, TypeOK, Writers, Writes
<1>9. CASE tool[t].of \in Researches
  <2>1. Put(t, Saved(seen[t], tool[t].result))
    BY <1>9 DEF ToolCommits
  <2>2. seen[t] \in Prospect /\ Fits(seen[t])
    BY DEF IInv, TypeOK, Clean
  <2>3. /\ Clean' /\ Current' /\ NoLoss
        /\ prospect' \in Prospect /\ seen' \in [Jobs \cup Tools -> Prospect] /\ over' \subseteq Jobs \cup Tools
    BY <1>2, <1>3, <1>8, <2>1, <2>2, SavedFits, PutKeeps
  <2>4. TypeOK'
    BY <1>1, <1>4, <2>3 DEF IInv, TypeOK
  <2>5. QED BY <1>5, <1>6, <1>7, <2>3, <2>4 DEF IInv
<1>10. CASE tool[t].of \notin Researches
  <2>1. UNCHANGED <<person, seen>>
    BY <1>10 DEF ToolCommits
  <2>2. TypeOK'
    BY <1>1, <1>4, <2>1 DEF IInv, TypeOK
  <2>3. Clean'
    BY <2>1, CleanStays
  <2>4. Current'
    BY <1>8, <2>1, CurrentStays
  <2>5. QED BY <1>5, <1>6, <1>7, <2>1, <2>2, <2>3, <2>4, NothingLost DEF IInv
<1>11. QED BY <1>9, <1>10

LEMMA DiesKeeps ==
  ASSUME IInv, NEW j \in Jobs, Dies(j) PROVE IInv' /\ NoLoss
<1>1. /\ deaths > 0 /\ deaths' = deaths - 1
      /\ pc' = [pc EXCEPT ![j] = IF j \in Replies THEN "refused" ELSE "idle"]
      /\ on' = [on EXCEPT ![j] = FALSE] /\ loose' = [loose EXCEPT ![j] = @ \/ on[j]]
      /\ seen' = [seen EXCEPT ![j] = Blank] /\ new' = [new EXCEPT ![j] = {}] /\ over' = over \ {j}
      /\ UNCHANGED <<load, text, started, tool, rows, clock, prospect, used, suppressed, submits>>
  BY DEF Dies, Goto
<1>2. j \notin Tools
  BY DEF Jobs
<1>3. TypeOK'
  <2>1. pc' \in [Jobs -> Places]
    BY <1>1 DEF IInv, TypeOK, Places
  <2>2. on' \in [Jobs -> BOOLEAN]
    BY <1>1 DEF IInv, TypeOK
  <2>3. loose' \in [Jobs -> BOOLEAN]
    BY <1>1 DEF IInv, TypeOK
  <2>4. seen' \in [Jobs \cup Tools -> Prospect] /\ over' \subseteq Jobs \cup Tools /\ new' \in [Jobs -> SUBSET Facts]
    BY <1>1, BlankFits DEF IInv, TypeOK
  <2>5. deaths' \in 0 .. Deaths
    BY <1>1 DEF IInv, TypeOK
  <2>6. QED BY <1>1, <2>1, <2>2, <2>3, <2>4, <2>5 DEF IInv, TypeOK
<1>4. Placed'
  BY <1>1 DEF IInv, TypeOK, Placed
<1>5. OneReader' /\ \A r \in Replies : Waiting(r)' => Waiting(r)
  BY <1>1 DEF IInv, TypeOK, OneReader, Reads, Waiting
<1>6. \A i \in Jobs : loose[i] => loose'[i]
  BY <1>1 DEF IInv, TypeOK
<1>7. Strays'
  <2>1. clock' \in Nat /\ clock' >= clock /\ Rows' = Rows
    BY <1>1 DEF IInv, TypeOK, Rows
  <2>2. QED BY <1>1, <1>5, <1>6, <2>1, StraysStay
<1>8. Past' /\ DecisionsReadOnce'
  <2>1. Past'
    BY <1>1, <1>5, PastStays DEF IInv, TypeOK, Waiting
  <2>2. DecisionsReadOnce'
    BY <1>1, <1>6, UsedStays
  <2>3. QED BY <2>1, <2>2
<1>9. Clean'
  <2>1. \A w \in Jobs \cup Tools : seen'[w] \in {seen[w], prospect, Blank}
    BY <1>1 DEF IInv, TypeOK
  <2>2. QED BY <1>1, <2>1, CleanStays
<1>10. Current'
  <2>1. Writers' \subseteq Writers \ {j}
    BY <1>1, <1>2 DEF IInv, TypeOK, Writers
  <2>2. ASSUME NEW w \in Writers' \ over' PROVE w \in Writers \ over /\ seen'[w] = seen[w]
    BY <1>1, <2>1, <2>2 DEF IInv, TypeOK, Writers
  <2>3. QED BY <1>1, <2>2, CurrentStays
<1>11. QED BY <1>1, <1>3, <1>4, <1>5, <1>7, <1>8, <1>9, <1>10, NothingLost DEF IInv

-----------------------------------------------------------------------------
\* Every step keeps the strengthened invariant, and loses facts to no wait.
LEMMA StepKeeps == ASSUME IInv, [Next]_vars PROVE IInv' /\ NoLoss
<1>1. CASE UNCHANGED vars
  <2>1. IInv'
    BY <1>1 DEF IInv, TypeOK, Placed, OneReader, Reads, Strays, Rows, Waiting, Clean, Fits, Current, Writers,
                Past, DecisionsReadOnce
  <2>2. QED BY <1>1, <2>1, NothingLost
<1>2. ASSUME NEW j \in Jobs, Works(j) PROVE IInv' /\ NoLoss
  BY <1>2, BeginResearchKeeps, ResearchReturnsKeeps, ResearchPollsKeeps, SaveAnswerKeeps, LookAgainKeeps,
     WriteRecordKeeps, BeginReadingKeeps, LockTimesOutKeeps, ReplyReturnsKeeps, ReplyPollsKeeps, ReadDirectlyKeeps
     DEF Works
<1>3. ASSUME NEW j \in Jobs, Dies(j) PROVE IInv' /\ NoLoss
  BY <1>3, DiesKeeps
<1>4. ASSUME NEW t \in Tools, ToolBegins(t) \/ ToolCommits(t) PROVE IInv' /\ NoLoss
  BY <1>4, ToolBeginsKeeps, ToolCommitsKeeps
<1>5. QED BY <1>1, <1>2, <1>3, <1>4 DEF Next

\* The strengthened invariant holds throughout.
THEOREM Invariance == Spec => []IInv
<1>1. IInv /\ [Next]_vars => IInv'
  BY StepKeeps
<1>2. QED BY InitKeeps, <1>1, PTL DEF Spec

\* Waits, rows, tool calls and readings keep their types.
THEOREM TypeCorrect == Spec => []TypeOK
<1>1. IInv => TypeOK
  BY DEF IInv
<1>2. QED BY <1>1, Invariance, PTL

\* For any replies and tool calls, a decision handed in is taken for one reply,
\* another's only where its agent went on after the post to it had ended.
THEOREM DecisionsAreReadOnce == Spec => []DecisionsReadOnce
<1>1. IInv => DecisionsReadOnce
  BY DEF IInv
<1>2. QED BY <1>1, Invariance, PTL

\* However many jobs and tools save facts, none is put on file twice.
THEOREM FactsAreOnce == Spec => []FactOnce
<1>1. IInv => FactOnce
  BY DEF IInv, Clean, Fits, FactOnce
<1>2. QED BY <1>1, Invariance, PTL

\* No fact is lost to a wait.
THEOREM NothingLostToWaits == Spec => LostOnlyByOverlap
<1>1. IInv /\ [Next]_vars => [NoLoss]_vars
  BY StepKeeps
<1>2. QED BY InitKeeps, Invariance, <1>1, PTL DEF Spec, LostOnlyByOverlap, NoLoss
-----------------------------------------------------------------------------
(* What EveryJobEnds does not need fairness for: a job has a handful of    *)
(* steps, which only a death gives it again, and one that is done leaves   *)
(* the prospect researched, whoever did the research.                      *)

DoneIsResearched == \A j \in Researches : pc[j] = "done" => prospect.researched

ResearchInv ==
  /\ \A x \in rows : x.of \in Researches => prospect.researched
  /\ \A w \in Jobs \cup Tools : seen[w].researched => prospect.researched
  /\ DoneIsResearched

\* The steps a job still has in a place, at most.
Ahead(place) ==
  CASE place = "idle" -> 5
    [] place = "posted" -> 4
    [] place = "polling" -> 3
    [] place \in {"saving", "direct", "model"} -> 2
    [] place = "writing" -> 1
    [] OTHER -> 0

Ended == {"done", "refused"}

GoesForward(j) ==
  /\ Works(j) => Ahead(pc'[j]) < Ahead(pc[j])
  /\ \/ pc'[j] = pc[j]
     \/ Ahead(pc'[j]) < Ahead(pc[j])
     \/ deaths' < deaths /\ pc[j] \notin Ended

LEMMA OnesOwnRows ==
  ASSUME NEW j \in Researches, NEW x \in Since(j)
  PROVE  x \in rows /\ x.of \in Researches
BY DEF Since, Same

\* No job is done but by a row of its own, while nobody writes.
LEMMA ResearchStays ==
  ASSUME ResearchInv, prospect' = prospect, rows' = rows,
         \A w \in Jobs \cup Tools : seen'[w] \in {seen[w], prospect, Blank},
         \A j \in Researches : pc'[j] = "done" => pc[j] = "done" \/ Since(j) # {}
  PROVE  ResearchInv'
<1>1. ~Blank.researched
  BY DEF Blank
<1>2. \A w \in Jobs \cup Tools : seen'[w].researched => prospect'.researched
  BY <1>1 DEF ResearchInv
<1>3. ASSUME NEW j \in Researches, pc'[j] = "done" PROVE prospect'.researched
  BY <1>3, OnesOwnRows DEF ResearchInv, DoneIsResearched
<1>4. QED BY <1>2, <1>3 DEF ResearchInv, DoneIsResearched

\* A prospect that is researched satisfies all three.
LEMMA OnceResearched == ASSUME prospect'.researched PROVE ResearchInv'
BY DEF ResearchInv, DoneIsResearched

LEMMA WritersResearch ==
  ASSUME NEW p, NEW result, NEW found
  PROVE  Saved(p, result).researched /\ Recorded(p, found).researched
<1>1. CASE p.researched
  BY <1>1 DEF Saved, Recorded
<1>2. CASE ~p.researched
  BY <1>2 DEF Saved, Recorded
<1>3. QED BY <1>1, <1>2

LEMMA ResearchKept == ASSUME IInv, ResearchInv, [Next]_vars PROVE ResearchInv'
<1>0. TypeOK /\ Placed
  BY DEF IInv
<1>1. CASE UNCHANGED vars
  BY <1>1 DEF ResearchInv, DoneIsResearched
<1>2. ASSUME NEW j \in Jobs, BeginResearch(j) \/ ResearchReturns(j) \/ ResearchPolls(j) PROVE ResearchInv'
  <2>1. prospect' = prospect /\ rows' = rows
    BY <1>2 DEF BeginResearch, ResearchReturns, ResearchPolls, FactsCame, FallBack
  <2>2. seen' = seen \/ seen' = [seen EXCEPT ![j] = prospect] \/ seen' = [seen EXCEPT ![j] = Blank]
    BY <1>2 DEF BeginResearch, ResearchReturns, ResearchPolls, FactsCame, FallBack, Look
  <2>3. \/ FactsCame(j)
        \/ \E place \in {"posted", "direct", "saving", "polling"} : pc' = [pc EXCEPT ![j] = place]
    BY <1>2 DEF BeginResearch, ResearchReturns, ResearchPolls, FallBack, Goto, Post
  <2>4. \A i \in Researches : pc'[i] = "done" => pc[i] = "done" \/ Since(i) # {}
    <3>1. CASE FactsCame(j)
      BY <1>0, <3>1 DEF FactsCame, Goto, TypeOK
    <3>2. CASE \E place \in {"posted", "direct", "saving", "polling"} : pc' = [pc EXCEPT ![j] = place]
      BY <1>0, <3>2 DEF TypeOK
    <3>3. QED BY <2>3, <3>1, <3>2
  <2>5. \A w \in Jobs \cup Tools : seen'[w] \in {seen[w], prospect, Blank}
    BY <1>0, <2>2 DEF TypeOK
  <2>6. QED BY <2>1, <2>4, <2>5, ResearchStays
<1>3. ASSUME NEW j \in Jobs, SaveAnswer(j) PROVE ResearchInv'
  <2>1. PICK result \in Results : prospect' = Saved(seen[j], result)
    BY <1>3 DEF SaveAnswer, Put
  <2>2. QED BY <2>1, WritersResearch, OnceResearched
<1>4. ASSUME NEW j \in Jobs, LookAgain(j) PROVE ResearchInv'
  <2>1. /\ prospect' = prospect /\ rows' = rows /\ seen' = [seen EXCEPT ![j] = prospect]
        /\ pc' = [pc EXCEPT ![j] = "writing"]
    BY <1>4 DEF LookAgain, Look, Goto
  <2>2. \A w \in Jobs \cup Tools : seen'[w] \in {seen[w], prospect, Blank}
    BY <1>0, <2>1 DEF TypeOK
  <2>3. \A i \in Researches : pc'[i] = "done" => pc[i] = "done"
    BY <1>0, <2>1 DEF TypeOK
  <2>4. QED BY <2>1, <2>2, <2>3, ResearchStays
<1>5. ASSUME NEW j \in Jobs, WriteRecord(j) PROVE ResearchInv'
  <2>1. CASE seen[j].researched
    <3>1. prospect' = prospect
      BY <1>5, <2>1 DEF WriteRecord
    <3>2. prospect.researched
      BY <2>1 DEF ResearchInv
    <3>3. QED BY <3>1, <3>2, OnceResearched
  <2>2. CASE ~seen[j].researched
    <3>1. prospect' = Recorded(seen[j], new[j])
      BY <1>5, <2>2 DEF WriteRecord, Put
    <3>2. QED BY <3>1, WritersResearch, OnceResearched
  <2>3. QED BY <2>1, <2>2
<1>6. ASSUME NEW r \in Replies,
             BeginReading(r) \/ LockTimesOut(r) \/ ReplyReturns(r) \/ ReplyPolls(r) \/ ReadDirectly(r)
      PROVE  ResearchInv'
  <2>1. prospect' = prospect /\ rows' = rows /\ seen' = seen
    BY <1>6 DEF BeginReading, LockTimesOut, ReplyReturns, ReplyPolls, ReadDirectly
  <2>2. \E place \in Places : pc' = [pc EXCEPT ![r] = place]
    BY <1>6 DEF BeginReading, LockTimesOut, ReplyReturns, ReplyPolls, ReadDirectly, TakeSubmitted,
       TakeAnswer, Take, Goto, Post, Places
  <2>3. \A i \in Researches : pc'[i] = pc[i]
    BY <1>0, <2>2 DEF TypeOK, Jobs
  <2>4. QED BY <2>1, <2>3, ResearchStays
<1>7. ASSUME NEW t \in Tools, ToolBegins(t) PROVE ResearchInv'
  <2>1. prospect' = prospect /\ rows' = rows /\ pc' = pc /\ seen' = [seen EXCEPT ![t] = prospect]
    BY <1>7 DEF ToolBegins, Look
  <2>2. \A w \in Jobs \cup Tools : seen'[w] \in {seen[w], prospect, Blank}
    BY <1>0, <2>1 DEF TypeOK
  <2>3. QED BY <2>1, <2>2, ResearchStays
<1>8. ASSUME NEW t \in Tools, ToolCommits(t) PROVE ResearchInv'
  <2>1. CASE tool[t].of \in Researches
    <3>1. prospect' = Saved(seen[t], tool[t].result)
      BY <1>8, <2>1 DEF ToolCommits, Put
    <3>2. QED BY <3>1, WritersResearch, OnceResearched
  <2>2. CASE tool[t].of \notin Researches
    <3>1. prospect' = prospect /\ seen' = seen /\ pc' = pc
      BY <1>8, <2>2 DEF ToolCommits
    <3>2. \A x \in rows' : x.of \in Researches => x \in rows
      BY <1>8, <2>2 DEF ToolCommits
    <3>3. QED BY <3>1, <3>2 DEF ResearchInv, DoneIsResearched
  <2>3. QED BY <2>1, <2>2
<1>9. ASSUME NEW j \in Jobs, Dies(j) PROVE ResearchInv'
  <2>1. /\ prospect' = prospect /\ rows' = rows /\ seen' = [seen EXCEPT ![j] = Blank]
        /\ pc' = [pc EXCEPT ![j] = IF j \in Replies THEN "refused" ELSE "idle"]
    BY <1>9 DEF Dies, Goto
  <2>2. \A w \in Jobs \cup Tools : seen'[w] \in {seen[w], prospect, Blank}
    BY <1>0, <2>1 DEF TypeOK
  <2>3. \A i \in Researches : pc'[i] = "done" => pc[i] = "done"
    BY <1>0, <2>1 DEF TypeOK
  <2>4. QED BY <2>1, <2>2, <2>3, ResearchStays
<1>10. ASSUME NEW j \in Jobs, Works(j) PROVE ResearchInv'
  <2>1. BeginReading(j) \/ LockTimesOut(j) \/ ReplyReturns(j) \/ ReplyPolls(j) \/ ReadDirectly(j) => j \in Replies
    BY <1>0 DEF BeginReading, LockTimesOut, ReplyReturns, ReplyPolls, ReadDirectly, Placed
  <2>2. QED BY <1>2, <1>3, <1>4, <1>5, <1>6, <1>10, <2>1 DEF Works
<1>11. QED BY <1>1, <1>7, <1>8, <1>9, <1>10 DEF Next

\* What a job does takes it to a place with fewer steps ahead.
LEMMA WorkTakes ==
  ASSUME TypeOK, NEW j \in Jobs, Works(j)
  PROVE  /\ Ahead(pc'[j]) < Ahead(pc[j])
         /\ \A i \in Jobs \ {j} : pc'[i] = pc[i]
<1>1. ASSUME NEW place, pc' = [pc EXCEPT ![j] = place]
      PROVE  pc'[j] = place /\ \A i \in Jobs \ {j} : pc'[i] = pc[i]
  BY <1>1 DEF TypeOK
<1>2. \/ pc[j] = "idle" /\ \E place \in {"posted", "direct", "model", "done", "refused"} : pc' = [pc EXCEPT ![j] = place]
      \/ pc[j] = "posted" /\ \E place \in {"polling", "saving", "direct", "model", "done"} : pc' = [pc EXCEPT ![j] = place]
      \/ pc[j] = "polling" /\ \E place \in {"direct", "model", "done"} : pc' = [pc EXCEPT ![j] = place]
      \/ pc[j] \in {"saving", "writing", "model"} /\ pc' = [pc EXCEPT ![j] = "done"]
      \/ pc[j] = "direct" /\ pc' = [pc EXCEPT ![j] = "writing"]
  <2>1. CASE BeginResearch(j) \/ LockTimesOut(j)
    BY <2>1 DEF BeginResearch, LockTimesOut, Post, Goto
  <2>2. CASE BeginReading(j)
    BY <2>2 DEF BeginReading, Take, Post, Goto
  <2>3. CASE ResearchReturns(j) \/ ResearchPolls(j)
    BY <2>3 DEF ResearchReturns, ResearchPolls, FactsCame, FallBack, Goto
  <2>4. CASE ReplyReturns(j) \/ ReplyPolls(j)
    BY <2>4 DEF ReplyReturns, ReplyPolls, TakeSubmitted, TakeAnswer, Take, Goto
  <2>5. CASE SaveAnswer(j) \/ LookAgain(j) \/ WriteRecord(j)
    BY <2>5 DEF SaveAnswer, LookAgain, WriteRecord, Goto
  <2>6. CASE ReadDirectly(j)
    BY <2>6 DEF ReadDirectly, TakeAnswer, Take, Goto
  <2>7. QED BY <2>1, <2>2, <2>3, <2>4, <2>5, <2>6 DEF Works
<1>3. PICK place : /\ pc' = [pc EXCEPT ![j] = place]
                   /\ \/ pc[j] = "idle" /\ place \in {"posted", "direct", "model", "done", "refused"}
                      \/ pc[j] = "posted" /\ place \in {"polling", "saving", "direct", "model", "done"}
                      \/ pc[j] = "polling" /\ place \in {"direct", "model", "done"}
                      \/ pc[j] \in {"saving", "writing", "model"} /\ place = "done"
                      \/ pc[j] = "direct" /\ place = "writing"
  BY <1>2
<1>4. Ahead(place) < Ahead(pc[j])
  BY <1>3 DEF Ahead
<1>5. QED BY <1>1, <1>3, <1>4

LEMMA AllGoForward == ASSUME TypeOK, [Next]_vars PROVE [\A j \in Jobs : GoesForward(j)]_vars
<1>1. ASSUME NEW i \in Jobs, Works(i), NEW j \in Jobs PROVE GoesForward(j)
  BY <1>1, WorkTakes DEF GoesForward
<1>2. ASSUME NEW i \in Jobs, Dies(i), NEW j \in Jobs PROVE GoesForward(j)
  <2>1. /\ deaths' < deaths /\ pc[i] \notin {"idle", "done", "refused"}
        /\ pc' = [pc EXCEPT ![i] = IF i \in Replies THEN "refused" ELSE "idle"]
    BY <1>2 DEF Dies, Goto, TypeOK
  <2>2. pc'[j] = pc[j] \/ (deaths' < deaths /\ pc[j] \notin Ended)
    BY <2>1 DEF TypeOK, Ended
  <2>3. Works(j) => Ahead(pc'[j]) < Ahead(pc[j])
    BY WorkTakes
  <2>4. QED BY <2>2, <2>3 DEF GoesForward
<1>3. ASSUME NEW t \in Tools, ToolBegins(t) \/ ToolCommits(t), NEW j \in Jobs PROVE GoesForward(j)
  <2>1. pc' = pc
    BY <1>3 DEF ToolBegins, ToolCommits
  <2>2. Works(j) => Ahead(pc'[j]) < Ahead(pc[j])
    BY WorkTakes
  <2>3. QED BY <2>1, <2>2 DEF GoesForward
<1>4. QED BY <1>1, <1>2, <1>3 DEF Next

\* A research job that is done leaves the prospect researched: by its answer,
\* by its agent's tool calls, by the direct provider, or by another job before.
THEOREM DoneLeavesFacts == Spec => []DoneIsResearched
<1>1. Init => ResearchInv
  BY DEF Init, ResearchInv, DoneIsResearched, Blank, Jobs
<1>2. IInv /\ ResearchInv /\ [Next]_vars => ResearchInv'
  BY ResearchKept
<1>3. ResearchInv => DoneIsResearched
  BY DEF ResearchInv
<1>4. QED BY <1>1, <1>2, <1>3, Invariance, PTL DEF Spec

\* No job and no reply goes back, whatever the agents and the others do, unless
\* its process died, and what has ended stays so: fairness has only to keep
\* each going.
THEOREM JobsGoForward == Spec => [][\A j \in Jobs : GoesForward(j)]_vars
<1>1. TypeOK /\ [Next]_vars => [\A j \in Jobs : GoesForward(j)]_vars
  BY AllGoForward
<1>2. QED BY <1>1, TypeCorrect, PTL DEF Spec
=============================================================================
