--------------------------- MODULE DeliveryProofs ---------------------------
(***************************************************************************)
(* Proofs about Delivery, for any number of mails and processes and any    *)
(* course of events.                                                       *)
(*                                                                         *)
(* That copies are few rests on an account of what a message may still     *)
(* cost (Account): a run may send one copy, a young one may also have the  *)
(* job run again, and so may what is queued and the attempts not yet       *)
(* counted.  No step but a sweep or a retry adds to it.                    *)
(*                                                                         *)
(* That an answer is read rests on what an open pass still has to do: each *)
(* answer it owes is listed, ingested or read before (Reading), since a    *)
(* row on record never changes and the window reaches back behind the last *)
(* poll by the whole overlap (WindowReaches).                              *)
(***************************************************************************)
EXTENDS Delivery, TLAPS

One(b) == IF b THEN 1 ELSE 0

\* The copies that runs, queue and attempts may still send.
Still(m) ==
  (2 * young[m] + old[m]) + One(post[m] = "open") + One(post[m] # "idle" /\ again[m])
    + One(job[m] \in {"none", "queued"}) + (IF tries[m] < MaxTries THEN MaxTries - 1 - tries[m] ELSE 0)

\* What the copies of a message have been and may still be paid with.
Account(m) ==
  /\ m \notin Cards => /\ job[m] # "asked"
                       /\ left[m] + Still(m) <= MaxTries * (1 + retried[m]) + swept[m]
  /\ m \in Cards => /\ job[m] \in {"none", "asked", "done"}
                    /\ young[m] = 0 /\ old[m] = 0 /\ asking[m] = 0
                    /\ left[m] + One(post[m] = "open") <= clicked[m]
                    /\ record[m] # 0 => job[m] = "done"
  /\ record[m] # 0 => post[m] = "idle" /\ left[m] = record[m]

Attempts == \A m \in Messages : Account(m)

Answers == \A a \in Mails : answer[a] # NoMail => answer[a].copy # 0

IsRead(a) == \E q \in Workers : read[a][q] > 0

\* What an open pass owes, and what it will add.
Reading ==
  /\ strayed = {}
  /\ \A a \in Mails, w \in Workers : read[a][w] <= 1 /\ (read[a][w] > 0 => w \in met[a])
  /\ \A w \in Workers :
       /\ doing[w] \subseteq Mails
       /\ \A a \in doing[w] : read[a][w] = 0 /\ (IsRead(a) => w \in met[a])
       /\ \A a \in due[w] : /\ a \in Arrived /\ Known(a)
                            /\ a \in todo[w] \/ a \in doing[w] \/ IsRead(a)

Clocked == \A w \in Workers : last[w] <= now

IInv == TypeOK /\ Attempts /\ Answers /\ Reading /\ Clocked /\ NoReplyMissed

USE DeliveryAssumption
    DEF bounds, queue, runs, sending, rows, mailing, box, pass, heard, linked, elsewhere, vars

-----------------------------------------------------------------------------
\* The strengthened invariant holds before the first mail is sent.
THEOREM InitKeeps == Init => IInv
<1> SUFFICES ASSUME Init PROVE IInv
  OBVIOUS
<1>1. course \in [up : SUBSET (Openings \cup Cards \cup Notes), mails : SUBSET Mails,
                  workers : SUBSET Workers, until : Nat, mishaps : Nat]
  BY DEF Init
<1>2. TypeOK
  <2>1. course \in Courses /\ now \in 0 .. course.until /\ mishaps \in 0 .. course.mishaps
    BY <1>1 DEF Init
  <2>2. /\ job \in [Messages -> {"none", "queued", "running", "done", "failed", "asked"}]
        /\ note \in [Notes -> {"none", "queued", "assisted", "ruled", "recorded"}]
        /\ post \in [Messages -> {"idle", "open", "left"}] /\ again \in [Messages -> BOOLEAN]
        /\ tries \in [Messages -> 0 .. MaxTries]
    BY DEF Init, Zero, MaxTries
  <2>3. /\ young \in [Messages -> Nat] /\ old \in [Messages -> Nat]
        /\ asking \in [Messages -> Nat] /\ retried \in [Messages -> Nat]
        /\ swept \in [Messages -> Nat] /\ clicked \in [Messages -> Nat]
        /\ left \in [Messages -> Nat] /\ record \in [Messages -> Nat]
        /\ named \in [Messages -> BOOLEAN] /\ handed \in [Notes -> Nat]
        /\ blocked \in [Processes -> BOOLEAN]
    BY DEF Init, Zero
  <2>4. /\ copies \subseteq Copy /\ answer \in [Mails -> Copy \cup {NoMail}]
        /\ last \in [Workers -> Nat \cup {-1}] /\ polling \subseteq Workers
        /\ read \in [Mails -> [Workers -> Nat]] /\ met \in [Mails -> SUBSET Workers]
        /\ strayed \subseteq copies /\ covered \subseteq Mails
    BY DEF Init, Zero
  <2>5. /\ todo \in [Workers -> SUBSET (copies \cup Mails)]
        /\ doing \in [Workers -> SUBSET (copies \cup Mails)] /\ due \in [Workers -> SUBSET Mails]
        /\ \A w \in Workers \ polling : todo[w] = {} /\ doing[w] = {} /\ due[w] = {}
    BY DEF Init
  <2>6. QED BY <2>1, <2>2, <2>3, <2>4, <2>5 DEF TypeOK
<1>3. Attempts
  <2> SUFFICES ASSUME NEW m \in Messages PROVE Account(m)
    BY DEF Attempts
  <2>1. /\ tries[m] = 0 /\ young[m] = 0 /\ old[m] = 0 /\ post[m] = "idle" /\ asking[m] = 0
        /\ retried[m] = 0 /\ swept[m] = 0 /\ clicked[m] = 0 /\ left[m] = 0 /\ record[m] = 0
    BY DEF Init, Zero
  <2>2. /\ m \in Cards => job[m] \in {"none", "asked"}
        /\ m \notin Cards => job[m] \in {"none", "queued"}
    BY DEF Init
  <2>3. QED BY <2>1, <2>2 DEF Account, Still, One, MaxTries
<1>4. Answers /\ Clocked /\ NoReplyMissed
  BY DEF Init, Answers, Clocked, NoReplyMissed
<1>5. Reading
  BY DEF Init, Reading, Zero
<1>6. QED BY <1>2, <1>3, <1>4, <1>5 DEF IInv

\* What a pass owes stays owed while rows are only added and answers only come.
LEMMA ReadingStays ==
  ASSUME IInv, UNCHANGED <<pass, heard>>,
         \A a \in Arrived : answer'[a] = answer[a],
         \A m \in Messages : record[m] # 0 => record'[m] = record[m] /\ named'[m] = named[m]
  PROVE  Reading' /\ NoReplyMissed'
<1>1. NoReplyMissed'
  BY DEF IInv, NoReplyMissed
<1>2. ASSUME NEW a \in Arrived, Known(a) PROVE a \in Arrived' /\ Known(a)'
  <2>1. a \in Mails /\ answer[a] # NoMail
    BY DEF Arrived
  <2>2. answer[a] \in Copy /\ answer[a].copy # 0
    BY <2>1 DEF IInv, TypeOK, Answers
  <2>3. answer[a].of \in Messages /\ record[answer[a].of] # 0
    BY <1>2, <2>2 DEF Copy, Known
  <2>4. Known(a)'
    BY <1>2, <2>3 DEF Known
  <2>5. QED BY <2>1, <2>4 DEF Arrived
<1>3. \A a : IsRead(a)' = IsRead(a)
  BY DEF IsRead
<1>4. Reading'
  BY <1>2, <1>3 DEF IInv, Reading
<1>5. QED BY <1>1, <1>4

-----------------------------------------------------------------------------
(* The jobs and the sends.                                                 *)

\* The account of a message is about its own rows.
LEMMA AccountStays ==
  ASSUME NEW n, Account(n),
         job'[n] = job[n], tries'[n] = tries[n], young'[n] = young[n], old'[n] = old[n],
         post'[n] = post[n], again'[n] = again[n], asking'[n] = asking[n], left'[n] = left[n],
         record'[n] = record[n], retried'[n] = retried[n], swept'[n] = swept[n],
         clicked'[n] = clicked[n]
  PROVE  Account(n)'
BY DEF Account, Still

\* The numbers of one message.
LEMMA Numbers ==
  ASSUME IInv, NEW m \in Messages
  PROVE  /\ job[m] \in {"none", "queued", "running", "done", "failed", "asked"}
         /\ tries[m] \in 0 .. 3 /\ young[m] \in Nat /\ old[m] \in Nat
         /\ post[m] \in {"idle", "open", "left"} /\ again[m] \in BOOLEAN
         /\ asking[m] \in Nat /\ retried[m] \in Nat /\ swept[m] \in Nat /\ clicked[m] \in Nat
         /\ left[m] \in Nat /\ record[m] \in Nat /\ Account(m)
BY DEF IInv, TypeOK, Attempts, MaxTries

\* A step of the jobs or the sends of one message, if it keeps the account.
LEMMA OneMessage ==
  ASSUME IInv, NEW m \in Messages, TypeOK', Account(m)',
         \A n \in Messages \ {m} :
           /\ job'[n] = job[n] /\ tries'[n] = tries[n] /\ young'[n] = young[n] /\ old'[n] = old[n]
           /\ post'[n] = post[n] /\ again'[n] = again[n] /\ asking'[n] = asking[n]
           /\ left'[n] = left[n] /\ record'[n] = record[n] /\ named'[n] = named[n]
           /\ retried'[n] = retried[n] /\ swept'[n] = swept[n] /\ clicked'[n] = clicked[n],
         record[m] # 0 => record'[m] = record[m] /\ named'[m] = named[m],
         UNCHANGED <<now, answer, last, pass, heard>>
  PROVE  IInv'
<1>1. Attempts'
  <2> SUFFICES ASSUME NEW n \in Messages PROVE Account(n)'
    BY DEF Attempts
  <2>1. CASE n = m
    BY <2>1
  <2>2. CASE n # m
    <3>1. Account(n)
      BY DEF IInv, Attempts
    <3>2. QED BY <2>2, <3>1, AccountStays
  <2>3. QED BY <2>1, <2>2
<1>2. Reading' /\ NoReplyMissed'
  BY ReadingStays
<1>3. Answers' /\ Clocked'
  BY DEF IInv, Answers, Clocked
<1>4. QED BY <1>1, <1>2, <1>3 DEF IInv

LEMMA ClaimKeeps ==
  ASSUME IInv, NEW m \in Messages, Claim(m) PROVE IInv'
<1> DEFINE n == IF tries[m] < 3 THEN tries[m] + 1 ELSE 3
<1>1. /\ n \in 1 .. 3 /\ tries' = [tries EXCEPT ![m] = n]
      /\ n < 3 => young' = [young EXCEPT ![m] = @ + 1] /\ old' = old
      /\ n >= 3 => old' = [old EXCEPT ![m] = @ + 1] /\ young' = young
  <2>1. tries[m] \in 0 .. 3
    BY Numbers
  <2>2. tries' = [tries EXCEPT ![m] = n]
    BY DEF Claim, MaxTries
  <2>3. IF n < 3 THEN young' = [young EXCEPT ![m] = @ + 1] /\ UNCHANGED old
                 ELSE old' = [old EXCEPT ![m] = @ + 1] /\ UNCHANGED young
    BY DEF Claim, MaxTries
  <2>4. n \in 1 .. 3
    BY <2>1
  <2>5. QED BY <2>2, <2>3, <2>4
<1>2. /\ job[m] = "queued" /\ job' = [job EXCEPT ![m] = "running"]
      /\ UNCHANGED <<elsewhere, bounds, asking, retried, swept, sending, left, rows>>
  BY DEF Claim
<1>3. /\ tries' \in [Messages -> 0 .. 3] /\ young' \in [Messages -> Nat] /\ old' \in [Messages -> Nat]
      /\ job' \in [Messages -> {"none", "queued", "running", "done", "failed", "asked"}]
  <2>1. /\ tries \in [Messages -> 0 .. 3] /\ young \in [Messages -> Nat] /\ old \in [Messages -> Nat]
        /\ job \in [Messages -> {"none", "queued", "running", "done", "failed", "asked"}]
    BY DEF IInv, TypeOK, MaxTries
  <2>2. tries' \in [Messages -> 0 .. 3]
    <3>1. n \in 0 .. 3 /\ tries' = [tries EXCEPT ![m] = n]
      BY <1>1
    <3> HIDE DEF n
    <3>2. QED BY <2>1, <3>1
  <2>3. young' \in [Messages -> Nat] /\ old' \in [Messages -> Nat]
    <3>1. n < 3 \/ n >= 3
      BY <1>1
    <3> HIDE DEF n
    <3>2. QED BY <1>1, <2>1, <3>1
  <2>4. QED BY <1>2, <2>1, <2>2, <2>3
<1>4. TypeOK'
  BY <1>2, <1>3 DEF IInv, TypeOK, MaxTries
<1>5. /\ job'[m] = "running" /\ tries'[m] = n
      /\ n < 3 => young'[m] = young[m] + 1 /\ old'[m] = old[m]
      /\ n >= 3 => old'[m] = old[m] + 1 /\ young'[m] = young[m]
  BY <1>1, <1>2 DEF IInv, TypeOK
<1>6. m \notin Cards
  BY <1>2, Numbers DEF Account
<1>7. Account(m)'
  BY <1>1, <1>2, <1>5, <1>6, Numbers DEF Account, Still, One, MaxTries
<1>8. \A k \in Messages \ {m} :
        job'[k] = job[k] /\ tries'[k] = tries[k] /\ young'[k] = young[k] /\ old'[k] = old[k]
  BY <1>1, <1>2 DEF IInv, TypeOK
<1>9. QED BY <1>2, <1>4, <1>7, <1>8, OneMessage

\* A run less is still a number of runs.
LEMMA FewerRuns ==
  ASSUME IInv, NEW m \in Messages, NEW retry \in BOOLEAN,
         retry => young[m] > 0 /\ young' = [young EXCEPT ![m] = @ - 1] /\ old' = old,
         ~retry => old[m] > 0 /\ old' = [old EXCEPT ![m] = @ - 1] /\ young' = young
  PROVE  young' \in [Messages -> Nat] /\ old' \in [Messages -> Nat]
<1>1. young \in [Messages -> Nat] /\ old \in [Messages -> Nat]
  BY DEF IInv, TypeOK
<1>2. retry => young[m] - 1 \in Nat
  BY <1>1
<1>3. ~retry => old[m] - 1 \in Nat
  BY <1>1
<1>4. QED BY <1>1, <1>2, <1>3

LEMMA RunEndsKeeps ==
  ASSUME IInv, NEW m \in Messages, RunEnds(m) PROVE IInv'
<1>1. PICK retry \in BOOLEAN :
        /\ Drop(m, retry)
        /\ \/ Failed(m, retry) /\ UNCHANGED bounds
           \/ job' = [job EXCEPT ![m] = "queued"] /\ UNCHANGED bounds
           \/ record[m] # 0 /\ job' = [job EXCEPT ![m] = "done"] /\ UNCHANGED bounds
           \/ job[m] # "running" /\ UNCHANGED <<job, bounds>>
           \/ Spend /\ UNCHANGED job
  BY DEF RunEnds
<1>2. /\ UNCHANGED <<elsewhere, tries, asking, retried, swept, sending, left, rows>>
      /\ UNCHANGED bounds \/ Spend
  BY <1>1 DEF RunEnds
<1>3. /\ retry => /\ young[m] > 0 /\ young' = [young EXCEPT ![m] = @ - 1] /\ old' = old
      /\ ~retry => /\ old[m] > 0 /\ old' = [old EXCEPT ![m] = @ - 1] /\ young' = young
  BY <1>1 DEF Drop
<1>4. m \notin Cards
  BY <1>3, Numbers DEF Account
<1>5. PICK to \in {"queued", "failed", "done", job[m]} :
        /\ job' = [job EXCEPT ![m] = to]
  BY <1>1, <1>4 DEF Failed, IInv, TypeOK
<1>6. TypeOK'
  <2>1. young' \in [Messages -> Nat] /\ old' \in [Messages -> Nat]
    BY <1>3, FewerRuns
  <2>4. job' \in [Messages -> {"none", "queued", "running", "done", "failed", "asked"}]
    BY <1>5 DEF IInv, TypeOK
  <2>2. course' = course /\ mishaps' \in 0 .. course.mishaps
    BY <1>2 DEF IInv, TypeOK, Spend
  <2>3. QED BY <1>2, <2>1, <2>2, <2>4 DEF IInv, TypeOK
<1>7. /\ retry => young'[m] = young[m] - 1 /\ old'[m] = old[m]
      /\ ~retry => old'[m] = old[m] - 1 /\ young'[m] = young[m]
      /\ job'[m] = to
  BY <1>3, <1>5 DEF IInv, TypeOK
<1>8. Account(m)'
  BY <1>2, <1>3, <1>4, <1>7, Numbers DEF Account, Still, One, MaxTries
<1>9. \A n \in Messages \ {m} : young'[n] = young[n] /\ old'[n] = old[n] /\ job'[n] = job[n]
  BY <1>3, <1>5 DEF IInv, TypeOK
<1>10. QED BY <1>2, <1>6, <1>8, <1>9, OneMessage

LEMMA SweepKeeps ==
  ASSUME IInv, NEW m \in Messages, Sweep(m) PROVE IInv'
<1>1. course' = course /\ mishaps' \in 0 .. course.mishaps
  BY DEF IInv, TypeOK, Sweep, Spend
<1>2. TypeOK'
  BY <1>1 DEF IInv, TypeOK, Sweep
<1>3. Account(m)'
  <2>1. /\ job[m] = "running" /\ job'[m] = "queued" /\ swept'[m] = swept[m] + 1
        /\ UNCHANGED <<tries, asking, retried, young, old, post, again, clicked, left, record>>
    BY DEF IInv, TypeOK, Sweep
  <2>2. m \notin Cards
    BY <2>1, Numbers DEF Account
  <2>3. QED BY <2>1, <2>2, Numbers DEF Account, Still, One, MaxTries
<1>4. QED BY <1>2, <1>3, OneMessage DEF Sweep, IInv, TypeOK

LEMMA AskKeeps ==
  ASSUME IInv, NEW m \in Messages, AskRetry(m) PROVE IInv'
<1>1. TypeOK'
  BY DEF IInv, TypeOK, AskRetry, Spend
<1>2. Account(m)'
  BY Numbers DEF AskRetry, Account, Still
<1>3. QED BY <1>1, <1>2, OneMessage DEF AskRetry, IInv, TypeOK

LEMMA RequeueKeeps ==
  ASSUME IInv, NEW m \in Messages, Requeue(m) PROVE IInv'
<1>1. TypeOK'
  BY DEF IInv, TypeOK, Requeue, MaxTries
<1>2. Account(m)'
  <2>1. /\ asking[m] > 0 /\ job'[m] = "queued" /\ tries'[m] = 0 /\ retried'[m] = retried[m] + 1
        /\ UNCHANGED <<swept, young, old, post, again, clicked, left, record>>
    BY DEF IInv, TypeOK, Requeue
  <2>2. m \notin Cards
    BY <2>1, Numbers DEF Account
  <2>3. QED BY <2>1, <2>2, Numbers DEF Account, Still, One, MaxTries
<1>3. QED BY <1>1, <1>2, OneMessage DEF Requeue, IInv, TypeOK

LEMMA BeginKeeps ==
  ASSUME IInv, NEW m \in Messages, BeginSend(m) PROVE IInv'
<1>1. PICK retry \in BOOLEAN : Drop(m, retry) /\ again' = [again EXCEPT ![m] = retry]
  BY DEF BeginSend
<1>2. /\ retry => /\ young[m] > 0 /\ young' = [young EXCEPT ![m] = @ - 1] /\ old' = old
      /\ ~retry => /\ old[m] > 0 /\ old' = [old EXCEPT ![m] = @ - 1] /\ young' = young
  BY <1>1 DEF Drop
<1>3. TypeOK'
  <2>1. young' \in [Messages -> Nat] /\ old' \in [Messages -> Nat]
    BY <1>2, FewerRuns
  <2>2. again' \in [Messages -> BOOLEAN] /\ post' \in [Messages -> {"idle", "open", "left"}]
    BY <1>1 DEF IInv, TypeOK, BeginSend
  <2>3. QED BY <2>1, <2>2 DEF IInv, TypeOK, BeginSend
<1>4. /\ post[m] = "idle" /\ record[m] = 0 /\ post'[m] = "open" /\ again'[m] = retry
      /\ retry => young'[m] = young[m] - 1 /\ old'[m] = old[m]
      /\ ~retry => old'[m] = old[m] - 1 /\ young'[m] = young[m]
      /\ UNCHANGED <<job, tries, asking, retried, swept, clicked, left, record>>
  BY <1>1, <1>2 DEF IInv, TypeOK, BeginSend
<1>5. m \notin Cards
  BY <1>2, Numbers DEF Account
<1>6. Account(m)'
  BY <1>2, <1>4, <1>5, Numbers DEF Account, Still, One, MaxTries
<1>7. \A n \in Messages \ {m} : young'[n] = young[n] /\ old'[n] = old[n] /\ again'[n] = again[n] /\ post'[n] = post[n]
  BY <1>1, <1>2 DEF IInv, TypeOK, BeginSend
<1>8. QED BY <1>3, <1>6, <1>7, OneMessage DEF BeginSend

LEMMA ApproveKeeps ==
  ASSUME IInv, NEW m \in Messages, Approve(m) PROVE IInv'
<1>1. course' = course /\ mishaps' \in 0 .. course.mishaps
  BY DEF IInv, TypeOK, Approve, Spend
<1>2. TypeOK'
  BY <1>1 DEF IInv, TypeOK, Approve
<1>3. Account(m)'
  <2>1. /\ job[m] = "asked" /\ post[m] = "idle" /\ post'[m] = "open" /\ clicked'[m] = clicked[m] + 1
        /\ UNCHANGED <<job, tries, asking, retried, swept, young, old, again, left, record>>
    BY DEF IInv, TypeOK, Approve
  <2>2. m \in Cards
    BY <2>1, Numbers DEF Account
  <2>3. record[m] = 0
    BY <2>1, <2>2, Numbers DEF Account
  <2>4. QED BY <2>1, <2>2, <2>3, Numbers DEF Account, One
<1>4. QED BY <1>2, <1>3, OneMessage DEF Approve, IInv, TypeOK

\* A mail that leaves is one more, and at most one more copy in the mailbox.
LEMMA LeaveAdds ==
  ASSUME IInv, NEW m \in Messages, Leave(m)
  PROVE  /\ copies \subseteq copies' /\ copies' \subseteq Copy /\ answer' = answer
         /\ left' \in [Messages -> Nat] /\ left'[m] = left[m] + 1
         /\ \A n \in Messages \ {m} : left'[n] = left[n]
<1>1. left \in [Messages -> Nat] /\ now \in Nat /\ copies \subseteq Copy
  BY DEF IInv, TypeOK
<1>2. [of |-> m, copy |-> left[m] + 1, at |-> now] \in Copy
  BY <1>1 DEF Copy
<1>3. copies \subseteq copies' /\ copies' \subseteq Copy
  BY <1>1, <1>2 DEF Leave
<1>4. QED BY <1>1, <1>3 DEF Leave

LEMMA PostFailsKeeps ==
  ASSUME IInv, NEW m \in Messages, PostFails(m) PROVE IInv'
<1>1. TypeOK'
  <2>1. /\ copies \subseteq copies' /\ copies' \subseteq Copy /\ left' \in [Messages -> Nat]
        /\ answer' = answer
    BY LeaveAdds DEF IInv, TypeOK, PostFails
  <2>2. /\ job' \in [Messages -> {"none", "queued", "running", "done", "failed", "asked"}]
        /\ post' \in [Messages -> {"idle", "open", "left"}]
    BY DEF IInv, TypeOK, PostFails, Failed
  <2>3. QED BY <2>1, <2>2 DEF IInv, TypeOK, PostFails
<1>2. /\ post[m] = "open" /\ post'[m] = "idle"
      /\ left'[m] = left[m] \/ left'[m] = left[m] + 1
      /\ job'[m] = IF m \in Cards THEN job[m] ELSE IF again[m] THEN "queued" ELSE "failed"
      /\ UNCHANGED <<tries, asking, retried, swept, young, old, again, clicked, record>>
  BY DEF IInv, TypeOK, PostFails, Leave, Failed
<1>3. record[m] = 0
  BY <1>2, Numbers DEF Account
<1>4. Account(m)'
  <2>1. CASE m \in Cards
    BY <1>2, <1>3, <2>1, Numbers DEF Account, One
  <2>2. CASE m \notin Cards /\ again[m]
    BY <1>2, <1>3, <2>2, Numbers DEF Account, Still, One, MaxTries
  <2>3. CASE m \notin Cards /\ ~again[m]
    BY <1>2, <1>3, <2>3, Numbers DEF Account, Still, One, MaxTries
  <2>4. QED BY <2>1, <2>2, <2>3
<1>5. \A n \in Messages \ {m} : job'[n] = job[n] /\ post'[n] = post[n] /\ left'[n] = left[n]
  BY DEF IInv, TypeOK, PostFails, Leave, Failed
<1>6. QED BY <1>1, <1>4, <1>5, OneMessage DEF PostFails, Leave

LEMMA PostSucceedsKeeps ==
  ASSUME IInv, NEW m \in Messages, PostSucceeds(m) PROVE IInv'
<1>1. TypeOK'
  <2>1. /\ copies \subseteq copies' /\ copies' \subseteq Copy /\ left' \in [Messages -> Nat]
        /\ answer' = answer /\ post' \in [Messages -> {"idle", "open", "left"}]
    BY LeaveAdds DEF IInv, TypeOK, PostSucceeds
  <2>2. QED BY <2>1 DEF IInv, TypeOK, PostSucceeds
<1>2. /\ post[m] = "open" /\ post'[m] = "left" /\ left'[m] = left[m] + 1
      /\ UNCHANGED <<job, tries, asking, retried, swept, young, old, again, clicked, record>>
  BY DEF IInv, TypeOK, PostSucceeds, Leave
<1>3. record[m] = 0
  BY <1>2, Numbers DEF Account
<1>4. Account(m)'
  <2>1. CASE m \in Cards
    BY <1>2, <1>3, <2>1, Numbers DEF Account, One
  <2>2. CASE m \notin Cards
    <3>1. Still(m)' <= Still(m) - 1
      BY <1>2, Numbers DEF Still, One, MaxTries
    <3>2. Still(m) \in Int /\ Still(m)' \in Int
      BY <1>2, Numbers DEF Still, One, MaxTries
    <3>3. QED BY <1>2, <1>3, <2>2, <3>1, <3>2, Numbers DEF Account, MaxTries
  <2>3. QED BY <2>1, <2>2
<1>5. \A n \in Messages \ {m} : post'[n] = post[n] /\ left'[n] = left[n]
  BY DEF IInv, TypeOK, PostSucceeds, Leave
<1>6. QED BY <1>1, <1>4, <1>5, OneMessage DEF PostSucceeds, Leave

LEMMA RecordKeeps ==
  ASSUME IInv, NEW m \in Messages, RecordSend(m) PROVE IInv'
<1>1. TypeOK'
  BY DEF IInv, TypeOK, RecordSend
<1>2. /\ post[m] = "left" /\ post'[m] = "idle" /\ job'[m] = "done" /\ record'[m] = left[m]
      /\ UNCHANGED <<tries, asking, retried, swept, young, old, again, clicked, left>>
  BY DEF IInv, TypeOK, RecordSend
<1>3. record[m] = 0
  BY <1>2, Numbers DEF Account
<1>4. Account(m)'
  <2>1. CASE m \in Cards
    BY <1>2, <1>3, <2>1, Numbers DEF Account, One
  <2>2. CASE m \notin Cards
    <3>1. Still(m)' <= Still(m) - 0
      BY <1>2, Numbers DEF Still, One, MaxTries
    <3>2. Still(m) \in Int /\ Still(m)' \in Int
      BY <1>2, Numbers DEF Still, One, MaxTries
    <3>3. QED BY <1>2, <1>3, <2>2, <3>1, <3>2, Numbers DEF Account, MaxTries
  <2>3. QED BY <2>1, <2>2
<1>5. \A n \in Messages \ {m} : job'[n] = job[n] /\ post'[n] = post[n] /\ record'[n] = record[n] /\ named'[n] = named[n]
  BY DEF IInv, TypeOK, RecordSend
<1>6. QED BY <1>1, <1>3, <1>4, <1>5, OneMessage DEF RecordSend

LEMMA LookUpFailsKeeps ==
  ASSUME IInv, NEW m \in Messages, LookUpFails(m) PROVE IInv'
<1>1. TypeOK'
  BY DEF IInv, TypeOK, LookUpFails, Failed
<1>2. /\ post[m] = "left" /\ post'[m] = "idle"
      /\ job'[m] = IF m \in Cards THEN job[m] ELSE IF again[m] THEN "queued" ELSE "failed"
      /\ UNCHANGED <<tries, asking, retried, swept, young, old, again, clicked, left, record>>
  BY DEF IInv, TypeOK, LookUpFails, Failed
<1>3. Account(m)'
  BY <1>2, Numbers DEF Account, Still, One, MaxTries
<1>4. \A n \in Messages \ {m} : job'[n] = job[n] /\ post'[n] = post[n]
  BY DEF IInv, TypeOK, LookUpFails, Failed
<1>5. QED BY <1>1, <1>3, <1>4, OneMessage DEF LookUpFails

LEMMA SendLostKeeps ==
  ASSUME IInv, NEW m \in Messages, SendLost(m) PROVE IInv'
<1>1. TypeOK'
  BY DEF IInv, TypeOK, SendLost, Spend
<1>2. /\ post[m] # "idle" /\ post'[m] = "idle"
      /\ UNCHANGED <<job, tries, asking, retried, swept, young, old, again, clicked, left, record>>
  BY DEF IInv, TypeOK, SendLost
<1>3. Account(m)'
  BY <1>2, Numbers DEF Account, Still, One, MaxTries
<1>4. \A n \in Messages \ {m} : post'[n] = post[n]
  BY DEF IInv, TypeOK, SendLost
<1>5. QED BY <1>1, <1>3, <1>4, OneMessage DEF SendLost

LEMMA WriteKeeps ==
  ASSUME IInv, NEW a \in Mails, Write(a) PROVE IInv'
<1>1. PICK m \in Messages, k \in Nat :
        k # 0 /\ answer' = [answer EXCEPT ![a] = [of |-> m, copy |-> k, at |-> now]]
  <2>1. PICK m \in Messages : \E k \in 1 .. left[m] :
          answer' = [answer EXCEPT ![a] = [of |-> m, copy |-> k, at |-> now]]
    BY DEF Write
  <2>2. PICK k \in 1 .. left[m] : answer' = [answer EXCEPT ![a] = [of |-> m, copy |-> k, at |-> now]]
    BY <2>1
  <2>3. k \in Nat /\ k # 0
    BY DEF IInv, TypeOK
  <2>4. QED BY <2>2, <2>3
<1>2. now \in Nat
  BY DEF IInv, TypeOK
<1>3. TypeOK'
  <2>1. answer' \in [Mails -> Copy \cup {NoMail}]
    BY <1>1, <1>2 DEF IInv, TypeOK, Copy
  <2>2. QED BY <2>1 DEF IInv, TypeOK, Write
<1>4. Attempts'
  BY DEF IInv, Attempts, Account, Still, Write
<1>5. \A b \in Arrived : answer'[b] = answer[b]
  BY <1>1 DEF IInv, TypeOK, Arrived, Write
<1>6. Reading' /\ NoReplyMissed'
  BY <1>5, ReadingStays DEF Write
<1>7. Answers'
  BY <1>1 DEF IInv, TypeOK, Answers
<1>8. Clocked'
  BY DEF IInv, Clocked, Write
<1>9. QED BY <1>3, <1>4, <1>6, <1>7, <1>8 DEF IInv

-----------------------------------------------------------------------------
(* The polls.                                                              *)

\* What a pass that sees the whole window owes is in the window.
LEMMA WindowReaches ==
  ASSUME IInv, NEW w \in Workers, MayPoll(w) PROVE Due \subseteq Window(w)
<1> SUFFICES ASSUME NEW a \in Due PROVE a \in Window(w)
  OBVIOUS
<1>1. a \in Mails /\ a \in Arrived /\ answer[a].at < now /\ now <= answer[a].at + Overlap
  BY DEF Due, Arrived
<1>2. answer[a].at \in Nat /\ now \in Nat /\ last[w] \in Int
  BY <1>1 DEF IInv, TypeOK, Arrived, Copy
<1>3. last[w] = -1 \/ now - last[w] >= Every
  BY DEF MayPoll
<1>4. answer[a].at > Since(w)
  BY <1>1, <1>2, <1>3 DEF Since
<1>5. QED BY <1>1, <1>4 DEF Window, At

\* A poll leaves jobs, rows and what is read alone.
LEMMA PollKeeps ==
  ASSUME IInv, NEW w \in Workers, Poll(w) PROVE IInv'
<1>1. PICK L \in Listings(w) : \E fetched \in SUBSET L :
        /\ todo' = [todo EXCEPT ![w] = fetched]
        /\ due' = [due EXCEPT ![w] = IF fetched = Window(w) THEN Due ELSE {}]
  BY DEF Poll
<1>2. PICK fetched \in SUBSET L :
        /\ todo' = [todo EXCEPT ![w] = fetched]
        /\ due' = [due EXCEPT ![w] = IF fetched = Window(w) THEN Due ELSE {}]
  BY <1>1
<1>3. fetched \subseteq Window(w) /\ Window(w) \subseteq copies \cup Mails /\ Due \subseteq Mails
  BY <1>2 DEF Listings, Window, Due, Arrived
<1>4. TypeOK'
  <2>1. /\ todo' \in [Workers -> SUBSET (copies \cup Mails)] /\ due' \in [Workers -> SUBSET Mails]
        /\ last' \in [Workers -> Nat \cup {-1}] /\ polling' \subseteq Workers
    BY <1>2, <1>3 DEF IInv, TypeOK, Poll
  <2>2. \A v \in Workers \ polling' : v # w /\ v \notin polling /\ todo'[v] = todo[v] /\ due'[v] = due[v]
    BY <1>2 DEF IInv, TypeOK, Poll
  <2>3. QED BY <2>1, <2>2 DEF IInv, TypeOK, Poll
<1>5. Attempts' /\ Answers'
  BY DEF IInv, Attempts, Account, Still, Answers, Poll
<1>6. Reading'
  <2>1. \A a : /\ IsRead(a)' = IsRead(a) /\ Known(a)' = Known(a)
    BY DEF Poll, IsRead, Known
  <2>2. /\ UNCHANGED <<doing, heard>> /\ Arrived' = Arrived
    BY DEF Poll, Arrived
  <2>3. ASSUME NEW v \in Workers, NEW a \in due'[v]
        PROVE  /\ a \in Arrived /\ Known(a)
               /\ a \in todo'[v] \/ a \in doing[v] \/ IsRead(a)
    <3>1. CASE v = w
      <4>1. MayPoll(w)
        BY DEF Poll
      <4>2. Due \subseteq Window(w)
        BY <4>1, WindowReaches
      <4>3. a \in Due /\ fetched = Window(w) /\ todo'[w] = fetched
        BY <1>2, <2>3, <3>1 DEF IInv, TypeOK
      <4>4. QED BY <3>1, <4>2, <4>3 DEF Due
    <3>2. CASE v # w
      <4>1. due'[v] = due[v] /\ todo'[v] = todo[v]
        BY <1>2, <3>2 DEF IInv, TypeOK
      <4>2. QED BY <4>1 DEF IInv, Reading
    <3>3. QED BY <3>1, <3>2
  <2>4. QED BY <2>1, <2>2, <2>3 DEF IInv, Reading
<1>7. Clocked' /\ NoReplyMissed'
  BY DEF IInv, TypeOK, Clocked, NoReplyMissed, Poll
<1>8. QED BY <1>4, <1>5, <1>6, <1>7 DEF IInv

LEMMA ProcessKeeps ==
  ASSUME IInv, NEW w \in Workers, NEW x, ProcessEmail(w, x) PROVE IInv'
<1>1. /\ todo' = [todo EXCEPT ![w] = @ \ {x}]
      /\ UNCHANGED <<now, bounds, mailing, box, last, polling, due, heard, linked>>
      /\ doing' = IF ~Stored(w, x) /\ Matched(x) THEN [doing EXCEPT ![w] = @ \cup {x}] ELSE doing
      /\ x \in todo[w]
  BY DEF ProcessEmail
<1>2. \A v \in Workers : doing'[v] = doing[v] \/ (v = w /\ x \in Mails /\ ~IsRead(x) /\ doing'[v] = doing[v] \cup {x})
  BY <1>1 DEF IInv, TypeOK, Stored, Matched, IsRead
<1>3. \A v \in Workers : todo'[v] = IF v = w THEN todo[v] \ {x} ELSE todo[v]
  BY <1>1 DEF IInv, TypeOK
<1>4. TypeOK'
  <2>1. /\ todo' \in [Workers -> SUBSET (copies \cup Mails)]
        /\ doing' \in [Workers -> SUBSET (copies \cup Mails)]
    BY <1>1 DEF IInv, TypeOK, Matched
  <2>2. w \in polling
    BY <1>1 DEF IInv, TypeOK
  <2>3. \A v \in Workers \ polling : todo'[v] = {} /\ doing'[v] = {}
    BY <1>2, <1>3, <2>2 DEF IInv, TypeOK
  <2>4. QED BY <1>1, <2>1, <2>3 DEF IInv, TypeOK
<1>5. Attempts' /\ Answers' /\ Clocked' /\ NoReplyMissed'
  BY <1>1 DEF IInv, Attempts, Account, Still, Answers, Clocked, NoReplyMissed
<1>6. \A a : IsRead(a)' = IsRead(a) /\ Known(a)' = Known(a)
  BY <1>1 DEF IsRead, Known
<1>7. Arrived' = Arrived
  BY <1>1 DEF Arrived
<1>8. ASSUME NEW v \in Workers
      PROVE  /\ doing'[v] \subseteq Mails
             /\ \A a \in doing'[v] : read[a][v] = 0 /\ (IsRead(a) => v \in met[a])
  <2>1. /\ doing[v] \subseteq Mails
        /\ \A a \in doing[v] : read[a][v] = 0 /\ (IsRead(a) => v \in met[a])
    BY DEF IInv, Reading
  <2>2. x \in Mails /\ ~IsRead(x) => read[x][v] = 0
    BY DEF IsRead, IInv, TypeOK
  <2>3. QED BY <1>2, <2>1, <2>2
<1>9. ASSUME NEW v \in Workers, NEW a \in due[v]
      PROVE  /\ a \in Arrived /\ Known(a)
             /\ a \in todo'[v] \/ a \in doing'[v] \/ IsRead(a)
  <2>1. a \in Mails /\ a \in Arrived /\ Known(a) /\ (a \in todo[v] \/ a \in doing[v] \/ IsRead(a))
    BY DEF IInv, Reading, Arrived
  <2>2. CASE v = w /\ a = x
    <3>1. Matched(x) /\ (Stored(w, x) <=> x \in doing[w] \/ IsRead(x))
      BY <2>1, <2>2 DEF Matched, Stored, IsRead
    <3>2. x \in doing'[w] \/ IsRead(x)
      BY <1>1, <3>1 DEF IInv, TypeOK
    <3>3. QED BY <2>1, <2>2, <3>2
  <2>3. CASE ~(v = w /\ a = x)
    BY <1>2, <1>3, <2>1, <2>3
  <2>4. QED BY <2>2, <2>3
<1>10. Reading'
  BY <1>1, <1>6, <1>7, <1>8, <1>9 DEF IInv, Reading
<1>11. QED BY <1>4, <1>5, <1>10 DEF IInv

\* A pass that is over owes and holds nothing; the others are as they were.
LEMMA CloseClears ==
  ASSUME TypeOK, NEW w \in Workers, Close(w)
  PROVE  /\ polling' \subseteq Workers
         /\ todo' \in [Workers -> SUBSET (copies \cup Mails)]
         /\ doing' \in [Workers -> SUBSET (copies \cup Mails)] /\ due' \in [Workers -> SUBSET Mails]
         /\ todo'[w] = {} /\ doing'[w] = {} /\ due'[w] = {}
         /\ \A v \in Workers \ {w} : todo'[v] = todo[v] /\ doing'[v] = doing[v] /\ due'[v] = due[v]
         /\ \A v \in Workers \ polling' : todo'[v] = {} /\ doing'[v] = {} /\ due'[v] = {}
<1>1. /\ todo'[w] = {} /\ doing'[w] = {} /\ due'[w] = {}
      /\ \A v \in Workers \ {w} : todo'[v] = todo[v] /\ doing'[v] = doing[v] /\ due'[v] = due[v]
  BY DEF TypeOK, Close
<1>2. /\ todo' \in [Workers -> SUBSET (copies \cup Mails)]
      /\ doing' \in [Workers -> SUBSET (copies \cup Mails)] /\ due' \in [Workers -> SUBSET Mails]
      /\ polling' \subseteq Workers
  BY DEF TypeOK, Close
<1>3. \A v \in Workers \ polling' : v = w \/ v \notin polling
  BY DEF Close
<1>4. QED BY <1>1, <1>2, <1>3 DEF TypeOK

LEMMA CommitKeeps ==
  ASSUME IInv, NEW w \in Workers, CommitPass(w) PROVE IInv'
<1>1. PICK replied \in SUBSET (doing[w] \cap Mails) :
        job' = [m \in Messages |-> IF m \in replied /\ job[m] = "none" THEN "queued" ELSE job[m]]
  BY DEF CommitPass
<1>2. /\ todo[w] = {} /\ Close(w)
      /\ covered' = covered \cup due[w] /\ strayed' = strayed \cup (doing[w] \ Mails)
      /\ UNCHANGED <<now, bounds, tries, asking, retried, swept, runs, sending, left, rows, box, last, linked>>
  BY DEF CommitPass
<1>3. TypeOK
  BY DEF IInv
<1>4. \A a \in Mails, q \in Workers : read'[a][q] = IF q = w /\ a \in doing[w] THEN read[a][q] + 1 ELSE read[a][q]
  BY DEF CommitPass
<1>5. \A a \in Mails : /\ IsRead(a) => met'[a] = met[a] /\ IsRead(a)'
                       /\ ~IsRead(a) /\ a \in doing[w] => met'[a] = {q \in Workers : a \in doing[q]}
                       /\ ~IsRead(a) /\ a \notin doing[w] => ~IsRead(a)' /\ met'[a] = met[a]
                       /\ a \in doing[w] => IsRead(a)'
  <2> SUFFICES ASSUME NEW a \in Mails
      PROVE  /\ IsRead(a) => met'[a] = met[a] /\ IsRead(a)'
             /\ ~IsRead(a) /\ a \in doing[w] => met'[a] = {q \in Workers : a \in doing[q]}
             /\ ~IsRead(a) /\ a \notin doing[w] => ~IsRead(a)' /\ met'[a] = met[a]
             /\ a \in doing[w] => IsRead(a)'
    OBVIOUS
  <2>1. \A q \in Workers : read[a][q] \in Nat
    BY <1>3 DEF TypeOK
  <2>2. met'[a] = IF a \in doing[w] /\ \A q \in Workers : read[a][q] = 0
                  THEN {q \in Workers : a \in doing[q]} ELSE met[a]
    BY DEF CommitPass
  <2>3. IsRead(a) <=> ~ \A q \in Workers : read[a][q] = 0
    BY <2>1 DEF IsRead
  <2>4. QED BY <1>4, <2>1, <2>2, <2>3 DEF IsRead
<1>6. strayed' = {}
  BY <1>2 DEF IInv, Reading
<1>7. TypeOK'
  <2>1. job' \in [Messages -> {"none", "queued", "running", "done", "failed", "asked"}]
    BY <1>1, <1>3 DEF TypeOK
  <2>2. read' \in [Mails -> [Workers -> Nat]]
    BY <1>3 DEF TypeOK, CommitPass
  <2>3. met' \in [Mails -> SUBSET Workers]
    BY <1>3 DEF TypeOK, CommitPass
  <2>4. covered' \subseteq Mails
    BY <1>2, <1>3 DEF TypeOK
  <2>5. /\ polling' \subseteq Workers
        /\ todo' \in [Workers -> SUBSET (copies \cup Mails)]
        /\ doing' \in [Workers -> SUBSET (copies \cup Mails)] /\ due' \in [Workers -> SUBSET Mails]
        /\ \A v \in Workers \ polling' : todo'[v] = {} /\ doing'[v] = {} /\ due'[v] = {}
    BY <1>2, <1>3, CloseClears
  <2>6. QED BY <1>2, <1>3, <1>6, <2>1, <2>2, <2>3, <2>4, <2>5 DEF TypeOK
<1>8. Attempts'
  <2> SUFFICES ASSUME NEW m \in Messages PROVE Account(m)'
    BY DEF Attempts
  <2>1. Account(m)
    BY Numbers
  <2>2. job'[m] = job[m] \/ (job[m] = "none" /\ job'[m] = "queued" /\ m \notin Cards)
    BY <1>1
  <2>3. QED BY <1>2, <2>1, <2>2 DEF Account, Still, One
<1>9. Answers' /\ Clocked'
  BY <1>2 DEF IInv, Answers, Clocked
<1>10. \A a \in Mails, q \in Workers : read'[a][q] <= 1 /\ (read'[a][q] > 0 => q \in met'[a])
  <2> SUFFICES ASSUME NEW a \in Mails, NEW q \in Workers
      PROVE  read'[a][q] <= 1 /\ (read'[a][q] > 0 => q \in met'[a])
    OBVIOUS
  <2>1. read[a][q] \in Nat /\ read[a][q] <= 1 /\ (read[a][q] > 0 => q \in met[a])
    BY DEF IInv, TypeOK, Reading
  <2>2. CASE q = w /\ a \in doing[w]
    <3>1. read[a][w] = 0 /\ (IsRead(a) => w \in met[a])
      BY <2>2 DEF IInv, Reading
    <3>2. w \in met'[a]
      BY <1>5, <2>2, <3>1
    <3>3. QED BY <1>4, <2>2, <3>1, <3>2
  <2>3. CASE ~(q = w /\ a \in doing[w])
    <3>1. read'[a][q] = read[a][q]
      BY <1>4, <2>3
    <3>2. read[a][q] > 0 => IsRead(a)
      BY DEF IsRead
    <3>3. QED BY <1>5, <2>1, <3>1, <3>2
  <2>4. QED BY <2>2, <2>3
<1>11. ASSUME NEW v \in Workers
       PROVE  /\ doing'[v] \subseteq Mails
              /\ \A a \in doing'[v] : read'[a][v] = 0 /\ (IsRead(a)' => v \in met'[a])
  <2>1. CASE v = w
    BY <1>2, <1>3, <2>1, CloseClears
  <2>2. CASE v # w
    <3>1. doing'[v] = doing[v]
      BY <1>2, <1>3, <2>2, CloseClears
    <3>2. /\ doing[v] \subseteq Mails
          /\ \A a \in doing[v] : read[a][v] = 0 /\ (IsRead(a) => v \in met[a])
      BY DEF IInv, Reading
    <3>3. QED BY <1>4, <1>5, <2>2, <3>1, <3>2
  <2>3. QED BY <2>1, <2>2
<1>12. ASSUME NEW v \in Workers, NEW a \in due'[v]
       PROVE  /\ a \in Arrived' /\ Known(a)'
              /\ a \in todo'[v] \/ a \in doing'[v] \/ IsRead(a)'
  <2>1. v # w /\ todo'[v] = todo[v] /\ doing'[v] = doing[v] /\ due'[v] = due[v]
    BY <1>2, <1>3, <1>12, CloseClears
  <2>2. a \in Arrived /\ Known(a) /\ (a \in todo[v] \/ a \in doing[v] \/ IsRead(a))
    BY <2>1 DEF IInv, Reading
  <2>3. a \in Mails /\ a \in Arrived' /\ Known(a)'
    BY <1>2, <2>2 DEF Arrived, Known
  <2>4. QED BY <1>5, <2>1, <2>2, <2>3
<1>13. Reading'
  BY <1>6, <1>10, <1>11, <1>12 DEF Reading
<1>14. NoReplyMissed'
  <2>1. \A a \in covered : a \in Mails /\ IsRead(a)
    BY DEF IInv, TypeOK, NoReplyMissed, IsRead
  <2>2. \A a \in due[w] : a \in Mails /\ (a \in doing[w] \/ IsRead(a))
    BY <1>2 DEF IInv, TypeOK, Reading
  <2>3. \A a \in covered' : IsRead(a)'
    BY <1>2, <1>5, <2>1, <2>2
  <2>4. QED BY <2>3 DEF NoReplyMissed, IsRead
<1>15. QED BY <1>7, <1>8, <1>9, <1>13, <1>14 DEF IInv

LEMMA PollFailsKeeps ==
  ASSUME IInv, NEW w \in Workers, PollFails(w) PROVE IInv'
<1>1. TypeOK'
  BY DEF IInv, TypeOK, PollFails
<1>2. Attempts' /\ Answers'
  BY DEF IInv, Attempts, Account, Still, Answers, PollFails
<1>3. Reading' /\ NoReplyMissed'
  BY ReadingStays DEF PollFails
<1>4. Clocked'
  BY DEF IInv, TypeOK, Clocked, PollFails
<1>5. QED BY <1>1, <1>2, <1>3, <1>4 DEF IInv

\* A pass that is taken back leaves what the others owe.
LEMMA ClosedReads ==
  ASSUME IInv, NEW w \in Workers, Close(w), UNCHANGED <<answer, rows, heard>>
  PROVE  Reading' /\ NoReplyMissed'
<1>1. TypeOK
  BY DEF IInv
<1>2. \A a : IsRead(a)' = IsRead(a) /\ Known(a)' = Known(a)
  BY DEF IsRead, Known
<1>3. Arrived' = Arrived
  BY DEF Arrived
<1>4. \A v \in Workers :
        \/ todo'[v] = {} /\ doing'[v] = {} /\ due'[v] = {}
        \/ todo'[v] = todo[v] /\ doing'[v] = doing[v] /\ due'[v] = due[v]
  BY <1>1, CloseClears
<1>5. Reading'
  BY <1>2, <1>3, <1>4 DEF IInv, Reading
<1>6. QED BY <1>5 DEF IInv, NoReplyMissed

LEMMA PassFailsKeeps ==
  ASSUME IInv, NEW w \in Workers, PassFails(w) PROVE IInv'
<1>1. TypeOK'
  BY CloseClears DEF IInv, TypeOK, PassFails
<1>2. Attempts' /\ Answers' /\ Clocked'
  BY DEF IInv, Attempts, Account, Still, Answers, Clocked, PassFails
<1>3. Reading' /\ NoReplyMissed'
  BY ClosedReads DEF PassFails
<1>4. QED BY <1>1, <1>2, <1>3 DEF IInv

-----------------------------------------------------------------------------
(* The notes, the time and the deaths.                                     *)

LEMMA NoteKeeps ==
  ASSUME IInv, NEW n \in Notes,
         AskForNote(n) \/ (\E w \in Workers : AutoNote(n, w)) \/ ApproveNote(n)
  PROVE  IInv'
<1>1. UNCHANGED <<now, bounds, mailing, box, last, pass, heard>>
  BY DEF AskForNote, AutoNote, ApproveNote
<1>2. TypeOK'
  <2>1. CASE AskForNote(n)
    BY <2>1 DEF IInv, TypeOK, AskForNote
  <2>5. ASSUME NEW p \in Processes, NEW sofar \in Nat, SendNote(n, p, sofar) PROVE TypeOK'
    <3>1. /\ note' \in [Notes -> {"none", "queued", "assisted", "ruled", "recorded"}]
          /\ handed' \in [Notes -> Nat] /\ blocked' \in [Processes -> BOOLEAN]
      <4>1. /\ note \in [Notes -> {"none", "queued", "assisted", "ruled", "recorded"}]
            /\ handed \in [Notes -> Nat] /\ blocked \in [Processes -> BOOLEAN]
        BY DEF IInv, TypeOK
      <4>2. PICK k \in {sofar, sofar + 1} : handed' = [handed EXCEPT ![n] = k]
        BY <2>5 DEF SendNote
      <4>3. blocked' = blocked \/ \E walled \in BOOLEAN : blocked' = [blocked EXCEPT ![p] = walled]
        BY <2>5 DEF SendNote
      <4>4. k \in Nat
        OBVIOUS
      <4>5. note' = [note EXCEPT ![n] = "recorded"]
        BY <2>5 DEF SendNote
      <4>6. QED BY <4>1, <4>2, <4>3, <4>4, <4>5
    <3>2. QED BY <1>1, <3>1 DEF IInv, TypeOK
  <2>6. handed[n] \in Nat
    BY DEF IInv, TypeOK
  <2>2. ASSUME NEW w \in Workers, AutoNote(n, w) PROVE TypeOK'
    <3>1. w \in Processes /\ SendNote(n, w, handed[n])
      BY <2>2 DEF AutoNote, Processes
    <3>2. QED BY <2>5, <2>6, <3>1
  <2>3. CASE ApproveNote(n)
    <3>1. PICK sofar \in {handed[n], handed[n] + 1} : SendNote(n, Web, sofar)
      BY <2>3 DEF ApproveNote
    <3>2. Web \in Processes /\ sofar \in Nat
      BY <2>6 DEF Processes
    <3>3. QED BY <2>5, <3>1, <3>2
  <2>4. QED BY <2>1, <2>2, <2>3
<1>3. Attempts' /\ Answers' /\ Clocked'
  BY <1>1 DEF IInv, Attempts, Account, Still, Answers, Clocked
<1>4. Reading' /\ NoReplyMissed'
  BY <1>1, ReadingStays
<1>5. QED BY <1>2, <1>3, <1>4 DEF IInv

LEMMA TickKeeps ==
  ASSUME IInv, Tick PROVE IInv'
<1>1. now \in Nat /\ now' = now + 1 /\ now < course.until /\ course.until \in Nat
  <2>1. course.until \in Nat
    BY DEF IInv, TypeOK
  <2>2. QED BY <2>1 DEF IInv, TypeOK, Tick
<1>2. TypeOK' /\ Clocked'
  <2>1. now' \in 0 .. course.until
    BY <1>1
  <2>2. TypeOK'
    BY <2>1 DEF IInv, TypeOK, Tick
  <2>3. \A w \in Workers : last[w] \in Int /\ last[w] <= now
    BY DEF IInv, TypeOK, Clocked
  <2>4. Clocked'
    BY <1>1, <2>3 DEF Clocked, Tick
  <2>5. QED BY <2>2, <2>4
<1>3. Attempts' /\ Answers'
  BY DEF IInv, Attempts, Account, Still, Answers, Tick
<1>4. Reading' /\ NoReplyMissed'
  BY ReadingStays DEF Tick
<1>5. QED BY <1>2, <1>3, <1>4 DEF IInv

LEMMA DieKeeps ==
  ASSUME IInv, NEW p \in Processes, Die(p) PROVE IInv'
<1>1. course' = course /\ mishaps' \in 0 .. course.mishaps /\ blocked' \in [Processes -> BOOLEAN]
  BY DEF IInv, TypeOK, Die, Spend
<1>2. Attempts' /\ Answers'
  BY DEF IInv, Attempts, Account, Still, Answers, Die
<1>3. CASE p \in Workers
  <2>1. Close(p) /\ last' = [last EXCEPT ![p] = -1] /\ UNCHANGED <<now, mailing, box, heard, note, handed>>
    BY <1>3 DEF Die
  <2>2. last' \in [Workers -> Nat \cup {-1}]
    BY <2>1 DEF IInv, TypeOK
  <2>3. TypeOK'
    BY <1>1, <1>3, <2>1, <2>2, CloseClears DEF IInv, TypeOK
  <2>4. Reading' /\ NoReplyMissed'
    BY <1>3, <2>1, ClosedReads
  <2>5. Clocked'
    BY <2>1 DEF IInv, TypeOK, Clocked
  <2>6. QED BY <1>2, <2>3, <2>4, <2>5 DEF IInv
<1>4. CASE p \notin Workers
  <2>1. UNCHANGED <<now, mailing, box, last, pass, heard, note, handed>>
    BY <1>4 DEF Die
  <2>2. TypeOK'
    BY <1>1, <2>1 DEF IInv, TypeOK
  <2>3. Reading' /\ NoReplyMissed'
    BY <2>1, ReadingStays
  <2>4. Clocked'
    BY <2>1 DEF IInv, Clocked
  <2>5. QED BY <1>2, <2>2, <2>3, <2>4 DEF IInv
<1>5. QED BY <1>3, <1>4

-----------------------------------------------------------------------------
\* The strengthened invariant is preserved by every step.
THEOREM Invariance == Spec => []IInv
<1>1. IInv /\ [Next]_vars => IInv'
  <2> SUFFICES ASSUME IInv, [Next]_vars PROVE IInv'
    OBVIOUS
  <2>1. CASE UNCHANGED vars
    <3>1. TypeOK' /\ Attempts' /\ Answers' /\ Clocked'
      BY <2>1 DEF IInv, TypeOK, Attempts, Account, Still, Answers, Clocked
    <3>2. Reading' /\ NoReplyMissed'
      BY <2>1, ReadingStays
    <3>3. QED BY <3>1, <3>2 DEF IInv
  <2>2. CASE Tick
    BY <2>2, TickKeeps
  <2>3. ASSUME NEW m \in Messages, Jobs(m) PROVE IInv'
    BY <2>3, ClaimKeeps, RunEndsKeeps, SweepKeeps, AskKeeps, RequeueKeeps DEF Jobs
  <2>4. ASSUME NEW m \in Messages, Sends(m) PROVE IInv'
    BY <2>4, BeginKeeps, ApproveKeeps, PostFailsKeeps, PostSucceedsKeeps, RecordKeeps,
       LookUpFailsKeeps, SendLostKeeps DEF Sends
  <2>5. ASSUME NEW a \in Mails, Write(a) PROVE IInv'
    BY <2>5, WriteKeeps
  <2>6. ASSUME NEW w \in Workers, Polls(w) PROVE IInv'
    BY <2>6, PollKeeps, PollFailsKeeps, ProcessKeeps, CommitKeeps, PassFailsKeeps DEF Polls
  <2>7. ASSUME NEW n \in Notes,
               AskForNote(n) \/ (\E w \in Workers : AutoNote(n, w)) \/ ApproveNote(n)
        PROVE  IInv'
    BY <2>7, NoteKeeps
  <2>8. ASSUME NEW p \in Processes, Die(p) PROVE IInv'
    BY <2>8, DieKeeps
  <2>9. QED BY <2>1, <2>2, <2>3, <2>4, <2>5, <2>6, <2>7, <2>8 DEF Next
<1>2. QED BY InitKeeps, <1>1, PTL DEF Spec

\* Rows, mails, passes and notes keep their types, and no pass leaves anything.
THEOREM TypeCorrect == Spec => []TypeOK
<1>1. IInv => TypeOK
  BY DEF IInv
<1>2. QED BY <1>1, Invariance, PTL

\* With any number of polling processes, a mail is ingested once by each of
\* those that had looked for it before it was on file, and never by another.
THEOREM IngestedOnce == Spec => []ReadOnce
<1>1. IInv => ReadOnce
  BY DEF IInv, Reading, ReadOnce
<1>2. QED BY <1>1, Invariance, PTL

\* For any overlap and page size, an answer a whole pass had to see was read.
THEOREM AnswersAreRead == Spec => []NoReplyMissed
<1>1. IInv => NoReplyMissed
  BY DEF IInv
<1>2. QED BY <1>1, Invariance, PTL

\* However many runs sweeps, retries, deaths and lost records leave a job with,
\* its mail leaves no more often than the sweeps and retries account for.
THEOREM FewCopies == Spec => []CopiesBounded
<1>1. ASSUME IInv PROVE CopiesBounded
  <2> SUFFICES ASSUME NEW m \in Messages
      PROVE  /\ left[m] <= IF m \in Cards THEN clicked[m] ELSE MaxTries * (1 + retried[m]) + swept[m]
             /\ record[m] # 0 => left[m] = record[m]
    BY DEF CopiesBounded
  <2>1. Still(m) >= 0 /\ Still(m) \in Int
    BY <1>1, Numbers DEF Still, One, MaxTries
  <2>2. QED BY <1>1, <2>1, Numbers DEF Account, One, MaxTries
<1>2. QED BY <1>1, Invariance, PTL
=============================================================================
