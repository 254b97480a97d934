------------------------------ MODULE Delivery ------------------------------
(***************************************************************************)
(* The channels: mails that leave through Gmail, the mails that come back  *)
(* and are polled for, and LinkedIn notes that a browser bot sends or a    *)
(* person confirms (channels/adapters.py, base.py, inbound.py).            *)
(*                                                                         *)
(* A mail leaves inside the transaction that records it.  The poller       *)
(* remembers its last poll in memory only, asks for what came in since two *)
(* minutes before it, and reads what it finds in the one transaction of a  *)
(* maintenance pass.  Every process with a worker's loop polls for itself. *)
(* The mailbox is also the one of the test prospects: copies of our own    *)
(* mails come in with the answers.                                         *)
(*                                                                         *)
(* What the gate decides is module Outreach's, what ingest_reply() does    *)
(* with a text is Conversation's and Hosted's.                             *)
(***************************************************************************)
EXTENDS Integers, FiniteSets

CONSTANTS
  Openings, \* mails that the jobs of a plan send
  Cards,    \* mails that a manager's approval sends
  Mails,    \* mails the prospects write; each may get one reply of ours
  Own,      \* those of all that go to addresses of our own mailbox
  Notes,    \* LinkedIn notes
  Workers,  \* processes that run the worker's loop
  Web,      \* the process of the API
  Every,    \* POLL_EVERY
  Overlap,  \* what a poll goes back behind the one before it: two minutes
  First,    \* what the first poll of a process goes back: ten minutes
  Page,     \* maxResults
  Courses   \* bound: what may come up together, for whom, the time and the mishaps

Messages  == Openings \cup Cards \cup Mails
Processes == Workers \cup {Web}
MaxTries  == 3

ASSUME DeliveryAssumption ==
  /\ Openings \cap Cards = {} /\ (Openings \cup Cards) \cap Mails = {}
  /\ Courses \subseteq [up : SUBSET (Openings \cup Cards \cup Notes), mails : SUBSET Mails,
                        workers : SUBSET Workers, until : Nat, mishaps : Nat]
  /\ Every \in Nat \ {0} /\ First \in Nat \ {0} /\ Overlap \in Nat /\ Page \in Nat

VARIABLES
  now,      \* the time, in units of Every
  course,   \* the member of Courses this behaviour follows
  mishaps,  \* bound: deaths, lost failure records, sweeps of live runs, retries, clicks left
  job,      \* jobs.status of the job that sends a message, or its approval's: "asked"
  tries,    \* jobs.attempts, counted to MaxTries
  young,    \* runs of the job that a failure puts back, before their mail
  old,      \* runs of the job that have used up the attempts, before their mail
  post,     \* the transaction that holds the message's row: its mail still to leave, or left
  again,    \* a failure of that transaction puts the job back
  asking,   \* open retry requests that have read the job as failed
  left,     \* how often a message has left
  record,   \* the copy the committed row of a message is about, 0: no row
  named,    \* the row has the Message-ID Gmail gave that copy, and not ours
  retried,  \* history: retries of the job
  swept,    \* history: sweeps of the job
  clicked,  \* history: approvals begun
  copies,   \* copies of our mails in the mailbox
  answer,   \* the mails of the prospects in the mailbox
  last,     \* _last_poll of each process, -1: none
  polling,  \* processes whose maintenance pass reads mails
  todo,     \* what each pass has listed and not yet read
  doing,    \* what each pass has ingested and not yet committed
  due,      \* history: answers that the open pass must come to read
  read,     \* how often each process ingested a mail of a prospect
  met,      \* history: the passes that had looked for a mail when it was first filed
  strayed,  \* history: copies of our own mails that were ingested
  covered,  \* history: answers that some pass had to come to read
  note,     \* where a LinkedIn note is
  handed,   \* how often a note has reached its prospect
  blocked   \* is_blocked of the adapter in a process

bounds  == <<course, mishaps>>
queue   == <<job, tries, asking, retried, swept>>
runs    == <<young, old>>
sending == <<post, again, clicked>>
rows    == <<record, named>>
box     == <<copies, answer>>
pass    == <<polling, todo, doing, due>>
heard   == <<read, met, strayed, covered>>
linked  == <<note, handed, blocked>>
mailing == <<queue, runs, sending, left, rows>>
vars    == <<now, bounds, mailing, box, last, pass, heard, linked>>

Copy   == [of : Messages, copy : Nat, at : Nat]
NoMail == [at |-> -1]
Arrived == {a \in Mails : answer[a] # NoMail}

TypeOK ==
  /\ course \in Courses /\ now \in 0 .. course.until /\ mishaps \in 0 .. course.mishaps
  /\ job \in [Messages -> {"none", "queued", "running", "done", "failed", "asked"}]
  /\ tries \in [Messages -> 0 .. MaxTries]
  /\ young \in [Messages -> Nat] /\ old \in [Messages -> Nat]
  /\ post \in [Messages -> {"idle", "open", "left"}] /\ again \in [Messages -> BOOLEAN]
  /\ asking \in [Messages -> Nat] /\ retried \in [Messages -> Nat]
  /\ swept \in [Messages -> Nat] /\ clicked \in [Messages -> Nat]
  /\ left \in [Messages -> Nat] /\ record \in [Messages -> Nat]
  /\ named \in [Messages -> BOOLEAN]
  /\ copies \subseteq Copy
  /\ answer \in [Mails -> Copy \cup {NoMail}]
  /\ last \in [Workers -> Nat \cup {-1}]
  /\ polling \subseteq Workers
  /\ todo \in [Workers -> SUBSET (copies \cup Mails)]
  /\ doing \in [Workers -> SUBSET (copies \cup Mails)]
  /\ due \in [Workers -> SUBSET Mails]
  /\ read \in [Mails -> [Workers -> Nat]]
  /\ met \in [Mails -> SUBSET Workers]
  /\ strayed \subseteq copies /\ covered \subseteq Mails
  /\ note \in [Notes -> {"none", "queued", "assisted", "ruled", "recorded"}]
  /\ handed \in [Notes -> Nat]
  /\ blocked \in [Processes -> BOOLEAN]
  /\ \A w \in Workers \ polling : todo[w] = {} /\ doing[w] = {} /\ due[w] = {}

Zero(S) == [x \in S |-> 0]

Init ==
  /\ now = 0
  /\ course \in Courses /\ mishaps = course.mishaps
  /\ job = [m \in Messages |-> IF m \notin course.up THEN "none" ELSE IF m \in Cards THEN "asked" ELSE "queued"]
  /\ note = [n \in Notes |-> IF n \in course.up THEN "queued" ELSE "none"]
  /\ tries = Zero(Messages) /\ young = Zero(Messages) /\ old = Zero(Messages)
  /\ post = [m \in Messages |-> "idle"] /\ again = [m \in Messages |-> FALSE]
  /\ asking = Zero(Messages) /\ retried = Zero(Messages) /\ swept = Zero(Messages) /\ clicked = Zero(Messages)
  /\ left = Zero(Messages) /\ record = Zero(Messages)
  /\ named = [m \in Messages |-> FALSE]
  /\ copies = {}
  /\ answer = [a \in Mails |-> NoMail]
  /\ last = [w \in Workers |-> -1]
  /\ polling = {}
  /\ todo = [w \in Workers |-> {}] /\ doing = todo /\ due = todo
  /\ read = [a \in Mails |-> Zero(Workers)] /\ met = [a \in Mails |-> {}]
  /\ strayed = {} /\ covered = {}
  /\ handed = Zero(Notes)
  /\ blocked = [p \in Processes |-> FALSE]

Tick ==
  /\ now < course.until
  /\ now' = now + 1
  /\ UNCHANGED <<bounds, mailing, box, last, pass, heard, linked>>

\* One of the mishaps the bound allows.
Spend == mishaps > 0 /\ mishaps' = mishaps - 1 /\ UNCHANGED course

-----------------------------------------------------------------------------
(* The job of a mail, and its runs.                                        *)

elsewhere == <<now, box, last, pass, heard, linked>>

ClaimUncounted(m) ==
  /\ job[m] = "queued"
  /\ job' = [job EXCEPT ![m] = "running"]
  /\ tries' = [tries EXCEPT ![m] = IF @ < MaxTries THEN @ + 1 ELSE @]
  /\ IF tries[m] < MaxTries THEN young' = [young EXCEPT ![m] = @ + 1] /\ UNCHANGED old
                            ELSE old' = [old EXCEPT ![m] = @ + 1] /\ UNCHANGED young
  /\ UNCHANGED <<elsewhere, bounds, asking, retried, swept, sending, left, rows>>

\* claim() counts the attempt; the run keeps the number it was given.
Claim(m) ==
  /\ job[m] = "queued"
  /\ job' = [job EXCEPT ![m] = "running"]
  /\ LET n == IF tries[m] < MaxTries THEN tries[m] + 1 ELSE MaxTries IN
       /\ tries' = [tries EXCEPT ![m] = n]
       /\ IF n < MaxTries THEN young' = [young EXCEPT ![m] = @ + 1] /\ UNCHANGED old
                          ELSE old' = [old EXCEPT ![m] = @ + 1] /\ UNCHANGED young
  /\ UNCHANGED <<elsewhere, bounds, asking, retried, swept, sending, left, rows>>

\* One run less, of those a failure puts back (retry) or of the others.
Drop(m, retry) ==
  IF retry THEN young[m] > 0 /\ young' = [young EXCEPT ![m] = @ - 1] /\ UNCHANGED old
           ELSE old[m] > 0 /\ old' = [old EXCEPT ![m] = @ - 1] /\ UNCHANGED young

\* run_one() rolls the transaction back, record_failure() writes the job's row
\* whatever it has become; an approval stays open.
Failed(m, retry) ==
  job' = [job EXCEPT ![m] = IF m \in Cards THEN @ ELSE IF retry THEN "queued" ELSE "failed"]

\* A run that ends before its mail: the draft fails, the gate puts it off, the
\* mail has a row already (or its job was not running when the run began), or
\* nothing is left of the run.
RunEnds(m) ==
  /\ \E retry \in BOOLEAN :
       /\ Drop(m, retry)
       /\ \/ Failed(m, retry) /\ UNCHANGED bounds
          \/ job' = [job EXCEPT ![m] = "queued"] /\ UNCHANGED bounds
          \/ record[m] # 0 /\ job' = [job EXCEPT ![m] = "done"] /\ UNCHANGED bounds
          \/ job[m] # "running" /\ UNCHANGED <<job, bounds>>
          \/ Spend /\ UNCHANGED job
  /\ UNCHANGED <<elsewhere, tries, asking, retried, swept, sending, left, rows>>

\* maintenance() puts a job back that has been running for three minutes,
\* dead or not.
Sweep(m) ==
  /\ job[m] = "running"
  /\ job' = [job EXCEPT ![m] = "queued"]
  /\ swept' = [swept EXCEPT ![m] = @ + 1]
  /\ \/ young[m] + old[m] = 0 /\ post[m] = "idle" /\ UNCHANGED bounds
     \/ Spend
  /\ UNCHANGED <<elsewhere, tries, asking, retried, runs, sending, left, rows>>

\* POST /agent-runs/{id}/retry looks for a failed job without locking it ...
AskRetry(m) ==
  /\ job[m] = "failed" /\ Spend
  /\ asking' = [asking EXCEPT ![m] = @ + 1]
  /\ UNCHANGED <<elsewhere, job, tries, retried, swept, runs, sending, left, rows>>

\* ... and then queues it with no attempt counted, whatever it has become.
Requeue(m) ==
  /\ asking[m] > 0
  /\ asking' = [asking EXCEPT ![m] = @ - 1]
  /\ job' = [job EXCEPT ![m] = "queued"]
  /\ tries' = [tries EXCEPT ![m] = 0]
  /\ retried' = [retried EXCEPT ![m] = @ + 1]
  /\ UNCHANGED <<elsewhere, bounds, swept, runs, sending, left, rows>>

-----------------------------------------------------------------------------
(* GmailAdapter.send() in the transaction of send_step(), send_reply() or  *)
(* approve_item().                                                         *)

\* mk_msg(): the row and its idempotency key stay in the open transaction,
\* which another one with that key waits for.
BeginSend(m) ==
  /\ post[m] = "idle" /\ record[m] = 0
  /\ \E retry \in BOOLEAN :
       Drop(m, retry) /\ again' = [again EXCEPT ![m] = retry]
  /\ post' = [post EXCEPT ![m] = "open"]
  /\ UNCHANGED <<elsewhere, bounds, queue, clicked, left, rows>>

\* approve_item() holds the approval's row; what failed can be clicked again.
Approve(m) ==
  /\ job[m] = "asked" /\ post[m] = "idle"
  /\ IF clicked[m] = 0 THEN UNCHANGED bounds ELSE Spend
  /\ clicked' = [clicked EXCEPT ![m] = @ + 1]
  /\ post' = [post EXCEPT ![m] = "open"]
  /\ UNCHANGED <<elsewhere, queue, runs, again, left, rows>>

\* The mail is on its way; a test prospect's lands in our own mailbox.
Leave(m) ==
  /\ left' = [left EXCEPT ![m] = @ + 1]
  /\ copies' = IF m \in Own THEN copies \cup {[of |-> m, copy |-> left[m] + 1, at |-> now]} ELSE copies
  /\ UNCHANGED answer

\* The post is refused, or it times out before the mail or after it has left.
PostFails(m) ==
  /\ post[m] = "open"
  /\ post' = [post EXCEPT ![m] = "idle"]
  /\ Failed(m, again[m])
  /\ \/ UNCHANGED <<left, box>>
     \/ Leave(m)
  /\ UNCHANGED <<now, bounds, tries, asking, retried, swept, runs, again, clicked, rows, last, pass, heard, linked>>

PostSucceeds(m) ==
  /\ post[m] = "open"
  /\ post' = [post EXCEPT ![m] = "left"]
  /\ Leave(m)
  /\ UNCHANGED <<now, bounds, queue, runs, again, clicked, rows, last, pass, heard, linked>>

\* _assigned_message_id(): Gmail's own id, or ours where it does not answer
\* well.  finish_job() writes the job's row whatever it has become.
RecordSend(m) ==
  /\ post[m] = "left"
  /\ post' = [post EXCEPT ![m] = "idle"]
  /\ job' = [job EXCEPT ![m] = "done"]
  /\ record' = [record EXCEPT ![m] = left[m]]
  /\ \E told \in BOOLEAN : named' = [named EXCEPT ![m] = told]
  /\ UNCHANGED <<elsewhere, bounds, tries, asking, retried, swept, runs, again, clicked, left>>

\* No token for the look-up, or it times out: the mail has left, the row is gone.
LookUpFails(m) ==
  /\ post[m] = "left"
  /\ post' = [post EXCEPT ![m] = "idle"]
  /\ Failed(m, again[m])
  /\ UNCHANGED <<elsewhere, bounds, tries, asking, retried, swept, runs, again, clicked, left, rows>>

\* The process dies, or the failure cannot be recorded.
SendLost(m) ==
  /\ post[m] # "idle" /\ Spend
  /\ post' = [post EXCEPT ![m] = "idle"]
  /\ UNCHANGED <<elsewhere, queue, runs, again, clicked, left, rows>>

\* A prospect answers a copy it got.
Write(a) ==
  /\ a \in course.mails /\ answer[a] = NoMail
  /\ \E m \in Messages : \E k \in 1 .. left[m] :
       answer' = [answer EXCEPT ![a] = [of |-> m, copy |-> k, at |-> now]]
  /\ UNCHANGED <<now, bounds, mailing, copies, last, pass, heard, linked>>

-----------------------------------------------------------------------------
(* poll_all() and process_email() in the maintenance pass of a process w.  *)

SinceLast(w) == IF last[w] = -1 THEN now - First ELSE last[w]

Since(w) == IF last[w] = -1 THEN now - First - Overlap ELSE last[w] - Overlap

At(x) == IF x \in Mails THEN answer[x].at ELSE x.at
Window(w) == {x \in copies \cup Arrived : At(x) > Since(w)}

\* A listing is the newest page of the window.
Listings(w) == {L \in SUBSET Window(w) :
                  /\ Cardinality(L) <= Page
                  /\ L # Window(w) => Cardinality(L) = Page
                  /\ \A x \in L, y \in Window(w) \ L : At(x) >= At(y)}

\* A row of ours has the id of the copy that is answered.
Known(a) == record[answer[a].of] = answer[a].copy /\ named[answer[a].of]

\* A pass that gets to see everything must read these.
Due == {a \in Arrived : Known(a) /\ answer[a].at < now /\ now <= answer[a].at + Overlap}

MayPoll(w) == w \in course.workers \ polling /\ (last[w] = -1 \/ now - last[w] >= Every)

\* The time of the poll is kept before the mailbox is asked; a mail that cannot
\* be fetched is passed over.
Poll(w) ==
  /\ MayPoll(w)
  /\ last' = [last EXCEPT ![w] = now]
  /\ polling' = polling \cup {w}
  /\ \E L \in Listings(w) : \E fetched \in SUBSET L :
       /\ todo' = [todo EXCEPT ![w] = fetched]
       /\ due' = [due EXCEPT ![w] = IF fetched = Window(w) THEN Due ELSE {}]
  /\ UNCHANGED <<now, bounds, mailing, box, doing, heard, linked>>

\* ChannelError: the pass goes on without mails.
PollFails(w) ==
  /\ MayPoll(w)
  /\ last' = [last EXCEPT ![w] = now]
  /\ UNCHANGED <<now, bounds, mailing, box, pass, heard, linked>>

\* The ids a mail quotes that are on a row of ours; a reply of ours quotes the
\* mail it answers, whose row is an inbound one.
Matched(x) == x \in Mails /\ Known(x)

StoredInPass(w, x) == IF x \in Mails THEN x \in doing[w] ELSE record[x.of] = x.copy

\* The pass sees the mail on a row: an inbound one that is committed or its
\* own, or one of ours.
Stored(w, x) ==
  IF x \in Mails THEN x \in doing[w] \/ \E q \in Workers : read[x][q] > 0
                 ELSE record[x.of] = x.copy

\* The look comes before the enrollment's lock: another pass that has looked
\* too waits for this one, and ingests the mail all the same.
ProcessEmail(w, x) ==
  /\ x \in todo[w]
  /\ todo' = [todo EXCEPT ![w] = @ \ {x}]
  /\ doing' = IF ~Stored(w, x) /\ Matched(x) THEN [doing EXCEPT ![w] = @ \cup {x}] ELSE doing
  /\ UNCHANGED <<now, bounds, mailing, box, last, polling, due, heard, linked>>

\* Pass w is over.
Close(w) ==
  /\ polling' = polling \ {w}
  /\ todo' = [todo EXCEPT ![w] = {}]
  /\ doing' = [doing EXCEPT ![w] = {}]
  /\ due' = [due EXCEPT ![w] = {}]

\* The pass commits; a reply may be queued for each mail that was ingested.  The
\* second ingestion of a mail has a reply of its own, which is not followed.
CommitPass(w) ==
  /\ w \in polling /\ todo[w] = {}
  /\ Close(w)
  /\ read' = [a \in Mails |-> [q \in Workers |-> IF q = w /\ a \in doing[w] THEN read[a][q] + 1 ELSE read[a][q]]]
  /\ met' = [a \in Mails |-> IF a \in doing[w] /\ \A q \in Workers : read[a][q] = 0
                             THEN {q \in Workers : a \in doing[q]} ELSE met[a]]
  /\ strayed' = strayed \cup (doing[w] \ Mails)
  /\ covered' = covered \cup due[w]
  /\ \E replied \in SUBSET (doing[w] \cap Mails) :
       job' = [m \in Messages |-> IF m \in replied /\ job[m] = "none" THEN "queued" ELSE job[m]]
  /\ UNCHANGED <<now, bounds, tries, asking, retried, swept, runs, sending, left, rows, box, last, linked>>

PassBreaksOff(w) ==
  /\ w \in polling
  /\ polling' = polling \ {w}
  /\ todo' = [todo EXCEPT ![w] = {}] /\ due' = [due EXCEPT ![w] = {}]
  /\ UNCHANGED <<now, bounds, mailing, box, last, doing, heard, linked>>

\* An exception anywhere in the pass takes back all it has ingested, and not
\* the time of the poll.
PassFails(w) ==
  /\ w \in polling
  /\ Close(w)
  /\ UNCHANGED <<now, bounds, mailing, box, last, heard, linked>>

-----------------------------------------------------------------------------
(* LinkedInBrowserAdapter and LinkedInAssisted, in live mode.              *)

\* gate.evaluate(): a bot that runs in this process sends; a blocked one has a
\* person send the note, and a rule of the campaign asks a manager.
AskForNote(n) ==
  /\ note[n] = "queued"
  /\ \/ (\E w \in Workers : blocked[w]) /\ note' = [note EXCEPT ![n] = "assisted"]
     \/ note' = [note EXCEPT ![n] = "ruled"]
  /\ UNCHANGED <<now, bounds, mailing, box, last, pass, heard, handed, blocked>>

\* The bot has handed it over, or fails and leaves the note to the fallback,
\* which returns as if it were sent.
SendNote(n, p, sofar) ==
  /\ note' = [note EXCEPT ![n] = "recorded"]
  /\ \/ ~blocked[p] /\ handed' = [handed EXCEPT ![n] = sofar + 1] /\ UNCHANGED blocked
     \/ /\ ~blocked[p] /\ handed' = [handed EXCEPT ![n] = sofar]
        /\ \E walled \in BOOLEAN : blocked' = [blocked EXCEPT ![p] = walled]
     \/ blocked[p] /\ handed' = [handed EXCEPT ![n] = sofar] /\ UNCHANGED blocked

AutoNote(n, w) ==
  /\ note[n] = "queued" /\ ~blocked[w]
  /\ SendNote(n, w, handed[n])
  /\ UNCHANGED <<now, bounds, mailing, box, last, pass, heard>>

\* approve_item(), in the API's process.  The rep of an assisted note has sent
\* it by hand.
ApproveNote(n) ==
  /\ note[n] \in {"assisted", "ruled"}
  /\ SendNote(n, Web, IF note[n] = "assisted" THEN handed[n] + 1 ELSE handed[n])
  /\ UNCHANGED <<now, bounds, mailing, box, last, pass, heard>>

-----------------------------------------------------------------------------
\* A process dies and starts again: its pass is rolled back, what its memory
\* held is gone.  Its runs and sends end with RunEnds and SendLost.
Die(p) ==
  /\ Spend
  /\ blocked' = [blocked EXCEPT ![p] = FALSE]
  /\ IF p \in Workers THEN Close(p) /\ last' = [last EXCEPT ![p] = -1] ELSE UNCHANGED <<last, pass>>
  /\ UNCHANGED <<now, mailing, box, heard, note, handed>>

Jobs(m) == Claim(m) \/ RunEnds(m) \/ Sweep(m) \/ AskRetry(m) \/ Requeue(m)
Sends(m) ==
  \/ BeginSend(m) \/ Approve(m) \/ PostFails(m) \/ PostSucceeds(m)
  \/ RecordSend(m) \/ LookUpFails(m) \/ SendLost(m)
Polls(w) ==
  \/ Poll(w) \/ PollFails(w) \/ (\E x \in copies \cup Mails : ProcessEmail(w, x))
  \/ CommitPass(w) \/ PassFails(w)

Next ==
  \/ Tick
  \/ \E m \in Messages : Jobs(m) \/ Sends(m)
  \/ \E a \in Mails : Write(a)
  \/ \E w \in Workers : Polls(w)
  \/ \E n \in Notes : AskForNote(n) \/ (\E w \in Workers : AutoNote(n, w)) \/ ApproveNote(n)
  \/ \E p \in Processes : Die(p)

Spec == Init /\ [][Next]_vars

-----------------------------------------------------------------------------
(* Properties                                                              *)

\* A mail of a prospect is ingested once, and once more only by a process whose
\* pass had looked for it before the first one committed; a copy of our own
\* mails never, even when it is polled before the row that would tell it is
\* committed (process_email(), match_enrollment()).
ReadOnce ==
  /\ strayed = {}
  /\ \A a \in Mails, w \in Workers : read[a][w] <= 1 /\ (read[a][w] > 0 => w \in met[a])

\* The mail of a job leaves three times at most, three times more after each
\* retry and once more for each sweep; an approved one once for each click; and
\* none leaves again when its row is on file (claim(), record_failure(), the
\* idempotency key of mk_msg(), the approval's status).
CopiesBounded == \A m \in Messages :
  /\ left[m] <= IF m \in Cards THEN clicked[m] ELSE MaxTries * (1 + retried[m]) + swept[m]
  /\ record[m] # 0 => left[m] = record[m]

\* An answer to a mail on record is not missed if one poll of some process
\* within two minutes of it sees the whole window and its pass commits,
\* whatever happened to the polls and the processes before (poll_all()).
NoReplyMissed == \A a \in covered : \E w \in Workers : read[a][w] > 0

\* channels/adapters.py:295 "so a note is never recorded as sent when no bot
\* could send it".
NoteWasSent == \A n \in Notes : note[n] = "recorded" => handed[n] > 0
=============================================================================
