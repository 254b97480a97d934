----------------------------- MODULE ClaimLedger ----------------------------
(***************************************************************************)
(* What the contact claims of one prospect promise, without transactions,  *)
(* jobs or enrollments: at most one campaign holds the claim. It takes a   *)
(* free claim; it takes a held one only after a ladder it did not lose by  *)
(* rank against a campaign that held it and had no answer from the         *)
(* prospect, or because a manager gave it a claim it was in conflict over. *)
(***************************************************************************)
EXTENDS Integers

CONSTANTS Campaigns, Priority, Customers, None

VARIABLES
  holder,    \* the campaign of the active claim
  answered,  \* campaigns the prospect wrote to
  duels,     \* ladders won and not yet acted on: challenger and loser
  disputes   \* the conflicts on file: pairs of campaigns

vars == <<holder, answered, duels, disputes>>

\* The rungs of the ladder that no score can turn.
MayOutrank(c, h) ==
  /\ h \notin Customers
  /\ c \in Customers \/ Priority[c] >= Priority[h]

Init == holder = None /\ answered = {} /\ duels = {} /\ disputes = {}

Take(c) ==
  /\ holder = None
  /\ holder' = c
  /\ UNCHANGED <<answered, duels, disputes>>

Release == holder' = None /\ UNCHANGED <<answered, duels, disputes>>

Answer(c) == answered' = answered \cup {c} /\ holder' \in {holder, None} /\ UNCHANGED <<duels, disputes>>

Challenge(c) ==
  /\ holder \notin {None, c} /\ holder \notin answered /\ MayOutrank(c, holder)
  /\ duels' = duels \cup {<<c, holder>>}
  /\ UNCHANGED <<holder, answered, disputes>>

Prevail(d) ==
  /\ holder' = d[1]
  /\ duels' \in {duels, duels \ {d}}
  /\ disputes' \in {disputes, disputes \cup {d}}
  /\ UNCHANGED answered

Withdraw(d) == duels' = duels \ {d} /\ UNCHANGED <<holder, answered, disputes>>

\* A challenger that did not win waits, and the pair is on file.
Wait(c, h) == disputes' = disputes \cup {<<c, h>>} /\ UNCHANGED <<holder, answered, duels>>

Grant(c, h) ==
  /\ {<<c, h>>, <<h, c>>} \cap disputes # {}
  /\ holder' = c
  /\ UNCHANGED <<answered, duels, disputes>>

Erase(c) ==
  /\ holder' = IF holder = c THEN None ELSE holder
  /\ answered' = answered \ {c}
  /\ disputes' = {d \in disputes : c \notin {d[1], d[2]}}
  /\ duels' \subseteq duels

Next ==
  \/ Release
  \/ \E c \in Campaigns : Take(c) \/ Answer(c) \/ Challenge(c) \/ Erase(c)
  \/ \E d \in duels : Prevail(d) \/ Withdraw(d)
  \/ \E c, h \in Campaigns : Wait(c, h) \/ Grant(c, h)

Spec == Init /\ [][Next]_vars
=============================================================================
