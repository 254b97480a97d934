----------------------------- MODULE MCDelivery -----------------------------
(* Instances of Delivery for TLC. *)
EXTENDS Delivery, TLC

CONSTANTS o1, c1, a1, n1, w1, w2

MCCourses ==
  {[up |-> {o1}, mails |-> {a1}, workers |-> {w1, w2}, until |-> 2, mishaps |-> 0],
   [up |-> {o1}, mails |-> {a1}, workers |-> {w1}, until |-> 3, mishaps |-> 0],
   [up |-> {o1}, mails |-> {a1}, workers |-> {w1}, until |-> 2, mishaps |-> 1],
   [up |-> {o1}, mails |-> {}, workers |-> {w1}, until |-> 0, mishaps |-> 3],
   [up |-> {c1}, mails |-> {}, workers |-> {w1}, until |-> 0, mishaps |-> 2],
   [up |-> {n1}, mails |-> {}, workers |-> {w1, w2}, until |-> 0, mishaps |-> 1]}

Symmetric == Permutations(Workers)
=============================================================================
