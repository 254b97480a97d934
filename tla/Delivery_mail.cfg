SPECIFICATION Spec
CONSTANTS
  o1 = o1
  c1 = c1
  a1 = a1
  n1 = n1
  w1 = w1
  w2 = w2
  Openings = {o1}
  Cards = {c1}
  Mails = {a1}
  Own = {a1}
  Notes = {n1}
  Workers = {w1, w2}
  Web = web
  Every = 1
  Overlap = 2
  First = 3
  Page = 2
  Courses <- MCCourses
SYMMETRY Symmetric
CHECK_DEADLOCK FALSE
INVARIANT TypeOK
INVARIANT ReadOnce
 
INVARIANT NoReplyMissed
