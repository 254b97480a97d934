SPECIFICATION Spec
CONSTANTS
  e1 = e1
  e2 = e2
  r1 = r1
  r2 = r2
  f1 = f1
  f2 = f2
  t1 = t1
  Researches = {e1, e2}
  Replies = {r1, r2}
  Loads <- MCLoads
  Facts = {f1, f2}
  Record = {f1}
  Results <- MCResults
  Tools = {t1}
  Submits = 2
  Deaths = 1
CHECK_DEADLOCK FALSE
INVARIANT TypeOK
INVARIANT DecisionsReadOnce
INVARIANT FactOnce
PROPERTY LostOnlyByOverlap
PROPERTY EveryJobEnds
