SPECIFICATION Spec
CONSTANTS
  A = A
  B = B
  a1 = a1
  a2 = a2
  b1 = b1
  r1 = r1
  r2 = r2
  None = None
  Campaigns = {A}
  Touches = {a1, a2}
  CampOf <- MCCampOf
  Day <- SameDays
  Planned <- MCPlanned
  RepOf <- MCRepOf
  Items = {i1, i2}
  Txs = {d1, d2}
  TouchLimit = 1
  MaxJobs = 1
  Budget = 0
SYMMETRY Symmetric
CHECK_DEADLOCK FALSE
INVARIANT DoneWasSent
INVARIANT Accounted
