SPECIFICATION Spec
CONSTANTS
  A = A
  B = B
  C = C
  None = None
  Campaigns = {A, B, C}
  Priority <- MCPriority
  Customers = {C}
  Scores = {1}
  Txs = {t1, t2}
  Repeats <- MCRepeats
  Budget = 2
CHECK_DEADLOCK FALSE
INVARIANT TypeOK
 
INVARIANT WaitersHaveACase
 
PROPERTY LedgerSpec
PROPERTY Decided
