SPECIFICATION FairSpec
CONSTANTS
  None = None
  Mails = {m1}
  Rows <- Two
  Voices <- One
  Calls <- One
  Txs = {d1, d2}
  Budget = 1
CHECK_DEADLOCK FALSE
INVARIANT TypeOK
INVARIANT OneStraggler
INVARIANT EscalatedIsOpen
PROPERTY CallSettles
 
