SPECIFICATION Spec
CONSTANTS
  None = None
  Mails = {m1, m2}
  Rows <- Two
  Voices <- One
  Calls <- One
  Txs = {d1}
  Budget = 0
CHECK_DEADLOCK FALSE
PROPERTY CallsAreGated
