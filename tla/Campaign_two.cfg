SPECIFICATION Spec
CONSTANTS
  P1 = P1
  P2 = P2
  Writer = Writer
  Qualifier = Qualifier
  email = email
  linkedin = linkedin
  t1 = t1
  t2 = t2
  None = None
  Prospects = {P1, P2}
  Roles = {Writer, Qualifier}
  Channels = {email, linkedin}
  Txs = {t1, t2}
  Limits = {1, 2}
  Budget = 5
SYMMETRY MCSymmetry
CHECK_DEADLOCK FALSE
INVARIANT TypeOK
INVARIANT SnapshotsAddUp
INVARIANT DryRunDescribes
INVARIANT NobodyForgotten
PROPERTY ClosedStays
