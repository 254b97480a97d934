SPECIFICATION Spec
CONSTANTS
  j1 = j1
  j2 = j2
  j3 = j3
  NoJob = NoJob
  Jobs = {j1}
  Workers = {w1, w2}
  StepOf <- MCStepOf
  Cap = 1
  GiveUp = 2
  MaxRuns = 2
  MaxTrouble = 3
SYMMETRY Symmetric
INVARIANT RunsAccounted
PROPERTY SettledStaysSettled
PROPERTY LedgerSpec
