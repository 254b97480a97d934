SPECIFICATION FairSpec
CONSTANTS
  j1 = j1
  j2 = j2
  j3 = j3
  NoJob = NoJob
  Jobs = {j1, j3}
  Workers = {w1}
  StepOf <- MCStepOf
  Cap = 1
  GiveUp = 2
  MaxRuns = 2
  MaxTrouble = 2
INVARIANT TypeOK
INVARIANT CapRespected
PROPERTY RunningSettles
