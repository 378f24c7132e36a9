SPECIFICATION FairSpec
CONSTANTS
  Sessions <- SessionsDef
  ProcOf <- ProcOfDef
  TargetEvent = 1
  KeepListening = TRUE
  MaxCheckpoints = 1
  MaxDiversions = 2
CHECK_DEADLOCK FALSE
INVARIANTS
  RegistersAgree
  
  CheckpointsKept
PROPERTY
  InterruptAnswered
