SPECIFICATION Spec
CONSTANTS
  Task = {1, 2, 3}
  Tgid <- TwoProcesses
  Priority <- Priorities
  EnableChaos = FALSE
  AlwaysSwitch = FALSE
  Nice <- NiceValues
  WaitForAll = FALSE
  Syscalls = {"blocking", "sched_yield", "exit", "clone"}
  Inputs = {"sigstop"}
INVARIANTS
  TypeOK
  AssertionsHold
  OneTaskRuns
PROPERTIES
  QSpec
  EmulatedStopHolds
