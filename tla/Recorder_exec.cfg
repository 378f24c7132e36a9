SPECIFICATION Spec
CONSTANTS
  Task = {1, 2, 3}
  Tgid <- TwoProcesses
  Priority <- Priorities
  EnableChaos = FALSE
  AlwaysSwitch = FALSE
  Nice <- NiceValues
  WaitForAll = FALSE
  Syscalls = {"blocking", "execve", "clone"}
  Inputs = {}
INVARIANTS
  ExecUnderWay
PROPERTIES
  OnlyExecGroupScheduled
  EventsHandledOnce
