SPECIFICATION Spec
CHECK_DEADLOCK FALSE
CONSTANTS
  Task = {1, 2}
  Tgid <- OneProcess
  Priority <- Priorities
  EnableChaos = TRUE
  AlwaysSwitch = FALSE
  Nice <- NiceValues
  WaitForAll = TRUE
  Syscalls = {"blocking", "quick", "sched_yield", "execve", "clone", "exit", "exit_group"}
  Inputs = {"kill", "sigfatal", "interrupt"}
INVARIANTS
  AssertionsHold
  NoDanglingTask
PROPERTIES
  EventsHandledOnce
