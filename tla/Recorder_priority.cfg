SPECIFICATION Spec
CONSTANTS
  Task = {1, 2, 3}
  Tgid <- AllProcesses
  Priority <- Priorities
  EnableChaos = FALSE
  AlwaysSwitch = TRUE
  Nice <- NiceValues
  WaitForAll = TRUE
  Syscalls = {"blocking", "sched_yield", "clone", "setpriority"}
  Inputs = {"interrupt", "restart"}
INVARIANTS
  FiledOnce
