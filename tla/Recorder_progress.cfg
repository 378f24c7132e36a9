SPECIFICATION FairSpec
CONSTANTS
  Task = {1, 2}
  Tgid <- AllProcesses
  Priority <- Priorities
  EnableChaos = FALSE
  AlwaysSwitch = FALSE
  Nice <- NiceValues
  WaitForAll = TRUE
  Syscalls = {"blocking", "sched_yield", "clone", "exit"}
  Inputs = {"kill"}
PROPERTIES
  KilledTasksLeave
  NoStarvation
