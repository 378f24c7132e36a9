SPECIFICATION Spec
CONSTANTS
  Task = {1, 2}
  Tgid <- OneProcess
  Priority <- Priorities
  EnableChaos = FALSE
  AlwaysSwitch = FALSE
  Nice <- NiceValues
  WaitForAll = FALSE
  Syscalls = {"blocking", "clone"}
  Inputs = {"sigstop"}
PROPERTIES
  EventsHandledOnce
