SPECIFICATION MCSpec
CONSTANTS
    Tracer = Tracer
    Child = Child
    Thread = Thread
    NoTask = NoTask
    AnyTask = AnyTask
    Options <- MCOptions
    Kills <- MCKills
    Commands = {"CONT", "SYSCALL"}
    SigcontToTraced = FALSE
    WholeProcess = TRUE
    Known = {"no emulated ptracer", "no saved siginfo", "stopped by execve", "syscall never resumed", "unstable exit"}
    MaxCalls = 3
    Values = {0, 1}
    NoValue = NoValue
    Refused = FALSE
    MaxRequests = 2
    Selected <- Calls
    MaxRestarts = 1
INVARIANT EveryWaiterWoken
CHECK_DEADLOCK FALSE
