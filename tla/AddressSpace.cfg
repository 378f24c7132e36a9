SPECIFICATION MCSpec
CONSTANTS
    PageSize = 2
    Procs = {1, 2}
    Files <- MCFiles
    Shms <- MCShms
    Scenarios <- MCScenarios
INVARIANTS
    VerifyOK
    ContentsReproduced
    
    DebuggerSeesProgram
    
CHECK_DEADLOCK FALSE
