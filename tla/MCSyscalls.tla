----------------------------- MODULE MCSyscalls -----------------------------
(***************************************************************************)
(* System calls, for TLC: the parts of the recorder that give the program  *)
(* the calls it makes.  A behaviour is one of                              *)
(*   stops   the emulated ptrace stops, waits and job control (Ptrace);    *)
(*   data    the ptrace requests on a stopped task (PtraceData);           *)
(*   memory  the parameters of one call after another (RecordSyscall).     *)
(***************************************************************************)
EXTENDS RecordSyscall

CONSTANTS Tracer, Child, Thread, NoTask, AnyTask, Options, Kills, Commands,
          SigcontToTraced, WholeProcess, Known, MaxCalls,
          Values, NoValue, Refused, MaxRequests

VARIABLES part,
          child, task, queue, shared, failed, unseen, calls,
          arch, stopped, live, frames, snaps, wanted, rep, pos

PT == INSTANCE Ptrace
PD == INSTANCE PtraceData

MCOptions == {{"EXIT"}, {"SYSGOOD", "CLONE", "EXEC"}}
MCKills == {<<Child, "SIGSTOP">>, <<Child, "SIGCONT">>, <<Child, "SIGUSR1">>, <<Tracer, "SIGSTOP">>}

data_vars == <<arch, stopped, live, frames, snaps, wanted, rep, pos>>
stop_vars == <<child, task, queue, shared, failed, unseen, calls>>

NoData ==
    /\ arch = "none" /\ stopped = FALSE /\ live = PD!NewTasks /\ rep = PD!NewTasks
    /\ frames = <<>> /\ snaps = <<>> /\ pos = 0 /\ wanted = [p \in PD!Parts |-> NoValue]

NoStops ==
    /\ child = FALSE /\ task = PT!Untraced /\ queue = [t \in PT!Tasks |-> {}]
    /\ shared = [g \in {Tracer, Child} |-> {}] /\ failed = {}
    /\ unseen = [t \in PT!Tasks |-> FALSE] /\ calls = 0

MCInit ==
    \/ part = "stops" /\ PT!Init /\ NoData /\ Init
    \/ part = "data" /\ NoStops /\ PD!DataInit /\ Init
    \/ part = "memory" /\ NoStops /\ NoData /\ Init

MCNext ==
    \/ part = "stops" /\ PT!Next /\ UNCHANGED <<part, data_vars, vars>>
    \/ part = "data" /\ PD!DataNext /\ UNCHANGED <<part, stop_vars, vars>>
    \/ part = "memory" /\ Next /\ UNCHANGED <<part, stop_vars, data_vars>>

MCSpec == MCInit /\ [][MCNext]_<<part, stop_vars, data_vars, vars>>

\* A call leaves the tracee's registers as the kernel would (RegistersRestored),
\* the kernel sees what the tracee passed (KernelSeesInput) except for masks
\* that block rd's signals (RdSignalsUnblocked), and nothing is copied back
\* past the end of a buffer (NothingPastBuffer).
CallUndisturbed ==
    RegistersRestored /\ KernelSeesInput /\ RdSignalsUnblocked /\ NothingPastBuffer

\* After every replayed ptrace frame both tasks are what they were in the
\* recording, and what the tracer sets with ptrace is what the tracee has.
TracerRequestsReplay == PD!ReplayFollows /\ PD!SetTakesEffect

\* The ptracer of a task and the tracees of a task are two views of one
\* relation, only synthetic SIGCHLDs are put off while a task is blocked in a
\* wait, and no assertion of the emulation fails beyond the known ones.
TracingSound ==
    PT!TypeOK /\ PT!AssertionsHold /\ PT!PtracerAndTraceesAgree /\ PT!OnlySigchldDeferred

\* A stop of a tracee stays pending until its tracer has seen or ended it, a
\* SIGCHLD is on its way to the tracer as long as one is owed, and a wait
\* entered with no signal put off is interrupted by the stop it waits for.
StopsReachTracer == PT!StopNotLost /\ PT!SigchldComes /\ PT!WaiterWoken

\* Every blocked wait is interrupted by the stop it waits for: "The SIGCHLD will
\* eventually be reported to rd via a ptrace stop, interrupting wake_task's
\* syscall" (record_task.rs:1436).
EveryWaiterWoken == PT!EveryWaiterWoken
=============================================================================
