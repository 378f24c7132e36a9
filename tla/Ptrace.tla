------------------------------- MODULE Ptrace -------------------------------
(***************************************************************************)
(* ptrace(2), wait(2) and job control as the recorder gives them to the    *)
(* program it records.  rd is the real ptracer of every recorded task, so  *)
(* a recorded program cannot use ptrace itself: rd keeps its own           *)
(* ptracer/tracee relation, its own stops and its own SIGCHLDs, makes the  *)
(* ptrace and wait calls fail in the kernel, and supplies their results.   *)
(*                                                                         *)
(* The program is a process with one task, Tracer, and a process with the  *)
(* task Child and, after a clone, the task Thread.  The tracer's process   *)
(* may or may not be the parent of the other one.  Everything rd does in   *)
(* one turn is one action; the kernel decides when a pending signal is     *)
(* reported, and the program decides which call it makes next.             *)
(***************************************************************************)
EXTENDS Naturals, FiniteSets, Sequences, SequencesExt

CONSTANTS Tracer, Child, Thread, NoTask, AnyTask,
          Options,          \* the sets of PTRACE_O_ options the tracer uses
          Kills,            \* the signals sent: <<process, signal>>
          Commands,         \* the resume commands the tracer uses
          SigcontToTraced,  \* SIGCONT may reach a process that is ptraced
          WholeProcess,     \* a traced process has its first thread traced
          Known,            \* the assertions known to fail
          MaxCalls          \* bound on the calls and signals of the program

VARIABLES child,    \* the tracer's process is the parent of the other one
          task,     \* RecordTask: what rd keeps for each task
          queue,    \* the kernel's pending signals of each task ...
          shared,   \* ... and of each process
          failed,   \* the assertions of rd that have failed
          unseen,   \* ghost: a ptrace stop its tracer has neither been told
                    \* of nor ended
          calls

vars == <<child, task, queue, shared, failed, unseen, calls>>

Tasks == {Tracer, Child, Thread}
Tgid(t) == IF t = Tracer THEN Tracer ELSE Child
Signals == {"SIGCHLD", "synthetic", "SIGSTOP", "SIGCONT", "SIGUSR1", "SIGTRAP",
            "TIME_SLICE"}

(***************************************************************************)
(* wait_status.rs.  A stop of a seized task for a group stop carries       *)
(* PTRACE_EVENT_STOP, a syscall stop the SYSGOOD bit only when asked for:  *)
(* without them both are plain signal stops.                               *)
(***************************************************************************)
Status(kind, sig) == [kind |-> kind, sig |-> sig]
NoStatus == Status("none", "none")
for_stop_sig(sig) == Status("stop", sig)
for_group_sig(sig, r) == Status(IF r.seized THEN "group" ELSE "stop", sig)
for_syscall(r) == Status(IF "SYSGOOD" \in r.options THEN "syscall" ELSE "stop", "SIGTRAP")
for_ptrace_event == Status("event", "SIGTRAP")
for_exit_code == Status("exit", "none")

NewTask(at) ==
    [at |-> at, ptracer |-> NoTask, tracees |-> {}, stop_type |-> "NotStopped",
     stop_code |-> NoStatus, stop_pending |-> FALSE, ptrace_sigchld |-> FALSE,
     sigchld |-> FALSE, options |-> {}, seized |-> FALSE, cont_command |-> "none",
     queued_exit |-> FALSE, stable_exit |-> FALSE, saved |-> {}, in_wait |-> NoTask,
     target |-> NoTask, untraced |-> FALSE, blocked |-> FALSE, stash |-> <<>>, events |-> <<>>,
     in_sysemu |-> FALSE, call |-> "none"]

TypeOK ==
    /\ child \in BOOLEAN
    /\ DOMAIN task = Tasks
    /\ \A t \in Tasks :
          /\ task[t].at \in {"unborn", "user", "entry", "insys", "exiting", "wait",
                             "pause", "restart", "leaving", "gone"}
          /\ task[t].ptracer \in Tasks \cup {NoTask} /\ task[t].tracees \subseteq Tasks
          /\ task[t].stop_type \in {"NotStopped", "GroupStop", "SignalDeliveryStop"}
          /\ task[t].saved \subseteq Signals \cup {"none"}
          /\ task[t].in_wait \in Tasks \cup {NoTask, AnyTask}
          /\ task[t].stash \in Seq(Signals) /\ task[t].events \in Seq(Signals)
          /\ queue[t] \subseteq Signals /\ unseen[t] \in BOOLEAN
    /\ \A g \in {Tracer, Child} : shared[g] \subseteq Signals
    /\ failed \subseteq {"already stopped", "no emulated ptracer", "no saved siginfo",
                         "ptracer set", "ptracer not set", "not a group stop",
                         "unstable exit", "stopped by execve",
                         "exit not under way", "syscall never resumed"}
    /\ calls \in 0..MaxCalls

\* The program at the start: nothing is traced, the child is seized, or it has
\* two threads that are both seized.
Seized(opts) == [NewTask("user") EXCEPT !.ptracer = Tracer, !.seized = TRUE, !.options = opts]
Tracing(tracees) == [NewTask("user") EXCEPT !.tracees = tracees]

Cloning == {opts \in Options : "CLONE" \in opts}
Untraced == [t \in Tasks |-> NewTask(IF t = Thread THEN "unborn" ELSE "user")]
OneTracee(opts) == [Untraced EXCEPT ![Tracer] = Tracing({Child}), ![Child] = Seized(opts)]
TwoTracees(opts) ==
    [Untraced EXCEPT ![Tracer] = Tracing({Child, Thread}), ![Child] = Seized(opts),
                     ![Thread] = Seized(opts)]

Init ==
    /\ child \in BOOLEAN
    /\ \/ task = Untraced
       \/ \E opts \in Options :
             task \in {OneTracee(opts)} \cup {TwoTracees(o) : o \in {opts} \cap Cloning}
    /\ queue = [t \in Tasks |-> {}]
    /\ shared = [g \in {Tracer, Child} |-> {}]
    /\ failed = {}
    /\ unseen = [t \in Tasks |-> FALSE]
    /\ calls = 0

(***************************************************************************)
(* The recorder's state is passed from one operation to the next as m.     *)
(***************************************************************************)
M == [task |-> task, queue |-> queue, shared |-> shared, failed |-> failed,
      unseen |-> unseen]

Becomes(m) ==
    /\ task' = m.task /\ queue' = m.queue /\ shared' = m.shared
    /\ failed' = m.failed /\ unseen' = m.unseen
    /\ UNCHANGED child

Free(m) == Becomes(m) /\ UNCHANGED calls
Call(m) == calls < MaxCalls /\ Becomes(m) /\ calls' = calls + 1

ed_assert(m, cond, what) == IF cond THEN m ELSE [m EXCEPT !.failed = @ \cup {what}]
At(m, t, at) == [m EXCEPT !.task[t].at = at]

Live(m, t) == m.task[t].at \notin {"unborn", "gone"}
Group(m, t) == {u \in Tasks : Live(m, u) /\ Tgid(u) = Tgid(t)}
Stopped(m, t) == m.task[t].stop_type # "NotStopped"

(***************************************************************************)
(* The kernel's queues: at most one SIGCHLD is pending in each.            *)
(***************************************************************************)
Enqueue(q, sig) ==
    IF sig = "synthetic" /\ q \cap {"SIGCHLD", "synthetic"} # {} THEN q
    ELSE IF sig = "SIGCHLD" /\ "synthetic" \in q THEN q ELSE q \cup {sig}

tgkill(m, t, sig) == [m EXCEPT !.queue[t] = Enqueue(@, sig)]
kill(m, g, sig) == [m EXCEPT !.shared[g] = Enqueue(@, sig)]

Deliverable(m, t) ==
    {s \in m.queue[t] \cup m.shared[Tgid(t)] :
        \/ s \in {"TIME_SLICE", "SIGSTOP"}
        \/ m.task[t].stash = <<>> /\ ~(s \in {"SIGCHLD", "synthetic"} /\ m.task[t].blocked)}

(***************************************************************************)
(* Who waits for whom.  in_wait is the task a blocked wait call names, or  *)
(* AnyTask.  For a tracee a pid names the thread, for a child the process. *)
(***************************************************************************)
is_waiting_for_ptrace(m, w, t) ==
    /\ m.task[t].ptracer # NoTask
    /\ Tgid(m.task[t].ptracer) = Tgid(w)
    /\ m.task[w].in_wait \in {AnyTask, t}

is_waiting_for(m, w, t) ==
    child /\ w = Tracer /\ Tgid(t) = Child /\ m.task[w].in_wait \in {AnyTask, Tgid(t)}

\* The tasks of the child processes of p's process.
ChildTasks(m, p) == IF child /\ p = Tracer THEN Group(m, Child) ELSE {}

(***************************************************************************)
(* A synthetic SIGCHLD goes to a thread of the ptracer's process that      *)
(* waits for a flagged tracee, with a TIME_SLICE signal if it blocks       *)
(* SIGCHLD, and otherwise to the process.  For a group-stopped child that  *)
(* nobody ptraces the thread found is dropped (it is bound to an inner     *)
(* variable), so that the signal always goes to the process.               *)
(***************************************************************************)
Flagged(m, p) == {t \in m.task[p].tracees : m.task[t].ptrace_sigchld}
FlaggedChildren(m, p) == {t \in ChildTasks(m, p) : m.task[t].sigchld}
Waiters(m, p) == {w \in Group(m, p) : \E t \in Flagged(m, p) : is_waiting_for_ptrace(m, w, t)}

\* Mutant: no TIME_SLICE signal.
Wake_no_kick(m, w) == tgkill(m, w, "synthetic")

Wake(m, w) ==
    IF m.task[w].blocked THEN tgkill(tgkill(m, w, "synthetic"), w, "TIME_SLICE")
    ELSE tgkill(m, w, "synthetic")

send_synthetic_sigchld_if_necessary(m, p) ==
    IF Flagged(m, p) = {} /\ FlaggedChildren(m, p) = {} THEN m
    ELSE IF Waiters(m, p) # {} THEN Wake(m, CHOOSE w \in Waiters(m, p) : TRUE)
    ELSE kill(m, Tgid(p), "synthetic")

(***************************************************************************)
(* Stops.  The siginfo made up for a stop that came with none has a signal *)
(* number only for event stops and for syscall stops with SYSGOOD.         *)
(***************************************************************************)
save_ptrace_signal_siginfo(m, t, sig) == [m EXCEPT !.task[t].saved = @ \cup {sig}]

StopRecord(r, code) ==
    [r EXCEPT !.stop_type = IF code.kind = "group" THEN "GroupStop" ELSE "SignalDeliveryStop",
              !.stop_code = code, !.stop_pending = TRUE, !.ptrace_sigchld = TRUE]

force_emulate_ptrace_stop(m, t, code) ==
    send_synthetic_sigchld_if_necessary(
        [m EXCEPT !.task[t] = StopRecord(@, code), !.unseen[t] = TRUE],
        m.task[t].ptracer)

MadeUpSignal(code) == IF code.kind \in {"event", "syscall"} THEN code.sig ELSE "none"

emulate_ptrace_stop(m, t, code, sig) ==
    force_emulate_ptrace_stop(
        save_ptrace_signal_siginfo(ed_assert(m, ~Stopped(m, t), "already stopped"), t, sig),
        t, code)

\* emulate_ptrace_stop with no siginfo, where the code first unwraps the ptracer.
StopForTracer(m, t, code) ==
    IF m.task[t].ptracer = NoTask THEN ed_assert(m, FALSE, "no emulated ptracer")
    ELSE emulate_ptrace_stop(m, t, code, MadeUpSignal(code))

GroupStopRecord(r, code) ==
    [r EXCEPT !.stop_type = "GroupStop", !.stop_code = code, !.stop_pending = TRUE,
              !.sigchld = TRUE]

NotifyParent(m, t) ==
    IF child /\ Live(m, Tracer) /\ t # Tracer
    THEN send_synthetic_sigchld_if_necessary(m, Tracer) ELSE m

apply_group_stop(m, t, sig) ==
    IF Stopped(m, t) THEN m
    ELSE IF m.task[t].ptracer # NoTask
    THEN StopForTracer(m, t, for_group_sig(sig, m.task[t]))
    ELSE NotifyParent(
            [m EXCEPT !.task[t] = GroupStopRecord(@, for_group_sig(sig, m.task[t]))], t)

ContRecord(r) == [r EXCEPT !.stop_pending = FALSE, !.stop_type = "NotStopped"]
emulate_sigcont(m, t) ==
    [m EXCEPT !.task = [u \in Tasks |-> IF u \in Group(m, t) THEN ContRecord(m.task[u])
                                                             ELSE m.task[u]]]

StopProcess(m, t, sig) ==
    FoldSet(LAMBDA u, acc : apply_group_stop(acc, u, sig), apply_group_stop(m, t, sig),
            Group(m, t) \ {t})

signal_delivered(m, t, sig) ==
    send_synthetic_sigchld_if_necessary(
        CASE sig = "SIGSTOP" -> StopProcess(m, t, sig)
          [] sig = "SIGCONT" -> emulate_sigcont(m, t)
          [] OTHER -> m, t)

(***************************************************************************)
(* Signals.  Receive: the kernel reports a pending signal of t to rd,      *)
(* which stashes it; a blocked wait is left with a restart error.  While   *)
(* signals are stashed rd blocks all others but its own and SIGSTOP.       *)
(***************************************************************************)
Number(sig) == IF sig = "synthetic" THEN "SIGCHLD" ELSE sig

stash_sig(m, t, sig) ==
    IF \E i \in DOMAIN m.task[t].stash : Number(m.task[t].stash[i]) = Number(sig) THEN m
    ELSE [m EXCEPT !.task[t].stash = Append(@, sig)]

Dequeue(m, t, sig) ==
    IF sig \in m.queue[t] THEN [m EXCEPT !.queue[t] = @ \ {sig}]
    ELSE [m EXCEPT !.shared[Tgid(t)] = @ \ {sig}]

rec_prepare_restart_syscall(m, t) ==
    IF m.task[t].at \in {"wait", "pause"}
    THEN [m EXCEPT !.task[t].at = "restart", !.task[t].in_wait = NoTask] ELSE m

Receive(t) ==
    /\ task[t].at \in {"user", "wait", "pause", "restart"} /\ ~Stopped(M, t)
    /\ task[t].events = <<>>
    /\ \E sig \in Deliverable(M, t) :
          Free(stash_sig(rec_prepare_restart_syscall(Dequeue(M, t, sig), t), t, sig))

\* A task stopped while a SIGCONT is pending is released with its process.
ReceiveSigcont(t) ==
    /\ Live(M, t) /\ Stopped(M, t) /\ "SIGCONT" \in queue[t] \cup shared[Tgid(t)]
    /\ task[t].at \in {"user", "restart"}
    /\ Free(emulate_sigcont(M, t))

(***************************************************************************)
(* prepare_to_inject_signal and handle_signal: the first stashed signal    *)
(* that is not a synthetic SIGCHLD, or else the first one.  A synthetic    *)
(* SIGCHLD takes the flag of one task; in an interrupted wait it is left   *)
(* on the stash.                                                           *)
(***************************************************************************)
Real(m, t) == {i \in DOMAIN m.task[t].stash : m.task[t].stash[i] # "synthetic"}
peek_stashed_sig_to_deliver(m, t) ==
    IF Real(m, t) = {} THEN 1 ELSE CHOOSE i \in Real(m, t) : \A j \in Real(m, t) : i <= j

pop_stash_sig(m, t, i) == [m EXCEPT !.task[t].stash = RemoveAt(@, i)]

ClearPtraceFlag(m, t) == [m EXCEPT !.task[t].ptrace_sigchld = FALSE]
ClearChildFlag(m, t) == [m EXCEPT !.task[t].sigchld = FALSE]
set_siginfo_for_synthetic_sigchld(m, t) ==
    IF Flagged(m, t) # {} THEN ClearPtraceFlag(m, CHOOSE u \in Flagged(m, t) : TRUE)
    ELSE IF FlaggedChildren(m, t) # {}
    THEN ClearChildFlag(m, CHOOSE u \in FlaggedChildren(m, t) : TRUE) ELSE m

handle_signal(m, t, sig) ==
    IF sig = "TIME_SLICE" THEN m
    ELSE IF m.task[t].ptracer # NoTask
    THEN emulate_ptrace_stop(
            IF sig = "synthetic" THEN set_siginfo_for_synthetic_sigchld(m, t) ELSE m,
            t, for_stop_sig(Number(sig)), Number(sig))
    ELSE [(IF sig = "synthetic" THEN set_siginfo_for_synthetic_sigchld(m, t) ELSE m)
            EXCEPT !.task[t].events = Append(@, sig)]

Deferred(m, t) ==
    /\ m.task[t].at = "restart" /\ m.task[t].stash # <<>>
    /\ m.task[t].stash[peek_stashed_sig_to_deliver(m, t)] = "synthetic"

prepare_to_inject_signal(t) ==
    /\ task[t].at \in {"user", "restart"} /\ ~Stopped(M, t)
    /\ task[t].events = <<>> /\ task[t].stash # <<>> /\ ~Deferred(M, t)
    /\ \E i \in {peek_stashed_sig_to_deliver(M, t)} :
          Free(pop_stash_sig(handle_signal(M, t, task[t].stash[i]), t, i))

(***************************************************************************)
(* The signal on top of the event stack is delivered.  An interrupted wait *)
(* goes on, or the handler makes it return EINTR.                          *)
(***************************************************************************)
PopEvent(m, t) == [m EXCEPT !.task[t].events = Front(@)]
Interrupt(m, t) ==
    {m} \cup (IF m.task[t].at = "restart" THEN {At(m, t, "user")} ELSE {})

Deliver(t) ==
    /\ task[t].at \in {"user", "restart"} /\ ~Stopped(M, t) /\ task[t].events # <<>>
    /\ \E m \in Interrupt(signal_delivered(PopEvent(M, t), t, Last(task[t].events)), t) :
          Free(m)

(***************************************************************************)
(* Waits.  rd answers with a pending stop of a tracee, or, with WUNTRACED, *)
(* of a child; otherwise the real call is made, or a pause() where the     *)
(* kernel would refuse to wait for a task that is only rd's tracee.        *)
(***************************************************************************)
WaitableTracees(m, t) ==
    {u \in m.task[t].tracees : is_waiting_for_ptrace(m, t, u) /\ m.task[u].stop_pending}
WaitableChildren(m, t) ==
    IF ~m.task[t].untraced THEN {}
    ELSE {u \in ChildTasks(m, t) :
             /\ m.task[u].stop_type = "GroupStop" /\ m.task[u].stop_pending
             /\ is_waiting_for(m, t, u)}

\* The notifications maybe_emulate_wait may pick: any of the first non-empty set.
maybe_emulate_wait(m, t) ==
    IF WaitableTracees(m, t) # {} THEN WaitableTracees(m, t) ELSE WaitableChildren(m, t)

EndExitStop(m, u) ==
    IF m.task[u].stop_code.kind # "exit" THEN m
    ELSE At(ed_assert(m, m.task[u].at \in {"insys", "leaving"} /\ m.task[u].stable_exit,
                   "exit not under way"), u, "leaving")

Reported(m, U) ==
    [m EXCEPT !.task = [u \in Tasks |-> [m.task[u] EXCEPT !.stop_pending = @ /\ u \notin U]]]

ForgetWait(m, t) ==
    [m EXCEPT !.task[t].in_wait = NoTask, !.task[t].target = NoTask,
              !.task[t].untraced = FALSE, !.task[t].at = "user"]

\* rec_process_syscall for a wait that was answered with task u.
ReportStop(m, t, u) ==
    Reported([EndExitStop(ForgetWait(m, t), u) EXCEPT !.unseen[u] = FALSE],
             IF m.task[u].ptracer = t THEN {u} ELSE Group(m, u))

maybe_pause_instead_of_waiting(m, t) ==
    /\ m.task[t].in_wait \in Tasks
    /\ Live(m, m.task[t].in_wait)
    /\ is_waiting_for_ptrace(m, t, m.task[t].in_wait)
    /\ ~is_waiting_for(m, t, m.task[t].in_wait)

\* The kernel's view: a process waits for its child processes only.
HasRealChild(m, t) ==
    ChildTasks(m, t) # {} /\ m.task[t].in_wait \in {AnyTask, Child}

RealWait(m, t) ==
    IF maybe_pause_instead_of_waiting(m, t) THEN At(m, t, "pause")
    ELSE IF HasRealChild(m, t) THEN At(m, t, "wait")
    ELSE ForgetWait(m, t)

\* The outcomes of entering a wait call.
rec_prepare_wait(m, t) ==
    IF maybe_emulate_wait(m, t) # {} THEN {ReportStop(m, t, u) : u \in maybe_emulate_wait(m, t)}
    ELSE {RealWait(m, t)}

InWait(m, t, target, untraced) ==
    [m EXCEPT !.task[t].in_wait = target, !.task[t].target = target,
              !.task[t].untraced = untraced]

Runs(t) ==
    /\ task[t].at = "user" /\ ~Stopped(M, t)
    /\ task[t].stash = <<>> /\ task[t].events = <<>> /\ Deliverable(M, t) = {}

Wait(t, target, untraced) ==
    /\ t = Tracer /\ Runs(t)
    /\ ChildTasks(M, t) # {} \/ task[t].tracees # {}
    /\ \E m \in rec_prepare_wait(InWait(M, t, target, untraced), t) : m # M /\ Call(m)

\* The interrupted wait is entered again once no signal is left to handle.
RestartWait(t) ==
    /\ task[t].at = "restart" /\ ~Stopped(M, t) /\ task[t].events = <<>>
    /\ task[t].stash = <<>> \/ Deferred(M, t)
    /\ Deliverable(M, t) = {}
    /\ \E m \in rec_prepare_wait(InWait(M, t, task[t].target, task[t].untraced), t) : Free(m)

\* The kernel ends a real wait when the last task of the child process is gone.
RealWaitReturns(t) ==
    /\ task[t].at = "wait" /\ ~HasRealChild(M, t)
    /\ Free(ForgetWait(M, t))

\* rt_sigprocmask on SIGCHLD.
SetSigmask(t) == t = Tracer /\ Runs(t) /\ Call([M EXCEPT !.task[t].blocked = ~@])

(***************************************************************************)
(* ptrace commands of the tracer t on task x.  A command that is refused   *)
(* changes nothing, so the refusals are the guards.                        *)
(***************************************************************************)
get_ptrace_partner(m, t, x) ==
    Live(m, x) /\ m.task[x].ptracer = NoTask /\ Tgid(x) # Tgid(t)
verify_ptrace_target(m, t, x) == Live(m, x) /\ m.task[x].ptracer = t /\ Stopped(m, x)

TracerRecord(r, t, seized, opts) ==
    [r EXCEPT !.ptracer = t, !.seized = seized, !.options = opts]
set_emulated_ptracer(m, x, t, seized, opts) ==
    [ed_assert(m, m.task[x].ptracer = NoTask, "ptracer set")
        EXCEPT !.task[x] = TracerRecord(@, t, seized, opts), !.task[t].tracees = @ \cup {x}]

clear_emulated_ptracer(m, x) ==
    [ed_assert(ed_assert(m, m.task[x].ptracer # NoTask, "ptracer not set"),
            m.task[x].stop_type # "SignalDeliveryStop", "already stopped")
        EXCEPT !.task[x].ptracer = NoTask, !.task[m.task[x].ptracer].tracees = @ \ {x}]

ptrace_attach_to_already_stopped_task(m, x) ==
    save_ptrace_signal_siginfo(
        force_emulate_ptrace_stop(
            ed_assert(m, m.task[x].stop_type = "GroupStop", "not a group stop"),
            x, for_stop_sig("SIGSTOP")), x, "SIGSTOP")

SigcontPending(x) ==
    \/ "SIGCONT" \in shared[Tgid(x)]
    \/ \E u \in Group(M, x) : "SIGCONT" \in ToSet(task[u].stash) \cup ToSet(task[u].events)
MayTrace(t, x) ==
    /\ get_ptrace_partner(M, t, x)
    /\ WholeProcess /\ x = Thread => task[Child].ptracer = t
    /\ SigcontPending(x) => SigcontToTraced

PtraceAttach(t, x) ==
    /\ t = Tracer /\ Runs(t) /\ MayTrace(t, x)
    /\ \E m \in {set_emulated_ptracer(M, x, t, FALSE, {})} :
          Call(IF Stopped(m, x) THEN ptrace_attach_to_already_stopped_task(m, x)
               ELSE tgkill(m, x, "SIGSTOP"))

PtraceTraceme(x) ==
    /\ Runs(x) /\ child /\ Live(M, Tracer) /\ MayTrace(Tracer, x)
    /\ Call(set_emulated_ptracer(M, x, Tracer, FALSE, {}))

PtraceSeize(t, x, opts) ==
    /\ t = Tracer /\ Runs(t) /\ MayTrace(t, x)
    /\ \E m \in {set_emulated_ptracer(M, x, t, TRUE, opts)} :
          Call(IF m.task[x].stop_type = "GroupStop"
               THEN ptrace_attach_to_already_stopped_task(m, x) ELSE m)

PtraceSetoptions(t, x, opts) ==
    /\ Runs(t) /\ verify_ptrace_target(M, t, x) /\ task[x].options # opts
    /\ Call([M EXCEPT !.task[x].options = opts])

PtraceGetsiginfo(t, x) ==
    /\ Runs(t) /\ verify_ptrace_target(M, t, x)
    /\ task[x].stop_code.sig \notin task[x].saved
    /\ Call(ed_assert(M, FALSE, "no saved siginfo"))

\* The notification of an exit that the kernel does not send to the ptracer.
do_ptrace_exit_stop(m, t) ==
    IF m.task[t].ptracer # NoTask /\ (t = Thread \/ ~child)
    THEN emulate_ptrace_stop([m EXCEPT !.task[t].queued_exit = FALSE], t, for_exit_code, "none")
    ELSE [m EXCEPT !.task[t].queued_exit = FALSE]

\* The task goes on with the call it was stopped in.
ResumeSyscall(m, x) ==
    IF m.task[x].at # "insys" THEN m
    ELSE At(m, x, IF m.task[x].stable_exit THEN "leaving" ELSE "exiting")

ResumedRecord(r, sig, cmd) ==
    [r EXCEPT !.stop_type = "NotStopped", !.stop_pending = FALSE, !.stop_code = NoStatus,
              !.cont_command = cmd, !.saved = @ \ {sig},
              !.events = IF sig = "none" THEN @ ELSE Append(@, sig)]

Resumed(m, x, sig, cmd) ==
    ResumeSyscall([m EXCEPT !.task[x] = ResumedRecord(@, sig, cmd), !.unseen[x] = FALSE], x)

prepare_ptrace_cont(m, x, sig, cmd) ==
    IF m.task[x].queued_exit THEN do_ptrace_exit_stop(Resumed(m, x, sig, cmd), x)
    ELSE Resumed(m, x, sig, cmd)

\* The signal a tracer may restart a task with: that of a signal-delivery-stop.
MayInject(x) ==
    {"none"} \cup (IF task[x].at = "user" /\ task[x].stop_code.kind = "stop"
                      /\ task[x].stop_code.sig \in {"SIGSTOP", "SIGUSR1"}
                   THEN {task[x].stop_code.sig} ELSE {})

PtraceCont(t, x, cmd) ==
    /\ Runs(t) /\ verify_ptrace_target(M, t, x) /\ task[x].stop_code.kind # "exit"
    /\ \E sig \in MayInject(x) : Call(prepare_ptrace_cont(M, x, sig, cmd))

DetachRecord(r) ==
    [r EXCEPT !.options = {}, !.cont_command = "none", !.stop_pending = FALSE,
              !.queued_exit = FALSE]

PtraceDetach(t, x) ==
    /\ Runs(t) /\ verify_ptrace_target(M, t, x) /\ task[x].stop_code.kind # "exit"
    /\ WholeProcess /\ x = Child => task[Thread].ptracer = NoTask
    /\ \E sig \in MayInject(x) :
          Call(clear_emulated_ptracer(
                  prepare_ptrace_cont([M EXCEPT !.task[x] = DetachRecord(@)], x, sig, "none"), x))

\* SIGKILL ends every task of the process without a stop.
KillGroup(m, x) ==
    [m EXCEPT !.task = [u \in Tasks |-> IF u \in Group(m, x)
                                        THEN [m.task[u] EXCEPT !.at = "leaving"] ELSE m.task[u]]]

PtraceKill(t, x) ==
    /\ Runs(t) /\ verify_ptrace_target(M, t, x) /\ task[x].at # "leaving"
    /\ Call(KillGroup(M, x))

(***************************************************************************)
(* The traced program.  A system call stops the task at its entry and at   *)
(* its exit as the last resume command asks for.                           *)
(***************************************************************************)
maybe_trigger_emulated_ptrace_syscall_exit_stop(m, t) ==
    IF m.task[t].cont_command = "SYSCALL" THEN StopForTracer(m, t, for_syscall(m.task[t]))
    ELSE IF m.task[t].cont_command \in {"SINGLESTEP", "SYSEMU_SINGLESTEP"}
    THEN StopForTracer(m, t, for_stop_sig("SIGTRAP")) ELSE m

StopsAtEntry(r) == r.cont_command \in {"SYSCALL", "SYSEMU", "SYSEMU_SINGLESTEP"}
EntryRecord(r, call) ==
    [r EXCEPT !.at = "entry", !.call = call,
              !.in_sysemu = r.cont_command \in {"SYSEMU", "SYSEMU_SINGLESTEP"}]

AfterExecve(m, t) ==
    IF m.task[t].ptracer = NoTask THEN m
    ELSE IF "EXEC" \in m.task[t].options THEN StopForTracer(m, t, for_ptrace_event)
    ELSE IF m.task[t].seized THEN m ELSE tgkill(m, t, "SIGTRAP")

\* The exit stop of an execve that has stopped the task already fails an assertion.
EndExecve(m, t) ==
    IF Stopped(m, t) /\ m.task[t].cont_command \in {"SYSCALL", "SINGLESTEP", "SYSEMU_SINGLESTEP"}
    THEN ed_assert(m, FALSE, "stopped by execve")
    ELSE maybe_trigger_emulated_ptrace_syscall_exit_stop(m, t)

NewThread(m) == [m EXCEPT !.task[Thread] = NewTask("user")]
CloneTraced(m, t) ==
    apply_group_stop(
        StopForTracer(
            set_emulated_ptracer(At(m, t, "insys"), Thread, m.task[t].ptracer,
                                 m.task[t].seized, m.task[t].options),
            t, for_ptrace_event), Thread, "SIGTRAP")

prepare_clone(m, t) ==
    IF "CLONE" \in m.task[t].options /\ m.task[t].ptracer # NoTask
    THEN CloneTraced(NewThread(m), t)
    ELSE maybe_trigger_emulated_ptrace_syscall_exit_stop(NewThread(m), t)

ExitNotice(m, t) ==
    IF m.task[t].ptracer # NoTask /\ "EXIT" \in m.task[t].options
    THEN StopForTracer([m EXCEPT !.task[t].queued_exit = TRUE], t, for_ptrace_event)
    ELSE do_ptrace_exit_stop(m, t)

prepare_exit(m, t) ==
    ExitNotice([m EXCEPT !.task[t].stable_exit = TRUE, !.task[t].at = "insys"], t)

StartExit(m, t) == IF Stopped(m, t) THEN m ELSE At(m, t, "leaving")

rec_prepare_syscall(m, t, call) ==
    CASE call = "execve" -> EndExecve(AfterExecve(m, t), t)
      [] call = "clone" -> prepare_clone(m, t)
      [] call = "exit" -> StartExit(prepare_exit(m, t), t)
      [] OTHER -> maybe_trigger_emulated_ptrace_syscall_exit_stop(m, t)

process_syscall_entry(m, t, call) ==
    IF StopsAtEntry(m.task[t])
    THEN StopForTracer([m EXCEPT !.task[t] = EntryRecord(@, call)], t, for_syscall(m.task[t]))
    ELSE rec_prepare_syscall(m, t, call)

Syscall(t, call) ==
    /\ t # Tracer /\ Runs(t)
    /\ call = "execve" => t = Child /\ ~Live(M, Thread)
    /\ call = "clone" => t = Child /\ task[Thread].at = "unborn"
    /\ \E m \in {process_syscall_entry(M, t, call)} : m # M /\ Call(m)

ExitTracer(t) == t = Tracer /\ Runs(t) /\ Call(StartExit(prepare_exit(M, t), t))

\* The tracer has resumed the task from the entry of its call.
EnteringSyscallPtrace(t) ==
    /\ task[t].at = "entry" /\ ~Stopped(M, t)
    /\ \E m \in {[M EXCEPT !.task[t].at = "user", !.task[t].call = "none",
                           !.task[t].in_sysemu = FALSE]} :
          Free(IF task[t].in_sysemu THEN maybe_trigger_emulated_ptrace_syscall_exit_stop(m, t)
               ELSE rec_prepare_syscall(m, t, task[t].call))

\* The end of a call the task was stopped in.
ExitingSyscall(t) ==
    /\ task[t].at = "exiting" /\ ~Stopped(M, t)
    /\ Free(maybe_trigger_emulated_ptrace_syscall_exit_stop(At(M, t, "user"), t))

(***************************************************************************)
(* destroy.  The task leaves its ptracer's tracees and lets go of its own, *)
(* which run on; the kernel tells the parent when the process is gone.     *)
(***************************************************************************)
ReleasedRecord(r) ==
    [r EXCEPT !.ptracer = NoTask, !.options = {}, !.stop_pending = FALSE,
              !.stop_type = "NotStopped"]

ReleaseTracees(m, t) ==
    [m EXCEPT !.task = [u \in Tasks |-> IF u \in m.task[t].tracees
                                        THEN ReleasedRecord(m.task[u]) ELSE m.task[u]],
              !.unseen = [u \in Tasks |-> m.unseen[u] /\ u \notin m.task[t].tracees],
              !.failed = @ \cup (IF \E u \in m.task[t].tracees : m.task[u].at = "insys"
                                 THEN {"syscall never resumed"} ELSE {})]

\* Mutant: the dead task stays among its ptracer's tracees.
LeaveTracer_not_erased(m, t) ==
    IF m.task[t].ptracer = NoTask THEN m
    ELSE ed_assert(m, "EXIT" \in m.task[t].options => m.task[t].stable_exit, "unstable exit")

LeaveTracer(m, t) ==
    IF m.task[t].ptracer = NoTask THEN m
    ELSE [ed_assert(m, "EXIT" \in m.task[t].options => m.task[t].stable_exit, "unstable exit")
            EXCEPT !.task[m.task[t].ptracer].tracees = @ \ {t}]

GoneRecord(r) == [NewTask("gone") EXCEPT !.stable_exit = r.stable_exit]
Gone(m, t) == [m EXCEPT !.task[t] = GoneRecord(@), !.queue[t] = {}]

NotifyExit(m, t) ==
    IF Group(m, t) = {} /\ t # Tracer /\ child /\ Live(m, Tracer) THEN kill(m, Tracer, "SIGCHLD")
    ELSE m

destroy(t) ==
    /\ task[t].at = "leaving"
    /\ Free(NotifyExit(Gone(ReleaseTracees(LeaveTracer(M, t), t), t), t))

(***************************************************************************)
(* Signals sent by the program or from outside.  A SIGCONT cancels pending *)
(* stop signals, and a stop signal a pending SIGCONT.                      *)
(***************************************************************************)
Cancel(m, g, sig) ==
    [m EXCEPT !.shared[g] = @ \ {sig},
              !.queue = [t \in Tasks |-> IF Tgid(t) = g THEN m.queue[t] \ {sig} ELSE m.queue[t]]]

SendSignal(g, sig) ==
    /\ Group(M, g) # {} /\ sig \notin shared[g]
    /\ sig = "SIGCONT" =>
          /\ \E t \in Group(M, g) : Stopped(M, t)
          /\ SigcontToTraced \/ \A t \in Group(M, g) : task[t].ptracer = NoTask
    /\ Call(kill(CASE sig = "SIGCONT" -> Cancel(M, g, "SIGSTOP")
                   [] sig = "SIGSTOP" -> Cancel(M, g, "SIGCONT")
                   [] OTHER -> M, g, sig))

Recorder(t) ==
    \/ Receive(t) \/ ReceiveSigcont(t) \/ prepare_to_inject_signal(t) \/ Deliver(t)
    \/ RestartWait(t) \/ RealWaitReturns(t)
    \/ EnteringSyscallPtrace(t) \/ ExitingSyscall(t) \/ destroy(t)

Command(t, x) ==
    \/ PtraceAttach(t, x) \/ PtraceGetsiginfo(t, x) \/ PtraceDetach(t, x) \/ PtraceKill(t, x)
    \/ \E opts \in Options : PtraceSeize(t, x, opts) \/ PtraceSetoptions(t, x, opts)
    \/ \E cmd \in Commands : PtraceCont(t, x, cmd)

Program(t) ==
    \/ \E target \in Tasks \cup {AnyTask}, untraced \in BOOLEAN : Wait(t, target, untraced)
    \/ SetSigmask(t) \/ PtraceTraceme(t) \/ ExitTracer(t)
    \/ \E call \in {"other", "execve", "clone", "exit"} : Syscall(t, call)
    \/ \E k \in Kills : k[1] = t /\ SendSignal(k[1], k[2])

\* A failed assertion ends the recording.
Next ==
    /\ failed = {}
    /\ \/ \E t \in Tasks : Recorder(t) \/ Program(t)
       \/ \E t \in Tasks, x \in Tasks : Command(t, x)

Spec == Init /\ [][Next]_vars

-----------------------------------------------------------------------------
\* No assertion of rd fails beyond the known ones.
AssertionsHold == failed \subseteq Known

\* The ptracer of a task and the tracees of a task are two views of one relation.
PtracerAndTraceesAgree ==
    \A t, u \in Tasks : (task[t].ptracer = u) <=> (t \in task[u].tracees /\ Live(M, u))

\* A stop of a tracee stays pending until its tracer has seen or ended it.
StopNotLost ==
    failed = {} => \A t \in Tasks : Live(M, t) /\ unseen[t] => task[t].stop_pending /\ Stopped(M, t)

\* The synthetic SIGCHLD is on its way to the tracer as long as one is owed.
SigchldComes ==
    failed = {} => \A t \in Tasks :
        /\ task[t].ptrace_sigchld /\ task[t].stop_pending /\ task[t].ptracer # NoTask
        => {"SIGCHLD", "synthetic"} \cap
              (queue[task[t].ptracer] \cup shared[Tgid(task[t].ptracer)]
               \cup ToSet(task[task[t].ptracer].stash)
               \cup ToSet(task[task[t].ptracer].events)) # {}

\* w is blocked in a wait that the pending stop of tracee t ends.
WaitsForStop(w, t) ==
    /\ task[w].at \in {"wait", "pause"} /\ is_waiting_for_ptrace(M, w, t)
    /\ task[t].stop_pending

\* A task blocked in a wait for a stopped tracee is about to be interrupted, if
\* it entered the wait with no signal put off.
WaiterWoken ==
    \A w, t \in Tasks : WaitsForStop(w, t) /\ task[w].stash = <<>> => Deliverable(M, w) # {}

\* The same for every blocked wait.
EveryWaiterWoken == \A w, t \in Tasks : WaitsForStop(w, t) => Deliverable(M, w) # {}

\* Only synthetic SIGCHLDs are put off while a task is blocked in a wait.
OnlySigchldDeferred ==
    \A t \in Tasks : task[t].at \in {"wait", "pause"} => ToSet(task[t].stash) \subseteq {"synthetic"}
=============================================================================
