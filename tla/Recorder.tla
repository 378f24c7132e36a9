------------------------------- MODULE Recorder -------------------------------
(***************************************************************************)
(* RecordSession::record_step (src/src/session/record_session.rs) around   *)
(* Scheduler::reschedule, with the tracees and the kernel as environment.  *)
(*                                                                         *)
(* The recorder serialises the tracees: only the current task runs user    *)
(* code, other tasks are stopped or blocked in a system call.  The tracees *)
(* and the kernel act at any time, in particular between the steps of a    *)
(* reschedule.                                                             *)
(*                                                                         *)
(* event[t] is the top of t's event stack:                                 *)
(*   "user"        EvSentinel, EvSignalHandler or EvSyscallInterruption    *)
(*   "processing"  EvSyscall in state ProcessingSyscall                    *)
(*   "exiting"     EvSyscall in state ExitingSyscall                       *)
(*   "restarting"  the same, with an ERESTART* result                      *)
(*   "sched"       EvSched                                                 *)
(*   "signal"      EvSignal, without a user handler                        *)
(*   "delivery"    EvSignalDelivery                                        *)
(* EnteringSyscall is passed through within one record_step.               *)
(***************************************************************************)
EXTENDS Scheduler

CONSTANTS
    Syscalls,       \* system calls the tracees make
    Inputs,         \* what else happens to them
    Nice,           \* arguments of setpriority
    WaitForAll      \* RecordSession::wait_for_all_

AllSyscalls == {"blocking", "quick", "sched_yield", "exit", "exit_group",
                "execve", "clone", "setpriority"}
AllInputs == {"kill", "sigstop", "sigfatal", "interrupt", "restart"}

ASSUME SyscallsAssumption == Syscalls \subseteq AllSyscalls
ASSUME InputsAssumption == Inputs \subseteq AllInputs
ASSUME NiceAssumption == Nice \subseteq Priority
ASSUME WaitForAllAssumption == WaitForAll \in BOOLEAN

VARIABLES
    last_task_switchable,   \* RecordSession::last_task_switchable
    unborn,                 \* tasks no clone has created yet
    leader,                 \* the task whose rec_tid is the group id
    killed                  \* tasks with a fatal signal, exit not yet reached

rvars == <<last_task_switchable, unborn, leader, killed>>
vars == <<qvars, svars, wvars, tvars, rvars>>

Signals == {"sigstop", "sigfatal", "sigcont"}
Stops == {"entry", "sysexit", "restart", "slice", "exec", "exit"} \cup Signals

(***************************************************************************)
(* Progress of an execve in the kernel: the other threads were killed; the *)
(* thread has lost its tid to become the leader; the exec event is over.   *)
(***************************************************************************)
ExecStates == {"execve", "execve_alone", "execve_moved", "execve_done"}

TypeOK ==
    /\ QTypeOK
    /\ current_ \in Task \cup {NoTask}
    /\ must_run_task \in Task \cup {NoTask}
    /\ in_exec_tgid \in Task \cup {NoTask}
    /\ timeslice_left \in BOOLEAN
    /\ high_priority_only \in BOOLEAN
    /\ enable_poll \in BOOLEAN
    /\ by_waitpid \in BOOLEAN
    /\ pc \in {"step", "waitcur", "loop", "higher", "carry", "front", "any",
               "sigwait", "sigwaitcur", "wait", "run", "end", "panic"}
    /\ scan \subseteq Priority \X Task
    /\ target \in Task \cup {NoTask}
    /\ unstable \in [Task -> BOOLEAN]
    /\ stable_exit \in [Task -> BOOLEAN]
    /\ is_stopped \in [Task -> BOOLEAN]
    /\ wait_status \in [Task -> Stops \cup {"none"}]
    /\ detected \in [Task -> BOOLEAN]
    /\ emulated_stop \in [Task -> BOOLEAN]
    /\ event \in [Task -> {"user", "processing", "exiting", "restarting", "sched",
                           "signal", "delivery"}]
    /\ detail \in [Task -> AllSyscalls \cup ExecStates \cup Signals \cup {"none"}]
    /\ kernel_event \in [Task -> Stops \cup {"none"}]
    /\ sigcont \subseteq Task
    /\ last_task_switchable \in {"AllowSwitch", "PreventSwitch"}
    /\ unborn \subseteq Task
    /\ leader \in [Task -> Task]
    /\ killed \subseteq Task

(***************************************************************************)
(* The session after its constructor: the first task is stopped and        *)
(* registered, no task is current yet.  Its priority is 0 (chaos mode      *)
(* draws one).                                                             *)
(***************************************************************************)
Root == CHOOSE t \in Task : \A u \in Task : t <= u

Init ==
    /\ \E p \in IF EnableChaos THEN {0, 1} ELSE {0} :
          /\ priority = [t \in Task |-> IF t = Root THEN p ELSE 0]
          /\ task_priority_set = {<<p, Root>>}
    /\ task_round_robin_queue = <<>>
    /\ in_round_robin_queue = [t \in Task |-> FALSE]
    /\ registered = {Root}
    /\ current_ = NoTask
    /\ must_run_task = NoTask
    /\ in_exec_tgid = NoTask
    /\ timeslice_left = FALSE
    /\ high_priority_only = FALSE
    /\ enable_poll = FALSE
    /\ by_waitpid = FALSE
    /\ pc = "step"
    /\ scan = {}
    /\ target = NoTask
    /\ panic = "none"
    /\ unstable = [t \in Task |-> FALSE]
    /\ stable_exit = [t \in Task |-> FALSE]
    /\ is_stopped = [t \in Task |-> TRUE]
    /\ wait_status = [t \in Task |-> "none"]
    /\ detected = [t \in Task |-> FALSE]
    /\ emulated_stop = [t \in Task |-> FALSE]
    /\ event = [t \in Task |-> "user"]
    /\ detail = [t \in Task |-> "none"]
    /\ kernel_event = [t \in Task |-> "none"]
    /\ sigcont = {}
    /\ last_task_switchable = "PreventSwitch"
    /\ unborn = Task \ {Root}
    /\ leader = Tgid
    /\ killed = {}

-----------------------------------------------------------------------------
(* The tracees and the kernel.  [external] *)

(* t runs and has not reported a stop. *)
Running(t) ==
    /\ t \in registered
    /\ ~is_stopped[t]
    /\ ~detected[t]
    /\ kernel_event[t] = "none"
    /\ t \notin killed

(* svars without timeslice_left *)
OtherSvars == <<current_, must_run_task, in_exec_tgid, high_priority_only,
                enable_poll, by_waitpid, pc, scan, target, panic>>

KernelFrame ==
    UNCHANGED <<qvars, svars, tvars, is_stopped, wait_status, detected,
                last_task_switchable, unborn, leader>>

Report(t, what) == kernel_event' = [kernel_event EXCEPT ![t] = what]

(* User code enters a system call, uses up its ticks or is signalled. *)
RunUser(t) ==
    /\ Running(t)
    /\ event[t] = "user"
    /\ Tgid[t] \notin sigcont
    /\ \E what \in {"entry", "slice"} \cup (Inputs \cap {"sigstop", "sigfatal"}) :
          Report(t, what)
    /\ timeslice_left' \in {timeslice_left, FALSE}
    /\ UNCHANGED <<qvars, OtherSvars, tvars, is_stopped, wait_status, detected, rvars>>

(* A resumed task takes the pending SIGCONT before it runs user code. *)
TakeSigcont(t) ==
    /\ Running(t)
    /\ event[t] = "user"
    /\ Tgid[t] \in sigcont
    /\ Report(t, "sigcont")
    /\ sigcont' = sigcont \ {Tgid[t]}
    /\ UNCHANGED <<qvars, svars, is_stopped, wait_status, detected, unstable,
                   stable_exit, emulated_stop, event, detail, rvars>>

Dying(t) == wait_status[t] = "exit" \/ kernel_event[t] = "exit" \/ detected[t]

(***************************************************************************)
(* A fatal signal for the tasks of T: those not yet exiting will exit.  A  *)
(* thread that became the leader dies under the leader's tid.              *)
(***************************************************************************)
Kill(T) ==
    killed' = killed \cup {t \in T : ~Dying(t) /\ detail[t] # "execve_moved"}

(* A system call completes in the kernel. *)
RunSyscall(t) ==
    /\ Running(t)
    /\ event[t] = "processing"
    /\ \/ /\ detail[t] \notin {"exit", "exit_group", "execve_alone", "execve_moved"}
          /\ Report(t, "sysexit")
          /\ UNCHANGED killed
       \/ /\ detail[t] \in {"blocking", "execve"}
          /\ "restart" \in Inputs
          /\ Report(t, "restart")
          /\ UNCHANGED killed
       \/ detail[t] = "exit" /\ Report(t, "exit") /\ UNCHANGED killed
       \/ detail[t] = "exit_group" /\ Kill(Group(t)) /\ UNCHANGED kernel_event
    /\ KernelFrame

(* execve passes the point of no return: the other threads are killed. *)
DeThread(t) ==
    /\ Running(t)
    /\ event[t] = "processing"
    /\ detail[t] = "execve"
    /\ detail' = [detail EXCEPT ![t] = "execve_alone"]
    /\ Kill(Group(t) \ {t})
    /\ UNCHANGED <<qvars, svars, wvars, unstable, stable_exit, emulated_stop,
                   event, sigcont, last_task_switchable, unborn, leader>>

(***************************************************************************)
(* The exec event, once the other threads are gone.  It is reported with   *)
(* the group id as tid.  A leader blocked in the kernel may disappear      *)
(* without reporting its exit (record_session.rs:991-999).                 *)
(***************************************************************************)
ReportExec(t) ==
    /\ Running(t)
    /\ event[t] = "processing"
    /\ detail[t] = "execve_alone"
    /\ LET first  == leader[Tgid[t]]
           others == Group(t) \ {t}
       IN  \/ others = {} /\ Report(t, "exec") /\ UNCHANGED <<detail, killed>>
           \/ /\ others = {first}
              /\ first \in killed
              /\ ~is_stopped[first]
              /\ MayBeBlocked(first)
              /\ Report(first, "exec")
              /\ detail' = [detail EXCEPT ![t] = "execve_moved"]
              /\ killed' = killed \ {first}
    /\ UNCHANGED <<qvars, svars, is_stopped, wait_status, detected, unstable,
                   stable_exit, emulated_stop, event, sigcont,
                   last_task_switchable, unborn, leader>>

(* A killed task reaches its exit stop, whatever it was doing. *)
ReportExit(t) ==
    /\ t \in killed \cap registered
    /\ Report(t, "exit")
    /\ killed' = killed \ {t}
    /\ KernelFrame

(* SIGKILL from outside the recording. *)
KillGroup(t) ==
    /\ "kill" \in Inputs
    /\ t \in registered
    /\ Kill(Group(t))
    /\ killed' # killed
    /\ UNCHANGED kernel_event
    /\ KernelFrame

(* SIGCONT from outside for a stopped group. *)
SendSigcont(t) ==
    /\ t \in registered
    /\ emulated_stop[t]
    /\ Tgid[t] \notin sigcont
    /\ sigcont' = sigcont \cup {Tgid[t]}
    /\ UNCHANGED <<qvars, svars, wvars, unstable, stable_exit, emulated_stop,
                   event, detail, rvars>>

-----------------------------------------------------------------------------
(* waitpid(-1) in reschedule *)

(* Mutant: the status of a task that may not be scheduled is thrown away. *)
NoteStatus_OnlyIfScheduled(t) ==
    /\ is_stopped' = [is_stopped EXCEPT ![t] = TRUE]
    /\ wait_status' = [wait_status EXCEPT ![t] =
                         IF in_exec_tgid \in {NoTask, Tgid[t]} THEN kernel_event[t] ELSE @]
    /\ kernel_event' = [kernel_event EXCEPT ![t] = "none"]

(* did_waitpid with the status waitpid(-1) returned. *)
NoteStatus(t) ==
    /\ is_stopped' = [is_stopped EXCEPT ![t] = TRUE]
    /\ wait_status' = [wait_status EXCEPT ![t] = kernel_event[t]]
    /\ kernel_event' = [kernel_event EXCEPT ![t] = "none"]

(***************************************************************************)
(* Any task the kernel has an event for.  An exec event proves that the    *)
(* group is not in an unstable exit; if the leader is gone, the tid is     *)
(* given to the task that called execve (revive_task_for_exec).  While a   *)
(* group is in execve the tasks of other groups are noted and left alone.  *)
(***************************************************************************)
WaitAny(t) ==
    LET what == kernel_event[t]
        isExec == what = "exec"
    IN
    /\ pc = "wait"
    /\ t \in registered
    /\ what # "none"
    /\ unstable' = [unstable EXCEPT ![t] = @ /\ ~isExec]
    /\ leader' = IF isExec /\ leader[Tgid[t]] \notin registered
                 THEN [leader EXCEPT ![Tgid[t]] = t] ELSE leader
    /\ NoteStatus(t)
    /\ IF ~unstable'[t] /\ ~MayBeBlocked(t) /\ what # "exit"
       THEN /\ Fail("Scheduled task should have been blocked or unstable")
            /\ UNCHANGED <<qvars, current_, timeslice_left, event, scan,
                           by_waitpid, must_run_task>>
       ELSE IF in_exec_tgid \notin {NoTask, Tgid[t]}
       THEN UNCHANGED <<qvars, current_, timeslice_left, event, scan, pc, panic,
                        by_waitpid, must_run_task>>
       ELSE by_waitpid' = TRUE /\ must_run_task' = t /\ SwitchTo(t, t)
    /\ UNCHANGED <<detected, stable_exit, emulated_stop, detail, sigcont,
                   in_exec_tgid, high_priority_only, enable_poll, target,
                   last_task_switchable, unborn, killed>>

(***************************************************************************)
(* waitpid(-1) returns EINTR: the polling timer, or a signal for the       *)
(* recorder itself.  self.current().unwrap() panics without a task.        *)
(***************************************************************************)
WaitInterrupted ==
    /\ pc = "wait"
    /\ enable_poll \/ "interrupt" \in Inputs
    /\ IF current_ = NoTask
       THEN Fail("EINTR without a current task")
       ELSE IF must_run_task # NoTask
       THEN Fail("EINTR with a task that must run")
       ELSE pc' = "step" /\ UNCHANGED panic
    /\ UNCHANGED <<qvars, wvars, tvars, rvars, current_, must_run_task,
                   in_exec_tgid, timeslice_left, high_priority_only, enable_poll,
                   by_waitpid, scan, target>>

-----------------------------------------------------------------------------
(* record_step *)

CanEnd ==
    IF WaitForAll THEN registered = {}
    ELSE \A t \in registered : Tgid[t] # Tgid[Root]

StepExited ==
    /\ pc = "step"
    /\ CanEnd
    /\ pc' = "end"
    /\ UNCHANGED <<qvars, wvars, tvars, rvars, current_, must_run_task,
                   in_exec_tgid, timeslice_left, high_priority_only, enable_poll,
                   by_waitpid, scan, target, panic>>

Reschedule ==
    /\ ~CanEnd
    /\ RescheduleBegin(last_task_switchable)
    /\ UNCHANGED rvars

(* What the handlers below leave alone. *)
StepFrame ==
    UNCHANGED <<must_run_task, high_priority_only, enable_poll, by_waitpid, scan,
                target>>

(* A handler that returns with t stopped and its event consumed. *)
DontContinue(t) ==
    /\ wait_status' = [wait_status EXCEPT ![t] = "none"]
    /\ UNCHANGED <<is_stopped, detected, kernel_event>>

(***************************************************************************)
(* task_continue asserts that a task in an emulated stop is left alone.    *)
(* The code tests emulated_stop_pending, which is set with the stop and    *)
(* reset when a tracer or parent has seen it; nobody waits for the stop    *)
(* here.                                                                   *)
(***************************************************************************)
TaskContinue(t) ==
    IF emulated_stop[t]
    THEN Fail("task_continue of a task in an emulated stop") /\ UNCHANGED wvars
    ELSE pc' = "step" /\ ResumeExecution(t) /\ UNCHANGED panic

(***************************************************************************)
(* Scheduler::on_destroy_task.  Task destruction removes the task from the *)
(* thread group after this, so the last task still counts itself.          *)
(***************************************************************************)
DestroyedLast(t) == Tgid[t] = in_exec_tgid /\ Group(t) = {t}

(* Mutants: current_, the exec or the container entry outlives the task. *)
OnDestroyTask_KeepsCurrent(t) ==
    /\ RemoveTask(t)
    /\ UNCHANGED current_
    /\ in_exec_tgid' = IF DestroyedLast(t) THEN NoTask ELSE in_exec_tgid

OnDestroyTask_KeepsEntry(t) ==
    /\ registered' = registered \ {t}
    /\ UNCHANGED <<task_priority_set, task_round_robin_queue, in_round_robin_queue,
                   priority>>
    /\ current_' = IF current_ = t THEN NoTask ELSE current_
    /\ in_exec_tgid' = IF DestroyedLast(t) THEN NoTask ELSE in_exec_tgid

OnDestroyTask(t) ==
    /\ RemoveTask(t)
    /\ current_' = IF current_ = t THEN NoTask ELSE current_
    /\ in_exec_tgid' = IF DestroyedLast(t) THEN NoTask ELSE in_exec_tgid

(***************************************************************************)
(* handle_ptrace_exit_event: an exit that was not announced by prepare_exit *)
(* makes the whole group unstable.                                         *)
(***************************************************************************)
HandlePtraceExitEvent ==
    LET t == current_ IN
    /\ pc = "run"
    /\ wait_status[t] = "exit"
    /\ unstable' = [u \in Task |-> unstable[u] \/ (~stable_exit[t] /\ u \in Group(t))]
    /\ OnDestroyTask(t)
    /\ last_task_switchable' = "PreventSwitch"
    /\ wait_status' = [wait_status EXCEPT ![t] = "none"]
    /\ kernel_event' = [kernel_event EXCEPT ![t] = "none"]
    /\ killed' = killed \ {t}
    /\ sigcont' = IF Group(t) = {t} THEN sigcont \ {Tgid[t]} ELSE sigcont
    /\ pc' = "step"
    /\ UNCHANGED <<is_stopped, detected, stable_exit, emulated_stop, event, detail,
                   timeslice_left, panic, unborn, leader>>
    /\ StepFrame

(* No other event of a task in an unstable exit is recorded. *)
IgnoreUnstable ==
    /\ pc = "run"
    /\ wait_status[current_] # "exit"
    /\ unstable[current_]
    /\ last_task_switchable' = "AllowSwitch"
    /\ DontContinue(current_)
    /\ pc' = "step"
    /\ UNCHANGED <<qvars, tvars, current_, in_exec_tgid, timeslice_left, panic,
                   unborn, leader, killed>>
    /\ StepFrame

(* The rest of record_step, for the current task t with event top ev. *)
Handling(t, ev) ==
    /\ pc = "run"
    /\ t = current_
    /\ wait_status[t] # "exit"
    /\ ~unstable[t]
    /\ event[t] = ev
    /\ StepFrame

StatusIs(t, S) == by_waitpid /\ wait_status[t] \in S

(***************************************************************************)
(* handle_ptrace_event for PTRACE_EVENT_EXEC.  If the old leader's object  *)
(* got the event, it is destroyed and the task that called execve takes    *)
(* over its tid; then it is resumed.                                       *)
(***************************************************************************)
HandleExecEvent(t) ==
    /\ Handling(t, event[t])
    /\ StatusIs(t, {"exec"})
    /\ \E x \in IF Group(t) = {t} THEN {t} ELSE Group(t) \ {t} :
          /\ detail[x] \in {"execve_alone", "execve_moved"}
          /\ IF Group(t) = {t}
             THEN UNCHANGED <<qvars, leader, timeslice_left, killed>>
             ELSE /\ RemoveTask(t)
                  /\ leader' = [leader EXCEPT ![Tgid[t]] = x]
                  /\ timeslice_left' \in BOOLEAN
                  /\ killed' = IF t \in killed THEN (killed \ {t}) \cup {x}
                                              ELSE killed
          /\ current_' = x
          /\ unstable' = [unstable EXCEPT ![x] = FALSE]
          /\ detail' = [detail EXCEPT ![x] = "execve_done"]
          /\ is_stopped' = [is_stopped EXCEPT ![x] = FALSE]
          /\ wait_status' = [wait_status EXCEPT ![t] = "none", ![x] = "none"]
          /\ detected' = [detected EXCEPT ![x] = kernel_event[t] = "exit"]
          /\ kernel_event' = [kernel_event EXCEPT ![t] = "none", ![x] = "none"]
          /\ IF emulated_stop[x]
             THEN Fail("task_continue of a task in an emulated stop")
             ELSE pc' = "step" /\ UNCHANGED panic
    /\ last_task_switchable' = "PreventSwitch"
    /\ UNCHANGED <<stable_exit, emulated_stop, event, sigcont, in_exec_tgid, unborn>>

(* Mutant: the switchability computed for the last event is left alone. *)
ContinueUser_KeepsSwitchable(t) ==
    /\ Handling(t, "user")
    /\ ~StatusIs(t, Stops)
    /\ TaskContinue(t)
    /\ UNCHANGED <<qvars, tvars, current_, in_exec_tgid, timeslice_left, rvars>>

(* Nothing happened to t: it goes on. *)
ContinueUser(t) ==
    /\ Handling(t, "user")
    /\ ~StatusIs(t, Stops)
    /\ TaskContinue(t)
    /\ last_task_switchable' = "PreventSwitch"
    /\ UNCHANGED <<qvars, tvars, current_, in_exec_tgid, timeslice_left, unborn,
                   leader, killed>>

(***************************************************************************)
(* Time-slice signal: handle_signal pushes EvSched; a suspected spinlock   *)
(* starts a round-robin.                                                   *)
(***************************************************************************)
HandleTimeSlice(t) ==
    /\ Handling(t, "user")
    /\ StatusIs(t, {"slice"})
    /\ event' = [event EXCEPT ![t] = "sched"]
    /\ last_task_switchable' = "AllowSwitch"
    /\ DontContinue(t)
    /\ \/ pc' = "step" /\ UNCHANGED <<qvars, timeslice_left, panic>>
       \/ IF IsFront(t) \/ ~in_round_robin_queue[t]
          THEN /\ ScheduleOneRoundRobin(t)
               /\ timeslice_left' = FALSE
               /\ pc' = "step" /\ UNCHANGED panic
          ELSE /\ Fail("schedule_one_round_robin: already queued")
               /\ UNCHANGED <<qvars, timeslice_left>>
    /\ UNCHANGED <<unstable, stable_exit, emulated_stop, detail, sigcont, current_,
                   in_exec_tgid, unborn, leader, killed>>

(* In syscall buffer code handle_signal defers it and the task goes on. *)
DeferTimeSlice(t) ==
    /\ Handling(t, "user")
    /\ StatusIs(t, {"slice"})
    /\ last_task_switchable' = "PreventSwitch"
    /\ TaskContinue(t)
    /\ UNCHANGED <<qvars, tvars, current_, in_exec_tgid, timeslice_left, unborn,
                   leader, killed>>

-----------------------------------------------------------------------------
(* Signals without a user handler *)

SignalFrame == UNCHANGED <<qvars, stable_exit, current_, in_exec_tgid,
                           timeslice_left, unborn, leader>>

(* handle_signal_event and prepare_to_inject_signal: EvSignal is pushed. *)
TakeSignal(t) ==
    /\ Handling(t, "user")
    /\ StatusIs(t, Signals)
    /\ event' = [event EXCEPT ![t] = "signal"]
    /\ detail' = [detail EXCEPT ![t] = wait_status[t]]
    /\ DontContinue(t)
    /\ last_task_switchable' = "PreventSwitch"
    /\ pc' = "step"
    /\ UNCHANGED <<unstable, emulated_stop, sigcont, killed, panic>>
    /\ SignalFrame

(* signal_state_changed for EvSignal. *)
SignalStateChanged(t) ==
    /\ Handling(t, "signal")
    /\ event' = [event EXCEPT ![t] = "delivery"]
    /\ DontContinue(t)
    /\ last_task_switchable' = "PreventSwitch"
    /\ pc' = "step"
    /\ UNCHANGED <<unstable, emulated_stop, detail, sigcont, killed, panic>>
    /\ SignalFrame

(* Mutant: the recorder stays with the task a signal has killed or stopped. *)
DeliverySwitchable_Never(t) == {"PreventSwitch"}

(***************************************************************************)
(* The switchability after a delivery: a deadly signal or a stop lets      *)
(* other tasks run (record_session.rs:1197-1236).                          *)
(***************************************************************************)
DeliverySwitchable(t) ==
    IF detail[t] = "sigcont" THEN {"AllowSwitch", "PreventSwitch"} ELSE {"AllowSwitch"}

(***************************************************************************)
(* signal_state_changed for EvSignalDelivery.  A fatal signal is injected  *)
(* and the group becomes unstable; a stop signal stops every thread of the *)
(* group by emulation; SIGCONT ends the stop.                              *)
(***************************************************************************)
DeliverSignal(t) ==
    /\ Handling(t, "delivery")
    /\ event' = [event EXCEPT ![t] = "user"]
    /\ \/ /\ detail[t] = "sigfatal"
          /\ ResumeExecution(t)
          /\ unstable' = [u \in Task |-> unstable[u] \/ u \in Group(t)]
          /\ Kill(Group(t))
          /\ UNCHANGED emulated_stop
       \/ /\ detail[t] = "sigstop"
          /\ emulated_stop' = [u \in Task |-> emulated_stop[u] \/ u \in Group(t)]
          /\ DontContinue(t)
          /\ UNCHANGED <<unstable, killed>>
       \/ /\ detail[t] = "sigcont"
          /\ EmulateSigcont(t)
          /\ DontContinue(t)
          /\ UNCHANGED <<unstable, killed>>
    /\ last_task_switchable' \in DeliverySwitchable(t)
    /\ pc' = "step"
    /\ UNCHANGED <<detail, sigcont, panic>>
    /\ SignalFrame

-----------------------------------------------------------------------------
(* System calls *)

(* The common part of process_syscall_entry and syscall_state_changed. *)
Enter(t, s, switchable) ==
    /\ s \in Syscalls
    /\ Handling(t, "user")
    /\ StatusIs(t, {"entry"})
    /\ event' = [event EXCEPT ![t] = "processing"]
    /\ detail' = [detail EXCEPT ![t] = s]
    /\ last_task_switchable' = switchable
    /\ UNCHANGED <<unstable, emulated_stop, sigcont, current_, leader, killed>>

EnterPlain(t) ==
    /\ \/ Enter(t, "blocking", "AllowSwitch")
       \/ Enter(t, "quick", "PreventSwitch")
    /\ TaskContinue(t)
    /\ UNCHANGED <<qvars, in_exec_tgid, timeslice_left, stable_exit, unborn>>

EnterSchedYield(t) ==
    /\ Enter(t, "sched_yield", "AllowSwitch")
    /\ IF IsFront(t) \/ ~in_round_robin_queue[t]
       THEN /\ ScheduleOneRoundRobin(t)
            /\ timeslice_left' = FALSE
            /\ TaskContinue(t)
       ELSE /\ Fail("schedule_one_round_robin: already queued")
            /\ UNCHANGED <<qvars, wvars, timeslice_left>>
    /\ UNCHANGED <<in_exec_tgid, stable_exit, unborn>>

(* did_enter_execve asserts that no other execve is under way. *)
EnterExecve(t) ==
    /\ Enter(t, "execve", "AllowSwitch")
    /\ IF in_exec_tgid = NoTask
       THEN in_exec_tgid' = Tgid[t] /\ TaskContinue(t)
       ELSE /\ Fail("did_enter_execve: another execve is already happening")
            /\ UNCHANGED <<in_exec_tgid, wvars>>
    /\ UNCHANGED <<qvars, timeslice_left, stable_exit, unborn>>

(* Mutants: off by one; every task. *)
UpdateTaskPriority_OffByOne(t, v, stable) ==
    SetPriorities({t}, [u \in {t} |-> IF stable /\ ~EnableChaos THEN -10000 ELSE v])

(* update_task_priority_internal(t, v) *)
UpdateTaskPriority(t, v, stable) ==
    LET value == IF stable /\ ~EnableChaos THEN -9999 ELSE v
    IN  SetPriorities({t}, [u \in {t} |-> value])

(* prepare_exit *)
StableExit(t) ==
    /\ stable_exit' = [stable_exit EXCEPT ![t] = TRUE]
    /\ UpdateTaskPriority(t, priority[t], TRUE)

EnterExit(t) ==
    /\ \/ Enter(t, "exit", "AllowSwitch") /\ StableExit(t)
       \/ /\ Group(t) = {t}
          /\ Enter(t, "exit_group", "AllowSwitch")
          /\ StableExit(t)
       \/ /\ Group(t) # {t}
          /\ Enter(t, "exit_group", "PreventSwitch")
          /\ UNCHANGED <<qvars, stable_exit>>
    /\ TaskContinue(t)
    /\ UNCHANGED <<in_exec_tgid, timeslice_left, unborn>>

(* prepare_clone: a thread of the same group or a new process, or failure. *)
EnterClone(t) ==
    /\ Enter(t, "clone", "AllowSwitch")
    /\ \/ \E u \in unborn :
             /\ Tgid[u] \in {u, Tgid[t]}
             /\ CreateTask(u, priority[t])
             /\ unborn' = unborn \ {u}
       \/ UNCHANGED <<qvars, unborn>>
    /\ TaskContinue(t)
    /\ UNCHANGED <<in_exec_tgid, timeslice_left, stable_exit>>

(* The priority changes at entry, whether or not the call succeeds. *)
EnterSetpriority(t) ==
    /\ Enter(t, "setpriority", "PreventSwitch")
    /\ \E u \in registered, v \in Nice :
          IF EnableChaos THEN UNCHANGED qvars
                         ELSE UpdateTaskPriority(u, v, stable_exit[u])
    /\ TaskContinue(t)
    /\ UNCHANGED <<in_exec_tgid, timeslice_left, stable_exit, unborn>>

(* The system call has finished: ProcessingSyscall becomes ExitingSyscall. *)
SyscallProcessed(t) ==
    /\ Handling(t, "processing")
    /\ ~StatusIs(t, {"exec"})
    /\ event' = [event EXCEPT ![t] = IF wait_status[t] = "restart"
                                     THEN "restarting" ELSE "exiting"]
    /\ IF StatusIs(t, Signals)
       THEN Fail("signal pending while in syscall")
       ELSE pc' = "step" /\ UNCHANGED panic
    /\ DontContinue(t)
    /\ last_task_switchable' = "PreventSwitch"
    /\ UNCHANGED <<qvars, unstable, stable_exit, emulated_stop, detail, sigcont,
                   current_, in_exec_tgid, timeslice_left, unborn, leader, killed>>

(* Mutant: the execve is never declared over. *)
DidExitExecve_Forgets(t) ==
    /\ IF in_exec_tgid = Tgid[t]
       THEN pc' = "step" /\ UNCHANGED panic
       ELSE Fail("did_exit_execve: an execve we didn't know about")
    /\ UNCHANGED in_exec_tgid

(* Scheduler::did_exit_execve *)
DidExitExecve(t) ==
    /\ IF in_exec_tgid = Tgid[t]
       THEN pc' = "step" /\ UNCHANGED panic
       ELSE Fail("did_exit_execve: an execve we didn't know about")
    /\ in_exec_tgid' = NoTask

(***************************************************************************)
(* ExitingSyscall.  rec_process_syscall calls did_exit_execve; a call that *)
(* may be restarted is frozen on the event stack without it.               *)
(***************************************************************************)
SyscallExited(t) ==
    /\ Handling(t, event[t])
    /\ event[t] \in {"exiting", "restarting"}
    /\ event' = [event EXCEPT ![t] = "user"]
    /\ detail' = [detail EXCEPT ![t] = "none"]
    /\ IF event[t] = "exiting" /\ detail[t] \in ExecStates
       THEN DidExitExecve(t)
       ELSE pc' = "step" /\ UNCHANGED <<in_exec_tgid, panic>>
    /\ DontContinue(t)
    /\ last_task_switchable' = "AllowSwitch"
    /\ UNCHANGED <<qvars, unstable, stable_exit, emulated_stop, sigcont, current_,
                   timeslice_left, unborn, leader, killed>>

-----------------------------------------------------------------------------
SchedulerStep ==
    /\ \/ WaitForCurrent \/ LoopBegin \/ PollHigherPriority \/ NoHigherPriority
       \/ PollCurrent \/ PollFront \/ NoFront \/ PollAny \/ AllBlocked
       \/ ResumeForSigcont \/ SigcontWait
    /\ UNCHANGED rvars

Handle(t) ==
    \/ HandleExecEvent(t) \/ ContinueUser(t) \/ HandleTimeSlice(t) \/ DeferTimeSlice(t)
    \/ TakeSignal(t) \/ SignalStateChanged(t) \/ DeliverSignal(t)
    \/ EnterPlain(t) \/ EnterSchedYield(t) \/ EnterExecve(t) \/ EnterExit(t)
    \/ EnterClone(t) \/ EnterSetpriority(t)
    \/ SyscallProcessed(t) \/ SyscallExited(t)

RecorderStep ==
    \/ Reschedule
    \/ StepExited
    \/ SchedulerStep
    \/ \E t \in registered : WaitAny(t)
    \/ HandlePtraceExitEvent
    \/ IgnoreUnstable
    \/ \E t \in registered : Handle(t)

KernelStep(t) ==
    \/ RunUser(t) \/ TakeSigcont(t) \/ RunSyscall(t) \/ DeThread(t)
    \/ ReportExec(t) \/ ReportExit(t) \/ KillGroup(t) \/ SendSigcont(t)

Stopped == pc \in {"end", "panic"} /\ UNCHANGED vars

Next ==
    \/ RecorderStep
    \/ WaitInterrupted
    \/ pc \notin {"end", "panic"} /\ \E t \in registered : KernelStep(t)
    \/ Stopped

Spec == Init /\ [][Next]_vars

(***************************************************************************)
(* Fairness.  The recorder's loop goes on.  A killed task reaches its exit *)
(* stop, user code goes on until it stops, and again and again uses up its *)
(* timeslice (the tick interrupt is armed on every resume); system calls   *)
(* other than blocking ones return.  A task leaves the syscall buffer code *)
(* in which the time-slice signal is deferred.  waitpid(-1) does not       *)
(* withhold one task's event for ever.                                     *)
(***************************************************************************)
UseUpTimeslice(t) == RunUser(t) /\ ~timeslice_left'

Live(A) == pc \notin {"end", "panic"} /\ A

Fairness ==
    /\ WF_vars(RecorderStep)
    /\ \A t \in Task :
          /\ SF_vars(WaitAny(t))
          /\ WF_vars(Live(ReportExit(t)))
          /\ WF_vars(Live(RunUser(t)))
          /\ SF_vars(Live(UseUpTimeslice(t)))
          /\ SF_vars(HandleTimeSlice(t))
          /\ WF_vars(Live(TakeSigcont(t)))
          /\ WF_vars(Live(detail[t] # "blocking" /\ RunSyscall(t)))
          /\ WF_vars(Live(ReportExec(t)))

FairSpec == Spec /\ Fairness

-----------------------------------------------------------------------------
(***************************************************************************)
(* None of these assertions of the recorder fails: validate_scheduled_task *)
(* (scheduler.rs:1116), "Don't wait for unstable tasks" (task.rs:420),     *)
(* the waitpid(-1) assertion (scheduler.rs:524), must_run_task empty on    *)
(* EINTR (scheduler.rs:491), schedule_one_round_robin's (scheduler.rs:605),*)
(* did_enter_execve's and did_exit_execve's (scheduler.rs:748-768),        *)
(* task_continue's (record_session.rs:1620) and the one on signals in      *)
(* system calls (record_session.rs:1364).  Whether they hold depends on    *)
(* which task an earlier step chose, queued or left running.               *)
(***************************************************************************)
AssertionsHold ==
    panic \in {"none", "EINTR without a current task", "event lost",
               "resume_execution: got a status that is not a death"}

(***************************************************************************)
(* The scheduler never holds on to a destroyed task: current_, the task it *)
(* is waiting for and the tasks it still has to visit are weak pointers    *)
(* that reschedule and record_step upgrade and unwrap (scheduler.rs:346,   *)
(* 380, 458), although tasks exit between its steps.  A task that clone    *)
(* has not created yet is in no container (the assertion at                *)
(* scheduler.rs:625).                                                      *)
(***************************************************************************)
NoDanglingTask ==
    /\ current_ \in registered \cup {NoTask}
    /\ pc \in {"waitcur", "higher", "carry", "sigwaitcur", "run"} => current_ \in registered
    /\ \A e \in scan : e[2] \in registered
    /\ scan # {} => pc \in {"higher", "any", "sigwait", "panic"}
    /\ pc \in {"sigwait", "sigwaitcur"} => target \in registered
    /\ \A t \in unborn : t \in Task \ registered /\ ~in_round_robin_queue[t]

(***************************************************************************)
(* User code of at most one task runs: a task that may run user code is    *)
(* the current task and the recorder will not switch away from it          *)
(* (record_session.rs:705-713: otherwise "we have races"), or it is the    *)
(* task is_task_runnable resumed to take a SIGCONT.                        *)
(***************************************************************************)
OneTaskRuns ==
    \A t \in registered :
       event[t] = "user" /\ ~is_stopped[t] /\ ~unstable[t] =>
          \/ t = current_ /\ last_task_switchable = "PreventSwitch"
          \/ pc \in {"sigwait", "sigwaitcur"} /\ t = target

(***************************************************************************)
(* in_exec_tgid names a group in which a thread is in execve (the comment  *)
(* on the field, scheduler.rs:167-168), or all of whose threads are dying; *)
(* as long as it is set no task of another group is scheduled, so a stale  *)
(* value stops the recording.                                              *)
(***************************************************************************)
ExecUnderWay ==
    in_exec_tgid # NoTask =>
       LET G == {t \in registered : Tgid[t] = in_exec_tgid}
       IN  /\ G # {}
           /\ \/ \A t \in G : unstable[t]
              \/ \E t \in G : /\ event[t] \in {"processing", "exiting"}
                              /\ detail[t] \in ExecStates

(***************************************************************************)
(* While a group is in execve, only its tasks become current               *)
(* (scheduler.rs:324, 532-544).                                            *)
(***************************************************************************)
OnlyExecGroupScheduled ==
    [][ in_exec_tgid # NoTask /\ current_' \notin {current_, NoTask}
          => Tgid[current_'] = in_exec_tgid ]_vars

(***************************************************************************)
(* No event of a tracee is lost.  A stop that a waitpid takes from the     *)
(* kernel is stored in the task (or, an exit met while resuming, noted in  *)
(* detected_unexpected_exit); a stored one is consumed by record_step with *)
(* that task current, whoever collected it and however long ago; only a    *)
(* later death replaces it (scheduler.rs:1018-1021, 1075-1081).            *)
(***************************************************************************)
EventsHandledOnce ==
    [][ \A t \in registered \cap registered' :
          /\ wait_status[t] # "none" /\ wait_status'[t] # wait_status[t] =>
                \/ pc = "run" /\ t = current_
                \/ wait_status'[t] = "exit"
          /\ kernel_event[t] # "none" /\ kernel_event'[t] = "none" =>
                \/ wait_status'[t] = kernel_event[t]
                \/ kernel_event[t] = "exit" /\ detected'[t] ]_vars

(***************************************************************************)
(* A task in an emulated stop is not resumed before the stop ends          *)
(* (record_session.rs:1619), although its siblings and other processes are *)
(* scheduled meanwhile.                                                    *)
(***************************************************************************)
EmulatedStopHolds ==
    [][ \A t \in registered :
          emulated_stop[t] /\ emulated_stop'[t] /\ is_stopped[t]
             => is_stopped'[t] ]_vars

(***************************************************************************)
(* A task that can go on is scheduled again, or exits (reschedule's        *)
(* rotation within a priority and the timeslice).                          *)
(***************************************************************************)
NoStarvation ==
    \A t \in Task :
       (t \in registered /\ event[t] = "user" /\ ~emulated_stop[t])
          ~> (t \notin registered \/ (t = current_ /\ pc = "run") \/ pc = "end")

(***************************************************************************)
(* A killed task is noticed, whatever it and the recorder were doing, and  *)
(* its exit is recorded.                                                   *)
(***************************************************************************)
KilledTasksLeave ==
    \A t \in Task : (t \in killed) ~> (t \notin registered \/ pc = "end")

=============================================================================
