------------------------------ MODULE Scheduler ------------------------------
(***************************************************************************)
(* Scheduler::reschedule and the operations it is made of                  *)
(* (src/src/scheduler.rs), over the task fields it reads and writes.       *)
(*                                                                         *)
(* One call of reschedule is a sequence of steps, because the tracees run  *)
(* while it polls and waits for them: pc says where the call is.           *)
(*                                                                         *)
(*   "step"      record_step is about to call reschedule                   *)
(*   "waitcur"   the un-switchable current task is being waited for        *)
(*   "loop"      top of the task selection loop                            *)
(*   "higher"    find_next_runnable_task below the current priority        *)
(*   "carry"     may the current task go on?                               *)
(*   "front"     try the head of the round-robin queue                     *)
(*   "any"       find_next_runnable_task over all priorities               *)
(*   "sigwait"   resume_execution waits for a task that got SIGCONT        *)
(*   "sigwaitcur" the same, for the current task                           *)
(*   "wait"      waitpid(-1)                                               *)
(*   "run"       reschedule has returned; record_step handles current_     *)
(*   "end"       record_step returned StepExited                           *)
(*   "panic"     an assertion failed; panic names it                       *)
(***************************************************************************)
EXTENDS SchedulerQueues

CONSTANTS
    Tgid,           \* thread-group id of each task: its first leader
    AlwaysSwitch    \* Scheduler::always_switch

ASSUME TgidAssumption == Tgid \in [Task -> Task]
ASSUME AlwaysSwitchAssumption == AlwaysSwitch \in BOOLEAN

VARIABLES
    (* Scheduler *)
    current_,           \* task or NoTask
    must_run_task,      \* task or NoTask
    in_exec_tgid,       \* thread-group id or NoTask
    timeslice_left,     \* tick_count of current_ < current_timeslice_end_
    high_priority_only, \* last_reschedule_in_high_priority_only_interval
    enable_poll,        \* Scheduler::enable_poll
    by_waitpid,         \* Rescheduled::by_waitpid
    pc, scan, target,   \* control state of reschedule
    panic,
    (* RecordTask *)
    unstable,           \* Task::unstable
    stable_exit,        \* RecordTask::stable_exit
    is_stopped,         \* Task::is_stopped
    wait_status,        \* event collected by did_waitpid and not yet handled
    detected,           \* Task::detected_unexpected_exit
    emulated_stop,      \* emulated_stop_type # NotStopped
    event,              \* top of the event stack
    detail,             \* the system call or the signal of that event
    (* kernel *)
    kernel_event,       \* stop the kernel has not reported yet
    sigcont             \* thread groups with SIGCONT pending

svars == <<current_, must_run_task, in_exec_tgid, timeslice_left,
           high_priority_only, enable_poll, by_waitpid, pc, scan, target, panic>>
(* What polling and waiting change. *)
wvars == <<is_stopped, wait_status, detected, kernel_event>>
tvars == <<unstable, stable_exit, emulated_stop, event, detail, sigcont>>

Group(t) == {u \in registered : Tgid[u] = Tgid[t]}

MayBeBlocked(t) == event[t] = "processing" \/ emulated_stop[t]

IsDying(t) == wait_status[t] = "exit" \/ detected[t]

TreatSyscallAsNonblocking(s) == s \in {"sched_yield", "exit", "exit_group"}

Fail(why) == pc' = "panic" /\ panic' = why

-----------------------------------------------------------------------------
(* Waiting for and resuming one task. *)

HasEvent(t) == detected[t] \/ kernel_event[t] # "none"

(***************************************************************************)
(* try_wait and wait once they have something to report:                   *)
(* wait_unexpected_exit reports an exit noticed by resume_execution first, *)
(* did_waitpid stores the status and marks the task stopped.               *)
(***************************************************************************)
DidWaitpid(t) ==
    /\ is_stopped' = [is_stopped EXCEPT ![t] = TRUE]
    /\ IF detected[t]
       THEN /\ wait_status' = [wait_status EXCEPT ![t] = "exit"]
            /\ detected' = [detected EXCEPT ![t] = FALSE]
            /\ UNCHANGED kernel_event
       ELSE /\ wait_status' = [wait_status EXCEPT ![t] = kernel_event[t]]
            /\ kernel_event' = [kernel_event EXCEPT ![t] = "none"]
            /\ UNCHANGED detected

(* Mutant: the exit found by the waitpid is not noted. *)
ResumeExecution_DropsExit(t) ==
    /\ is_stopped' = [is_stopped EXCEPT ![t] = FALSE]
    /\ wait_status' = [wait_status EXCEPT ![t] = "none"]
    /\ kernel_event' = [kernel_event EXCEPT ![t] = "none"]
    /\ UNCHANGED detected

(***************************************************************************)
(* resume_execution(t): the waitpid(WNOHANG) in front of the PTRACE_CONT   *)
(* finds a task that a SIGKILL moved to its exit stop in the meantime.     *)
(***************************************************************************)
ResumeExecution(t) ==
    /\ is_stopped' = [is_stopped EXCEPT ![t] = FALSE]
    /\ wait_status' = [wait_status EXCEPT ![t] = "none"]
    /\ detected' = [detected EXCEPT ![t] = kernel_event[t] = "exit"]
    /\ kernel_event' = [kernel_event EXCEPT ![t] = "none"]

-----------------------------------------------------------------------------
(* The ends of a call of reschedule. *)

(* record_step pops the EvSched of the previously current task. *)
PopSched ==
    event' = [t \in Task |-> IF t = current_ /\ event[t] = "sched"
                             THEN "user" ELSE event[t]]

(***************************************************************************)
(* validate_scheduled_task on the state after the step.                    *)
(***************************************************************************)
Validated(t, must, q) ==
    /\ must \in {NoTask, t}
    /\ q = <<>> \/ Head(q) = t

Return(t, must, q) ==
    IF Validated(t, must, q)
    THEN pc' = "run" /\ UNCHANGED panic
    ELSE Fail("validate_scheduled_task")

(* The task that was current stays current, without a new timeslice. *)
CarryOn(must) ==
    /\ Return(current_, must, task_round_robin_queue)
    /\ PopSched
    /\ UNCHANGED <<qvars, current_, timeslice_left, scan>>

(* Lines 559-580: a task was chosen. *)
SwitchTo(t, must) ==
    /\ current_' = t
    /\ timeslice_left' \in BOOLEAN
    /\ Return(t, must, task_round_robin_queue)
    /\ PopSched
    /\ scan' = {}
    /\ UNCHANGED qvars

(* Nothing can be chosen: empty the queue and wait for anyone. *)
EnterWait ==
    /\ ClearRoundRobinQueue
    /\ pc' = "wait"
    /\ scan' = {}
    /\ UNCHANGED <<current_, timeslice_left, event, panic>>

Select(t, must) == IF unstable[t] THEN EnterWait ELSE SwitchTo(t, must)

-----------------------------------------------------------------------------
(***************************************************************************)
(* is_task_runnable(t): its answer, whether it found a status of the task  *)
(* (the task must then run), and its effects.  The branch for a pending    *)
(* SIGCONT, which blocks half-way, is ResumeForSigcont below.              *)
(***************************************************************************)
IsTaskRunnable(t) ==
    \/ unstable[t] \/ ~MayBeBlocked(t)
    \/ emulated_stop[t] /\ (IsDying(t) \/ kernel_event[t] = "exit")
    \/ ~emulated_stop[t] /\ (is_stopped[t] \/ HasEvent(t))

MustRun(t) ==
    IF /\ ~unstable[t] /\ MayBeBlocked(t) /\ ~emulated_stop[t]
       /\ is_stopped[t] \/ HasEvent(t)
    THEN t ELSE NoTask

(* The wait for a call that never blocks is a blocking one. *)
PollTask(t) ==
    /\ must_run_task = NoTask
    /\ IF unstable[t] \/ ~MayBeBlocked(t)
       THEN UNCHANGED <<wvars, enable_poll>>
       ELSE IF emulated_stop[t]
       THEN /\ Tgid[t] \notin sigcont
            /\ enable_poll' = TRUE
            /\ IF HasEvent(t) THEN DidWaitpid(t) ELSE UNCHANGED wvars
       ELSE /\ UNCHANGED enable_poll
            /\ is_stopped[t] \/ HasEvent(t) \/ ~TreatSyscallAsNonblocking(detail[t])
            /\ IF ~is_stopped[t] /\ HasEvent(t) THEN DidWaitpid(t) ELSE UNCHANGED wvars
    /\ must_run_task' = MustRun(t)
    /\ by_waitpid' = IF MustRun(t) = t THEN TRUE ELSE by_waitpid
    /\ UNCHANGED <<unstable, stable_exit, emulated_stop, detail, sigcont,
                   in_exec_tgid, target>>

(* Mutant: the scan always starts at the first task. *)
VisitedBefore_NoRotation(e, f) == PairLess(e, f)

(***************************************************************************)
(* The order in which find_next_runnable_task visits the pairs: by         *)
(* priority, and within one priority starting after the current task if    *)
(* that has this priority and is in the set; shuffled in chaos mode.       *)
(***************************************************************************)
VisitedBefore(e, f) ==
    LET rotate == /\ current_ # NoTask
                  /\ priority[current_] = e[1]
                  /\ Entry(current_) \in task_priority_set
        later(u) == rotate /\ u <= current_
    IN  \/ e[1] < f[1]
        \/ /\ e[1] = f[1]
           /\ \/ EnableChaos
              \/ ~later(e[2]) /\ later(f[2])
              \/ later(e[2]) = later(f[2]) /\ e[2] < f[2]

NextInScan(e) == e \in scan /\ \A f \in scan \ {e} : VisitedBefore(e, f)

TreatAsHighPriority(t) ==
    Cardinality(task_priority_set) > 1 /\ priority[t] = 0

-----------------------------------------------------------------------------
(* reschedule *)

(***************************************************************************)
(* Entry of reschedule (lines 291-321) after record_step found that the    *)
(* recording cannot end.                                                   *)
(***************************************************************************)
MaybeResetPriorities == ResetPriorities \/ UNCHANGED qvars

RescheduleBegin(switchable) ==
    /\ pc = "step"
    /\ must_run_task' = NoTask
    /\ enable_poll' = FALSE
    /\ by_waitpid' = FALSE
    /\ MaybeResetPriorities
    /\ IF current_ # NoTask /\ switchable = "PreventSwitch"
       THEN IF is_stopped[current_]
            THEN Return(current_, NoTask, task_round_robin_queue) /\ PopSched
            ELSE /\ IF unstable[current_]
                    THEN Fail("wait: Don't wait for unstable tasks")
                    ELSE pc' = "waitcur" /\ UNCHANGED panic
                 /\ UNCHANGED event
       ELSE pc' = "loop" /\ UNCHANGED <<event, panic>>
    /\ UNCHANGED <<wvars, unstable, stable_exit, emulated_stop, detail, sigcont,
                   current_, in_exec_tgid, timeslice_left, high_priority_only,
                   scan, target>>

(* curr.wait(): by_waitpid is true and the same task goes on. *)
WaitForCurrent ==
    /\ pc = "waitcur"
    /\ HasEvent(current_)
    /\ DidWaitpid(current_)
    /\ by_waitpid' = TRUE
    /\ CarryOn(NoTask)
    /\ UNCHANGED <<unstable, stable_exit, emulated_stop, detail, sigcont,
                   must_run_task, in_exec_tgid, high_priority_only, enable_poll,
                   target>>

(* Mutant: the loop is entered during an execve. *)
InExecve_Ignored == FALSE

InExecve == in_exec_tgid # NoTask

MayPreempt == task_round_robin_queue = <<>>

(***************************************************************************)
(* Top of the loop, which is skipped while a thread group is in execve.    *)
(* With an empty round-robin queue the tasks of higher priority than       *)
(* current_ are polled first.                                              *)
(***************************************************************************)
LoopBegin ==
    /\ pc = "loop"
    /\ IF InExecve
       THEN EnterWait /\ UNCHANGED high_priority_only
       ELSE /\ high_priority_only' \in IF EnableChaos THEN BOOLEAN ELSE {FALSE}
            /\ IF current_ = NoTask
               THEN pc' = "front" /\ scan' = {}
               ELSE IF MayPreempt
               THEN /\ pc' = "higher"
                    /\ scan' = {e \in task_priority_set : e[1] < priority[current_]}
               ELSE pc' = "carry" /\ scan' = {}
            /\ UNCHANGED <<qvars, current_, timeslice_left, event, panic>>
    /\ UNCHANGED <<wvars, unstable, stable_exit, emulated_stop, detail, sigcont,
                   must_run_task, in_exec_tgid, enable_poll, by_waitpid, target>>

PollHigherPriority ==
    /\ pc = "higher"
    /\ \E e \in scan :
          /\ NextInScan(e)
          /\ PollTask(e[2])
          /\ IF IsTaskRunnable(e[2])
             THEN Select(e[2], MustRun(e[2]))
             ELSE /\ scan' = scan \ {e}
                  /\ UNCHANGED <<qvars, current_, timeslice_left, event, pc, panic>>
    /\ UNCHANGED high_priority_only

NoHigherPriority ==
    /\ pc = "higher"
    /\ scan = {}
    /\ pc' = "carry"
    /\ UNCHANGED <<qvars, wvars, tvars, current_, must_run_task, in_exec_tgid,
                   timeslice_left, high_priority_only, enable_poll, by_waitpid,
                   scan, target, panic>>

(* current_ is rejected: it leaves the head of the queue. *)
RejectCurrent ==
    /\ MaybePopRoundRobinTask(current_)
    /\ pc' = "front"
    /\ UNCHANGED <<current_, timeslice_left, event, scan, panic>>

(* Mutant: the round-robin queue is not looked at. *)
CurrentMayGoOn_IgnoresQueue ==
    /\ ~unstable[current_]
    /\ ~AlwaysSwitch
    /\ TreatAsHighPriority(current_) \/ ~high_priority_only
    /\ timeslice_left

CurrentMayGoOn ==
    /\ ~unstable[current_]
    /\ ~AlwaysSwitch
    /\ task_round_robin_queue = <<>> \/ IsFront(current_)
    /\ TreatAsHighPriority(current_) \/ ~high_priority_only
    /\ timeslice_left

PollCurrent ==
    /\ pc = "carry"
    /\ IF CurrentMayGoOn
       THEN /\ PollTask(current_)
            /\ IF IsTaskRunnable(current_) THEN CarryOn(MustRun(current_)) ELSE RejectCurrent
       ELSE /\ RejectCurrent
            /\ UNCHANGED <<wvars, unstable, stable_exit, emulated_stop, detail,
                           sigcont, by_waitpid, must_run_task, enable_poll, in_exec_tgid,
                           target>>
    /\ UNCHANGED high_priority_only

(* The head of the queue is run, or popped and the loop starts again. *)
PollFront ==
    /\ pc = "front"
    /\ task_round_robin_queue # <<>>
    /\ LET t == Head(task_round_robin_queue) IN
       /\ PollTask(t)
       /\ IF IsTaskRunnable(t)
          THEN Select(t, MustRun(t))
          ELSE /\ PopFront
               /\ pc' = "loop"
               /\ UNCHANGED <<current_, timeslice_left, event, scan, panic>>
    /\ UNCHANGED high_priority_only

NoFront ==
    /\ pc = "front"
    /\ task_round_robin_queue = <<>>
    /\ pc' = "any"
    /\ scan' = task_priority_set
    /\ UNCHANGED <<qvars, wvars, tvars, current_, must_run_task, in_exec_tgid,
                   timeslice_left, high_priority_only, enable_poll, by_waitpid,
                   target, panic>>

(***************************************************************************)
(* A low-priority task found without a wait status is left alone during a  *)
(* high-priority-only interval.                                            *)
(***************************************************************************)
SelectUnlessLowPriority(t, must) ==
    IF high_priority_only /\ ~TreatAsHighPriority(t) /\ must = NoTask
    THEN /\ pc' = "loop"
         /\ scan' = {}
         /\ UNCHANGED <<qvars, current_, timeslice_left, event, panic>>
    ELSE Select(t, must)

PollAny ==
    /\ pc = "any"
    /\ \E e \in scan :
          /\ NextInScan(e)
          /\ PollTask(e[2])
          /\ IF IsTaskRunnable(e[2])
             THEN SelectUnlessLowPriority(e[2], MustRun(e[2]))
             ELSE /\ scan' = scan \ {e}
                  /\ UNCHANGED <<qvars, current_, timeslice_left, event, pc, panic>>
    /\ UNCHANGED high_priority_only

AllBlocked ==
    /\ pc = "any"
    /\ scan = {}
    /\ EnterWait
    /\ UNCHANGED <<wvars, unstable, stable_exit, emulated_stop, detail, sigcont,
                   must_run_task, in_exec_tgid, high_priority_only, enable_poll,
                   by_waitpid, target>>

-----------------------------------------------------------------------------
(* Mutant: the task is resumed within its stop. *)
EmulateSigcont_Forgets(t) == UNCHANGED emulated_stop

(* All threads of the group leave the stop. *)
EmulateSigcont(t) ==
    emulated_stop' = [u \in Task |-> emulated_stop[u] /\ u \notin Group(t)]

(***************************************************************************)
(* The first branch of is_task_runnable for a task in an emulated stop:    *)
(* SIGCONT is pending, so the whole group leaves the stop                  *)
(* (emulate_sigcont), the task is resumed and waited for.  The waitpid in  *)
(* resume_execution asserts that it finds nothing but a death.  If an      *)
(* earlier poll collected an event of the task, the code resumes it        *)
(* nevertheless and the event is gone; the model stops there.              *)
(***************************************************************************)
Polled ==
    CASE pc \in {"higher", "any"} -> {e[2] : e \in {f \in scan : NextInScan(f)}}
      [] pc = "carry" /\ CurrentMayGoOn -> {current_}
      [] pc = "front" /\ task_round_robin_queue # <<>> ->
            {Head(task_round_robin_queue)}
      [] OTHER -> {}

ResumeForSigcont ==
    \E t \in Polled :
       /\ ~unstable[t]
       /\ emulated_stop[t]
       /\ Tgid[t] \in sigcont
       /\ EmulateSigcont(t)
       /\ IF kernel_event[t] \notin {"none", "exit"}
          THEN /\ Fail("resume_execution: got a status that is not a death")
               /\ UNCHANGED <<wvars, target>>
          ELSE /\ ResumeExecution(t)
               /\ target' = t
               /\ IF wait_status[t] # "none" THEN Fail("event lost")
                  ELSE /\ pc' = IF pc = "carry" THEN "sigwaitcur" ELSE "sigwait"
                       /\ UNCHANGED panic
       /\ UNCHANGED <<qvars, unstable, stable_exit, event, detail, sigcont,
                      current_, must_run_task, in_exec_tgid, timeslice_left,
                      high_priority_only, enable_poll, by_waitpid, scan>>

SigcontWait ==
    /\ pc \in {"sigwait", "sigwaitcur"}
    /\ HasEvent(target)
    /\ DidWaitpid(target)
    /\ by_waitpid' = TRUE
    /\ must_run_task' = target
    /\ target' = NoTask
    /\ IF pc = "sigwaitcur" THEN CarryOn(target) ELSE SwitchTo(target, target)
    /\ UNCHANGED <<unstable, stable_exit, emulated_stop, detail, sigcont,
                   in_exec_tgid, high_priority_only, enable_poll>>

=============================================================================
