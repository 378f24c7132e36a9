------------------------ MODULE RecorderControlProofs ------------------------
(***************************************************************************)
(* The recorder serialises its tracees, loses no event and fails none of   *)
(* its assertions, for any number of tasks and processes and whatever they *)
(* do short of stop signals (NoStops): system calls that block, restart or *)
(* never return, execve from any thread, deaths at any moment, fatal       *)
(* signals, interrupted waits, chaos mode.                                 *)
(*                                                                         *)
(* The three properties are proved together.  That a task chosen by        *)
(* reschedule is stopped (so that resuming it loses nothing) rests on no   *)
(* other task running user code; that a stop waitpid(-1) returns is the    *)
(* end of a system call or a death rests on it too; and no task runs user  *)
(* code behind the recorder's back because the event of the current task   *)
(* is always handled before another one is chosen.  An execve needs the    *)
(* same from the other side: from its entry to its exit no user code runs  *)
(* anywhere, so there is never a second one.                               *)
(***************************************************************************)
EXTENDS RecorderProofs

(* No tracee gets a stop signal. *)
NoStops == "sigstop" \notin Inputs

FromUser == {"entry", "slice", "sigfatal"}
FromSyscall == {"sysexit", "restart"}
Looping == {"loop", "higher", "carry", "front", "any", "wait"}

(* A stop fits what its task was doing. *)
Fits(t, stop) ==
    /\ stop \notin {"sigstop", "sigcont"}
    /\ stop \in FromUser => event[t] = "user"
    /\ stop \in FromSyscall =>
          /\ event[t] = "processing"
          /\ detail[t] \notin {"exit", "exit_group", "execve_alone", "execve_moved"}
    /\ stop = "restart" => "restart" \in Inputs
    /\ stop = "exec" => event[t] = "processing"

(* Only a death is pending for a stopped task; no stop is collected twice. *)
StatusOK(t) ==
    /\ Fits(t, kernel_event[t]) /\ Fits(t, wait_status[t])
    /\ kernel_event[t] \notin {"none", "exit"} => ~is_stopped[t] /\ ~detected[t]
    /\ wait_status[t] # "none" => is_stopped[t]
    /\ detected[t] => ~is_stopped[t] /\ kernel_event[t] = "none"
    /\ event[t] = "restarting" => "restart" \in Inputs
    /\ detail[t] \notin {"sigstop", "sigcont"} /\ ~emulated_stop[t]
    /\ t \in killed => ~Dying(t)

(***************************************************************************)
(* Only a committed current task runs user code; a task stopped in a       *)
(* system call has a status to be handled; a status of user code is        *)
(* handled at once.                                                        *)
(***************************************************************************)
SchedOK(t) ==
    /\ t \in unborn => /\ is_stopped[t] /\ ~unstable[t] /\ event[t] = "user"
                       /\ kernel_event[t] = "none" /\ wait_status[t] = "none"
    /\ wait_status[t] \in FromUser /\ ~unstable[t] => pc = "run" /\ t = current_
    /\ t \in registered /\ ~unstable[t] =>
          /\ event[t] # "processing" /\ ~is_stopped[t] =>
                /\ t = current_ /\ last_task_switchable = "PreventSwitch"
                /\ event[t] = "user" /\ pc \in {"step", "waitcur", "end"}
          /\ event[t] = "processing" /\ is_stopped[t] => wait_status[t] # "none"

Execing(t) == event[t] \in {"processing", "exiting"} /\ detail[t] \in ExecStates

ExecOK(t) ==
    /\ detail[t] = "execve_alone" => event[t] = "processing"
    /\ detail[t] = "execve_moved" =>
          /\ event[t] = "processing" /\ ~is_stopped[t] /\ ~detected[t]
          /\ kernel_event[t] = "none" /\ t \notin killed
    /\ t \in unborn => ~stable_exit[t]
    /\ t \in registered =>
          /\ stable_exit[t] => event[t] = "processing" /\ detail[t] \in {"exit", "exit_group"}
          /\ Execing(t) => in_exec_tgid = Tgid[t]

(* The thread whose execve the exec event of t is about. *)
ExecBy(t) ==
    \E x \in registered : /\ Group(t) = {t, x}
                          /\ detail[x] = IF x = t THEN "execve_alone" ELSE "execve_moved"

ExecEvents ==
    /\ \A t, u \in registered : Execing(t) /\ Execing(u) => t = u
    /\ \A t \in registered : kernel_event[t] = "exec" \/ wait_status[t] = "exec" => ExecBy(t)

(* The next task to be handled is the current one. *)
Committed ==
    \/ pc = "run"
    \/ /\ pc \in {"step", "waitcur"}
       /\ current_ # NoTask
       /\ last_task_switchable = "PreventSwitch"

ControlOK ==
    /\ pc = "run" => /\ is_stopped[current_]
                     /\ wait_status[current_] \notin {"none", "exit"} /\ ~unstable[current_]
                          => by_waitpid
    /\ pc = "waitcur" => ~is_stopped[current_] /\ last_task_switchable = "PreventSwitch"
    /\ pc \in Looping => /\ must_run_task = NoTask
                         /\ current_ = NoTask \/ last_task_switchable = "AllowSwitch"
    /\ pc = "step" /\ Committed =>
          wait_status[current_] = "none" /\ (is_stopped[current_] \/ ~unstable[current_])
    /\ sigcont = {} /\ pc \notin {"sigwait", "sigwaitcur"}
    /\ panic \in {"none", "EINTR without a current task"}

QueueEmpty == task_round_robin_queue = <<>>

QueueOK ==
    /\ pc \in {"wait", "any", "higher"} => QueueEmpty
    /\ Committed => QueueEmpty \/ IsFront(current_)
    /\ in_exec_tgid # NoTask =>
          \/ QueueEmpty
          \/ /\ pc \in {"step", "loop", "end"} /\ current_ # NoTask
             /\ last_task_switchable = "AllowSwitch"

(* During an execve no task that could run user code is handled. *)
InExecOK ==
    in_exec_tgid # NoTask =>
       /\ pc \notin {"higher", "carry", "front", "any"}
       /\ Committed =>
             \/ event[current_] \in {"processing", "exiting", "restarting"}
             \/ pc = "run" /\ (unstable[current_] \/ wait_status[current_] = "exit")

TasksOK == \A t \in Task : StatusOK(t) /\ SchedOK(t) /\ ExecOK(t)

CInv == TasksOK /\ ExecEvents /\ ControlOK /\ QueueOK /\ InExecOK

RInv == LInv /\ TInv /\ CInv

-----------------------------------------------------------------------------
(* The invariant holds initially. *)
LEMMA InitControl ==
  ASSUME Init
  PROVE  CInv
<1>1. \A t \in Task : /\ event[t] = "user" /\ detail[t] = "none" /\ is_stopped[t]
                      /\ kernel_event[t] = "none" /\ wait_status[t] = "none"
                      /\ ~detected[t] /\ ~unstable[t] /\ ~stable_exit[t] /\ ~emulated_stop[t]
                      /\ t \notin killed
  BY Zenon DEF Init
<1>2. TasksOK
  BY Zenon, <1>1 DEF TasksOK, StatusOK, SchedOK, ExecOK, Fits, FromUser, FromSyscall, Execing
<1>3. ExecEvents
  BY Zenon, <1>1, RootIsTask DEF ExecEvents, Execing, Init
<1>4. ControlOK /\ QueueOK /\ InExecOK
  BY Zenon DEF Init, ControlOK, QueueOK, InExecOK, Committed, Looping, QueueEmpty
<1> QED BY <1>2, <1>3, <1>4 DEF CInv

-----------------------------------------------------------------------------
(* The tracees and the kernel *)

(* The scheduler's part of the invariant is not about kernel events. *)
LEMMA KernelControl ==
  ASSUME ControlOK, QueueOK, InExecOK,
         UNCHANGED <<task_round_robin_queue, OtherSvars, unstable, event, is_stopped,
                     wait_status, last_task_switchable, sigcont>>
  PROVE  ControlOK' /\ QueueOK' /\ InExecOK'
<1>1. UNCHANGED <<current_, must_run_task, in_exec_tgid, by_waitpid, pc, panic>>
  BY DEF OtherSvars
<1> QED BY Zenon, <1>1 DEF ControlOK, QueueOK, InExecOK, Committed, QueueEmpty, IsFront

(* A running task has no status to be handled. *)
LEMMA RunningTask ==
  ASSUME LInv, CInv, NEW t, Running(t)
  PROVE  /\ t \in Task /\ t \in registered /\ t \notin unborn /\ ~is_stopped[t]
         /\ ~detected[t] /\ kernel_event[t] = "none" /\ wait_status[t] = "none"
         /\ t \notin killed
<1>1. t \in Task /\ t \in registered /\ t \notin unborn
  BY Zenon DEF Running, LInv, QInv, QTypeOK, NoDanglingTask
<1> QED BY Zenon, <1>1 DEF Running, CInv, TasksOK, StatusOK

(* A stop is reported for a task that had none pending, or is dying. *)
LEMMA Reported ==
  ASSUME LInv, TInv, CInv, NEW t \in registered, NEW stop, Report(t, stop),
         stop = "exit" \/ (stop # "exec" /\ ~is_stopped[t] /\ ~detected[t] /\ wait_status[t] = "none"),
         Fits(t, stop), stop # "none", detail[t] # "execve_moved", t \in killed \/ Running(t),
         UNCHANGED <<registered, unborn, pc, current_, last_task_switchable, in_exec_tgid,
                     is_stopped, wait_status, detected, unstable, stable_exit, event, detail,
                     emulated_stop>>,
         killed' = killed \ {t}
  PROVE  TasksOK' /\ ExecEvents'
<1>1. /\ kernel_event'[t] = stop
      /\ \A u \in Task \ {t} : kernel_event'[u] = kernel_event[u]
      /\ t \in Task /\ t \notin unborn
  BY Zenon DEF Report, TInv, WTypeOK, LInv, QInv, QTypeOK, NoDanglingTask
<1>2. ASSUME NEW u \in Task PROVE (StatusOK(u) /\ SchedOK(u) /\ ExecOK(u))'
  <2>1. StatusOK(u) /\ SchedOK(u) /\ ExecOK(u)
    BY Zenon DEF CInv, TasksOK
  <2>2. CASE u = t
    <3>1. StatusOK(t)'
      BY Zenon, <1>1, <2>1, <2>2 DEF StatusOK, Fits, Running, Dying
    <3>2. SchedOK(t)'
      BY Zenon, <1>1, <2>1, <2>2 DEF SchedOK
    <3>3. ExecOK(t)'
      BY Zenon, <1>1, <2>1, <2>2 DEF ExecOK, Execing
    <3> QED BY Zenon, <2>2, <3>1, <3>2, <3>3
  <2>3. CASE u # t
    <3>1. kernel_event'[u] = kernel_event[u]
      BY Zenon, <1>1, <2>3
    <3> QED BY Zenon, <2>1, <2>3, <3>1 DEF StatusOK, SchedOK, ExecOK, Fits, Execing, Dying
  <2> QED BY <2>2, <2>3
<1>3. ExecEvents'
  <2>1. \A u \in registered : ExecBy(u)' <=> ExecBy(u)
    BY Zenon DEF ExecBy, Group
  <2>2. \A u \in registered : kernel_event'[u] = "exec" => kernel_event[u] = "exec"
    BY Zenon, <1>1 DEF LInv, QInv, QTypeOK
  <2> QED BY Zenon, <2>1, <2>2 DEF CInv, ExecEvents, Execing
<1> QED BY <1>2, <1>3 DEF TasksOK

(* A fatal signal only marks tasks that are not dying yet. *)
LEMMA Killed ==
  ASSUME LInv, TInv, CInv, NEW T, Kill(T),
         UNCHANGED <<registered, unborn, pc, current_, last_task_switchable, in_exec_tgid,
                     is_stopped, wait_status, detected, unstable, stable_exit, event, detail,
                     emulated_stop, kernel_event>>
  PROVE  TasksOK' /\ ExecEvents'
<1>1. ASSUME NEW u \in Task PROVE (StatusOK(u) /\ SchedOK(u) /\ ExecOK(u))'
  <2>1. StatusOK(u) /\ SchedOK(u) /\ ExecOK(u)
    BY Zenon DEF CInv, TasksOK
  <2>2. u \in killed' => u \in killed \/ (~Dying(u) /\ detail[u] # "execve_moved")
    BY Zenon DEF Kill
  <2> QED BY Zenon, <2>1, <2>2 DEF StatusOK, SchedOK, ExecOK, Fits, Execing, Dying
<1>2. ExecEvents'
  <2>1. \A u \in registered : ExecBy(u)' <=> ExecBy(u)
    BY Zenon DEF ExecBy, Group
  <2> QED BY Zenon, <2>1 DEF CInv, ExecEvents, Execing
<1> QED BY <1>1, <1>2 DEF TasksOK

(* An execve gets rid of the other threads. *)
LEMMA DeThreaded ==
  ASSUME LInv, TInv, CInv, NEW t, DeThread(t)
  PROVE  TasksOK' /\ ExecEvents'
<1>0. /\ UNCHANGED <<registered, unborn, pc, current_, last_task_switchable, in_exec_tgid,
                     is_stopped, wait_status, detected, unstable, stable_exit, event,
                     emulated_stop, kernel_event>>
      /\ Running(t) /\ event[t] = "processing" /\ detail[t] = "execve"
      /\ Kill(Group(t) \ {t})
  BY Zenon DEF DeThread, qvars, svars, wvars
<1>1. /\ t \in Task /\ ~is_stopped[t] /\ t \in registered
      /\ kernel_event[t] = "none" /\ wait_status[t] = "none" /\ t \notin unborn
  BY Zenon, <1>0, RunningTask
<1>2. detail'[t] = "execve_alone" /\ \A u \in Task \ {t} : detail'[u] = detail[u]
  BY Zenon, <1>1 DEF DeThread, TInv, TTypeOK
<1>3. ASSUME NEW u \in Task PROVE (StatusOK(u) /\ SchedOK(u) /\ ExecOK(u))'
  <2>1. StatusOK(u) /\ SchedOK(u) /\ ExecOK(u)
    BY Zenon DEF CInv, TasksOK
  <2>2. u \in killed' => u \in killed \/ (~Dying(u) /\ detail[u] # "execve_moved")
    BY Zenon, <1>0 DEF Kill
  <2>3. CASE u = t
    BY Zenon, <1>0, <1>1, <1>2, <2>1, <2>2, <2>3
       DEF StatusOK, SchedOK, ExecOK, Fits, Execing, Dying, ExecStates, FromUser, FromSyscall
  <2>4. CASE u # t
    <3>1. detail'[u] = detail[u]
      BY Zenon, <1>2, <2>4
    <3> QED BY Zenon, <1>0, <2>1, <2>2, <3>1 DEF StatusOK, SchedOK, ExecOK, Fits, Execing, Dying
  <2> QED BY <2>3, <2>4
<1>4. ExecEvents'
  <2>1. \A u \in registered : Execing(u)' => Execing(u)
    BY Zenon, <1>0, <1>2 DEF Execing, ExecStates, LInv, QInv, QTypeOK
  (* The caller of execve is alone in its group to die or to be moved. *)
  <2>2. ASSUME NEW u \in registered, kernel_event[u] = "exec" \/ wait_status[u] = "exec"
        PROVE  ExecBy(u)'
    <3>1. PICK x \in registered :
            /\ Group(u) = {u, x}
            /\ detail[x] = IF x = u THEN "execve_alone" ELSE "execve_moved"
      BY Zenon, <2>2 DEF CInv, ExecEvents, ExecBy
    <3>2. x # t
      BY Zenon, <1>0, <3>1
    <3>3. detail'[x] = detail[x] /\ Group(u)' = Group(u)
      BY Zenon, <1>0, <1>2, <3>2 DEF Group, LInv, QInv, QTypeOK
    <3> QED BY Zenon, <1>0, <3>1, <3>3 DEF ExecBy
  <2> QED BY Zenon, <1>0, <2>1, <2>2 DEF CInv, ExecEvents
<1> QED BY <1>3, <1>4 DEF TasksOK

(* The exec event is reported under the tid of the group's leader. *)
LEMMA ExecReported ==
  ASSUME LInv, TInv, CInv, NEW t, ReportExec(t)
  PROVE  TasksOK' /\ ExecEvents'
<1>0. /\ UNCHANGED <<registered, unborn, pc, current_, last_task_switchable, in_exec_tgid,
                     is_stopped, wait_status, detected, unstable, stable_exit, event,
                     emulated_stop>>
      /\ Running(t) /\ event[t] = "processing" /\ detail[t] = "execve_alone"
  BY Zenon DEF ReportExec, qvars, svars
<1>1. /\ t \in Task /\ ~is_stopped[t] /\ t \in registered /\ ~detected[t] /\ t \notin killed
      /\ kernel_event[t] = "none" /\ wait_status[t] = "none" /\ t \notin unborn
  BY Zenon, <1>0, RunningTask
<1>2. /\ registered \subseteq Task
      /\ \A u \in Group(t) : u \in registered /\ Group(u) = Group(t)
      /\ t \in Group(t)
  BY Zenon, <1>1 DEF LInv, QInv, QTypeOK, Group
<1>3. CASE Group(t) \ {t} = {} /\ Report(t, "exec") /\ UNCHANGED <<detail, killed>>
  <2>1. kernel_event'[t] = "exec" /\ \A u \in Task \ {t} : kernel_event'[u] = kernel_event[u]
    BY Zenon, <1>1, <1>3 DEF Report, TInv, WTypeOK
  <2>2. ASSUME NEW u \in Task PROVE (StatusOK(u) /\ SchedOK(u) /\ ExecOK(u))'
    <3>1. StatusOK(u) /\ SchedOK(u) /\ ExecOK(u)
      BY Zenon DEF CInv, TasksOK
    <3>2. CASE u = t
      <4>1. StatusOK(t)'
        BY Zenon, <1>0, <1>1, <1>3, <2>1, <3>1, <3>2
           DEF StatusOK, Fits, Dying, FromUser, FromSyscall
      <4>2. SchedOK(t)'
        BY Zenon, <1>0, <1>1, <1>3, <2>1, <3>1, <3>2 DEF SchedOK
      <4>3. ExecOK(t)'
        BY Zenon, <1>0, <1>1, <1>3, <2>1, <3>1, <3>2 DEF ExecOK, Execing
      <4> QED BY Zenon, <3>2, <4>1, <4>2, <4>3
    <3>3. CASE u # t
      <4>1. kernel_event'[u] = kernel_event[u]
        BY Zenon, <2>1, <3>3
      <4> QED BY Zenon, <1>0, <1>3, <3>1, <4>1 DEF StatusOK, SchedOK, ExecOK, Fits, Execing, Dying
    <3> QED BY <3>2, <3>3
  <2>3. ExecEvents'
    <3>1. \A u \in registered : ExecBy(u)' <=> ExecBy(u)
      BY Zenon, <1>0, <1>3 DEF ExecBy, Group
    <3>2. Group(t) = {t, t}
      BY Zenon, <1>2, <1>3
    <3>3. ExecBy(t)
      BY Zenon, <1>0, <1>1, <3>2 DEF ExecBy
    <3>4. \A u \in registered : kernel_event'[u] = "exec" => u = t \/ kernel_event[u] = "exec"
      BY Zenon, <1>2, <2>1
    <3> QED BY Zenon, <1>0, <1>3, <3>1, <3>3, <3>4 DEF CInv, ExecEvents, Execing
  <2> QED BY <2>2, <2>3 DEF TasksOK
<1>4. ASSUME NEW first,
             /\ Group(t) \ {t} = {first} /\ first \in killed /\ ~is_stopped[first]
             /\ MayBeBlocked(first) /\ Report(first, "exec")
             /\ detail' = [detail EXCEPT ![t] = "execve_moved"]
             /\ killed' = killed \ {first}
      PROVE  TasksOK' /\ ExecEvents'
  <2>0. /\ first \in registered /\ first # t /\ first \in Task /\ first \notin unborn
        /\ Group(first) = {first, t} /\ Group(t) = {first, t}
    <3>1. first \in registered /\ first # t /\ Group(t) = {first, t}
      BY Zenon, <1>2, <1>4
    <3> QED BY Zenon, <1>2, <3>1 DEF LInv, NoDanglingTask
  <2>1. /\ kernel_event'[first] = "exec"
        /\ \A u \in Task \ {first} : kernel_event'[u] = kernel_event[u]
        /\ detail'[t] = "execve_moved" /\ \A u \in Task \ {t} : detail'[u] = detail[u]
    BY Zenon, <1>1, <1>4, <2>0 DEF Report, TInv, WTypeOK, TTypeOK
  <2>2. /\ event[first] = "processing" /\ ~detected[first] /\ wait_status[first] # "exit"
        /\ detail[first] # "execve_moved"
    BY Zenon, <1>4, <2>0 DEF MayBeBlocked, CInv, TasksOK, StatusOK, ExecOK, Dying
  <2>3. ASSUME NEW u \in Task PROVE (StatusOK(u) /\ SchedOK(u) /\ ExecOK(u))'
    <3>1. StatusOK(u) /\ SchedOK(u) /\ ExecOK(u)
      BY Zenon DEF CInv, TasksOK
    <3>2. CASE u = t
      <4>0. kernel_event'[t] = "none"
        BY Zenon, <1>1, <2>0, <2>1
      <4>1. StatusOK(t)'
        BY Zenon, <1>0, <1>1, <1>4, <2>1, <3>1, <3>2, <4>0
           DEF StatusOK, Fits, Dying, FromUser, FromSyscall
      <4>2. SchedOK(t)'
        BY Zenon, <1>0, <1>1, <1>4, <2>1, <3>1, <3>2 DEF SchedOK
      <4>3. ExecOK(t)'
        BY Zenon, <1>0, <1>1, <1>4, <2>1, <3>1, <3>2, <4>0 DEF ExecOK, Execing, ExecStates
      <4> QED BY Zenon, <3>2, <4>1, <4>2, <4>3
    <3>3. CASE u = first
      <4>0. detail'[first] = detail[first]
        BY Zenon, <2>0, <2>1
      <4>1. StatusOK(first)'
        BY Zenon, <1>0, <1>4, <2>1, <2>2, <3>1, <3>3, <4>0
           DEF StatusOK, Fits, Dying, FromUser, FromSyscall
      <4>2. SchedOK(first)'
        BY Zenon, <1>0, <1>4, <2>0, <2>1, <3>1, <3>3, <4>0 DEF SchedOK
      <4>3. ExecOK(first)'
        BY Zenon, <1>0, <1>4, <2>2, <3>1, <3>3, <4>0 DEF ExecOK, Execing
      <4> QED BY Zenon, <3>3, <4>1, <4>2, <4>3
    <3>4. CASE u # t /\ u # first
      <4>1. kernel_event'[u] = kernel_event[u] /\ detail'[u] = detail[u]
            /\ (u \in killed' <=> u \in killed)
        BY Zenon, <1>4, <2>1, <3>4
      <4> QED BY Zenon, <1>0, <3>1, <4>1 DEF StatusOK, SchedOK, ExecOK, Fits, Execing, Dying
    <3> QED BY <3>2, <3>3, <3>4
  <2>4. ExecEvents'
    <3>1. \A u \in registered : Execing(u)' => Execing(u)
      BY Zenon, <1>0, <1>2, <2>1 DEF Execing, ExecStates
    <3>2. ExecBy(first)'
      <4>1. Group(first)' = {first, t}
        BY Zenon, <1>0, <2>0 DEF Group
      <4> QED BY Zenon, <1>0, <1>1, <2>0, <2>1, <4>1 DEF ExecBy
    (* There is no second execve whose event could be pending. *)
    <3>3. ASSUME NEW u \in registered, kernel_event[u] = "exec" \/ wait_status[u] = "exec"
          PROVE  ExecBy(u)'
      <4>1. PICK x \in registered :
              /\ Group(u) = {u, x}
              /\ detail[x] = IF x = u THEN "execve_alone" ELSE "execve_moved"
        BY Zenon, <3>3 DEF CInv, ExecEvents, ExecBy
      <4>2. Execing(x) /\ Execing(t)
        BY Zenon, <1>0, <1>2, <4>1 DEF Execing, ExecStates, CInv, TasksOK, ExecOK
      <4>3. x = t
        BY Zenon, <1>1, <4>2 DEF CInv, ExecEvents
      <4>4. u = t
        BY Zenon, <1>0, <4>1, <4>3
      <4> QED BY Zenon, <1>1, <3>3, <4>4
    <3>4. \A u \in registered : kernel_event'[u] = "exec" => u = first \/ kernel_event[u] = "exec"
      BY Zenon, <1>2, <2>1
    <3> QED BY Zenon, <1>0, <3>1, <3>2, <3>3, <3>4 DEF CInv, ExecEvents
  <2> QED BY <2>3, <2>4 DEF TasksOK
<1> QED BY Zenon, <1>3, <1>4 DEF ReportExec

(* Whatever the tracees and the kernel do. *)
LEMMA KernelPreserves ==
  ASSUME NoStops, LInv, TInv, CInv, NEW t \in registered, KernelStep(t)
  PROVE  CInv'
<1>0. t \in Task /\ ~emulated_stop[t] /\ StatusOK(t) /\ ExecOK(t) /\ sigcont = {}
  BY Zenon DEF LInv, QInv, QTypeOK, CInv, TasksOK, StatusOK, ControlOK
<1>1. CASE RunUser(t)
  <2>1. PICK what \in {"entry", "slice"} \cup (Inputs \cap {"sigstop", "sigfatal"}) :
           Report(t, what)
    BY Zenon, <1>1 DEF RunUser
  <2>2. what \in FromUser
    BY Zenon, <2>1 DEF NoStops, FromUser
  <2>3. /\ Running(t) /\ event[t] = "user"
        /\ UNCHANGED <<qvars, OtherSvars, tvars, is_stopped, wait_status, detected, rvars>>
    BY Zenon, <1>1 DEF RunUser
  <2>4. Fits(t, what) /\ what \notin {"none", "exec"} /\ detail[t] # "execve_moved"
    BY Zenon, <1>0, <2>2, <2>3 DEF Fits, FromUser, FromSyscall, ExecOK
  <2>5. killed' = killed \ {t}
    BY Zenon, <2>3, RunningTask DEF rvars
  <2>6. TasksOK' /\ ExecEvents'
    BY Zenon, <2>1, <2>3, <2>4, <2>5, Reported, RunningTask
       DEF qvars, OtherSvars, tvars, rvars
  <2>7. ControlOK' /\ QueueOK' /\ InExecOK'
    BY Zenon, <2>3, KernelControl DEF CInv, qvars, tvars, rvars
  <2> QED BY <2>6, <2>7 DEF CInv
<1>2. CASE RunSyscall(t)
  <2>1. Running(t) /\ event[t] = "processing" /\ KernelFrame
    BY Zenon, <1>2 DEF RunSyscall
  <2>2. ControlOK' /\ QueueOK' /\ InExecOK'
    BY Zenon, <2>1, KernelControl DEF CInv, KernelFrame, svars, OtherSvars, qvars, tvars
  <2>3. CASE detail[t] = "exit_group" /\ Kill(Group(t)) /\ UNCHANGED kernel_event
    BY Zenon, <2>1, <2>2, <2>3, Killed DEF CInv, KernelFrame, svars, qvars, tvars
  <2>4. ASSUME NEW what \in {"sysexit", "restart", "exit"}, Report(t, what), UNCHANGED killed,
               Fits(t, what), detail[t] # "execve_moved"
        PROVE  CInv'
    <3>1. killed' = killed \ {t}
      BY Zenon, <2>1, <2>4, RunningTask
    <3>2. TasksOK' /\ ExecEvents'
      BY Zenon, <2>1, <2>4, <3>1, Reported, RunningTask DEF KernelFrame, svars, qvars, tvars
    <3> QED BY <2>2, <3>2 DEF CInv
  <2>5. \/ \E what \in {"sysexit", "restart", "exit"} :
              Report(t, what) /\ UNCHANGED killed /\ Fits(t, what) /\ detail[t] # "execve_moved"
        \/ detail[t] = "exit_group" /\ Kill(Group(t)) /\ UNCHANGED kernel_event
    BY Zenon, <1>2 DEF RunSyscall, Fits, FromUser, FromSyscall
  <2> QED BY Zenon, <2>3, <2>4, <2>5
<1>3. CASE DeThread(t)
  <2>1. ControlOK' /\ QueueOK' /\ InExecOK'
    BY Zenon, <1>3, KernelControl DEF CInv, DeThread, svars, OtherSvars, qvars, wvars
  <2> QED BY <1>3, <2>1, DeThreaded DEF CInv
<1>4. CASE ReportExec(t)
  <2>1. ControlOK' /\ QueueOK' /\ InExecOK'
    BY Zenon, <1>4, KernelControl DEF CInv, ReportExec, svars, OtherSvars, qvars
  <2> QED BY <1>4, <2>1, ExecReported DEF CInv
<1>5. CASE ReportExit(t)
  <2>1. /\ t \in killed /\ Report(t, "exit") /\ killed' = killed \ {t} /\ KernelFrame
    BY Zenon, <1>5 DEF ReportExit
  <2>2. Fits(t, "exit") /\ detail[t] # "execve_moved"
    BY Zenon, <1>0, <2>1 DEF Fits, FromUser, FromSyscall, ExecOK
  <2>3. TasksOK' /\ ExecEvents'
    BY Zenon, <2>1, <2>2, Reported DEF KernelFrame, svars, qvars, tvars
  <2>4. ControlOK' /\ QueueOK' /\ InExecOK'
    BY Zenon, <2>1, KernelControl DEF CInv, KernelFrame, svars, OtherSvars, qvars, tvars
  <2> QED BY <2>3, <2>4 DEF CInv
<1>6. CASE KillGroup(t)
  <2>1. Kill(Group(t)) /\ UNCHANGED kernel_event /\ KernelFrame
    BY Zenon, <1>6 DEF KillGroup
  <2>2. TasksOK' /\ ExecEvents'
    BY Zenon, <2>1, Killed DEF KernelFrame, svars, qvars, tvars
  <2>3. ControlOK' /\ QueueOK' /\ InExecOK'
    BY Zenon, <2>1, KernelControl DEF CInv, KernelFrame, svars, OtherSvars, qvars, tvars
  <2> QED BY <2>2, <2>3 DEF CInv
<1>7. CASE TakeSigcont(t) \/ SendSigcont(t)
  BY Zenon, <1>0, <1>7 DEF TakeSigcont, SendSigcont
<1> QED BY Zenon, <1>1, <1>2, <1>3, <1>4, <1>5, <1>6, <1>7 DEF KernelStep

-----------------------------------------------------------------------------
(* Tasks a step of the recorder is not about *)

(* u neither runs user code nor has a status of user code. *)
Quiet(u) ==
    /\ wait_status[u] \in FromUser => unstable[u]
    /\ u \in registered /\ ~unstable[u] /\ event[u] # "processing" => is_stopped[u]

(* A step that at most pops EvSched, makes u unstable or kills or creates it. *)
Untouched(u) ==
    /\ is_stopped'[u] = is_stopped[u] /\ wait_status'[u] = wait_status[u]
    /\ detected'[u] = detected[u] /\ kernel_event'[u] = kernel_event[u]
    /\ stable_exit'[u] = stable_exit[u] /\ emulated_stop'[u] = emulated_stop[u]
    /\ detail'[u] = detail[u]
    /\ event'[u] = event[u] \/ (event[u] = "sched" /\ event'[u] = "user")
    /\ unstable'[u] = unstable[u] \/ (unstable'[u] /\ u \in registered)
    /\ u \in killed' => u \in killed \/ (~Dying(u) /\ detail[u] # "execve_moved")
    /\ u \in unborn' => u \in unborn
    /\ u \in registered' => u \in registered \cup unborn
    /\ Execing(u) /\ u \in registered => in_exec_tgid' = in_exec_tgid

(* Only the current task can be other than quiet. *)
LEMMA QuietOthers ==
  ASSUME CInv, NEW u \in Task,
         \/ u # current_
         \/ pc \in Looping
         \/ pc = "step" /\ last_task_switchable = "AllowSwitch"
  PROVE  Quiet(u)
<1>1. SchedOK(u)
  BY Zenon DEF CInv, TasksOK
<1>2. CASE u # current_
  BY Zenon, <1>1, <1>2 DEF SchedOK, Quiet
<1>3. CASE pc \in Looping
  BY Zenon, <1>1, <1>3 DEF SchedOK, Quiet, Looping
<1>4. CASE pc = "step" /\ last_task_switchable = "AllowSwitch"
  BY Zenon, <1>1, <1>4 DEF SchedOK, Quiet
<1> QED BY <1>2, <1>3, <1>4

(* The invariant of a quiet task does not depend on the control state. *)
LEMMA OtherTask ==
  ASSUME LInv, CInv, NEW u \in Task, Quiet(u), Untouched(u)
  PROVE  (StatusOK(u) /\ SchedOK(u) /\ ExecOK(u))'
<1>1. StatusOK(u) /\ SchedOK(u) /\ ExecOK(u)
  BY Zenon DEF CInv, TasksOK
<1>2. u \in unborn => u \notin registered
  BY Zenon DEF LInv, NoDanglingTask
<1>3. StatusOK(u)'
  BY Zenon, <1>1 DEF Untouched, StatusOK, Fits, FromUser, FromSyscall, Dying
<1>4. SchedOK(u)'
  BY Zenon, <1>1, <1>2 DEF Untouched, Quiet, SchedOK
<1>5. ExecOK(u)'
  BY Zenon, <1>1, <1>2 DEF Untouched, ExecOK, SchedOK, Execing
<1> QED BY <1>3, <1>4, <1>5

(* A pending exec event is about a thread in execve. *)
LEMMA ExecingThread ==
  ASSUME LInv, CInv, NEW u \in registered, kernel_event[u] = "exec" \/ wait_status[u] = "exec"
  PROVE  \E x \in registered : /\ Group(u) = {u, x} /\ Execing(x)
                               /\ detail[x] = IF x = u THEN "execve_alone" ELSE "execve_moved"
<1>1. PICK x \in registered :
        /\ Group(u) = {u, x}
        /\ detail[x] = IF x = u THEN "execve_alone" ELSE "execve_moved"
  BY Zenon DEF CInv, ExecEvents, ExecBy
<1>2. x \in Task /\ ExecOK(x)
  BY Zenon DEF CInv, TasksOK, LInv, QInv, QTypeOK
<1>3. Execing(x)
  BY Zenon, <1>1, <1>2 DEF ExecOK, Execing, ExecStates
<1> QED BY Zenon, <1>1, <1>3

(* A step that starts no execve and reports no exec event. *)
LEMMA ExecEventsKept ==
  ASSUME LInv, CInv, registered' = registered,
         \A u \in registered : /\ Execing(u)' => Execing(u)
                               /\ detail'[u] # detail[u] =>
                                     detail[u] \notin {"execve_alone", "execve_moved"}
                               /\ kernel_event'[u] = "exec" \/ wait_status'[u] = "exec" =>
                                     kernel_event[u] = "exec" \/ wait_status[u] = "exec"
  PROVE  ExecEvents'
<1>1. ASSUME NEW u \in registered, kernel_event[u] = "exec" \/ wait_status[u] = "exec"
      PROVE  ExecBy(u)'
  <2>1. PICK x \in registered :
          /\ Group(u) = {u, x}
          /\ detail[x] = IF x = u THEN "execve_alone" ELSE "execve_moved"
    BY Zenon, <1>1 DEF CInv, ExecEvents, ExecBy
  <2>2. detail'[x] = detail[x]
    BY Zenon, <2>1
  <2>3. Group(u)' = Group(u)
    BY Zenon DEF Group
  <2> QED BY Zenon, <2>1, <2>2, <2>3 DEF ExecBy
<1> QED BY Zenon, <1>1 DEF CInv, ExecEvents

-----------------------------------------------------------------------------
(* Waiting for and resuming one task *)

(* No event of a tracee is lost by a step. *)
NothingLost ==
    \A t \in registered \cap registered' :
       /\ wait_status[t] # "none" /\ wait_status'[t] # wait_status[t] =>
             \/ pc = "run" /\ t = current_
             \/ wait_status'[t] = "exit"
       /\ kernel_event[t] # "none" /\ kernel_event'[t] = "none" =>
             \/ wait_status'[t] = kernel_event[t]
             \/ kernel_event[t] = "exit" /\ detected'[t]

(* wait and try_wait collect the one event of a running task. *)
LEMMA Waited ==
  ASSUME TInv, NEW t \in Task, StatusOK(t), ~is_stopped[t], HasEvent(t), DidWaitpid(t)
  PROVE  /\ is_stopped'[t] /\ ~detected'[t] /\ kernel_event'[t] = "none"
         /\ wait_status[t] = "none" /\ wait_status'[t] # "none"
         /\ detected[t] => wait_status'[t] = "exit" /\ kernel_event[t] = "none"
         /\ ~detected[t] => wait_status'[t] = kernel_event[t]
         /\ \A u \in Task \ {t} :
               /\ is_stopped'[u] = is_stopped[u] /\ wait_status'[u] = wait_status[u]
               /\ detected'[u] = detected[u] /\ kernel_event'[u] = kernel_event[u]
<1>1. /\ is_stopped \in [Task -> BOOLEAN] /\ detected \in [Task -> BOOLEAN]
      /\ wait_status \in [Task -> Stops \cup {"none"}]
      /\ kernel_event \in [Task -> Stops \cup {"none"}]
  BY Zenon DEF TInv, WTypeOK
<1>2. is_stopped'[t] /\ \A u \in Task \ {t} : is_stopped'[u] = is_stopped[u]
  BY Zenon, <1>1 DEF DidWaitpid
<1>3. wait_status[t] = "none" /\ (detected[t] => kernel_event[t] = "none")
  BY Zenon DEF StatusOK
<1>4. CASE detected[t]
  BY Zenon, <1>1, <1>2, <1>3, <1>4 DEF DidWaitpid
<1>5. CASE ~detected[t]
  BY Zenon, <1>1, <1>2, <1>3, <1>5 DEF DidWaitpid, HasEvent
<1> QED BY <1>4, <1>5

(* resume_execution *)
LEMMA Resumed ==
  ASSUME TInv, NEW t \in Task, ResumeExecution(t)
  PROVE  /\ ~is_stopped'[t] /\ wait_status'[t] = "none" /\ kernel_event'[t] = "none"
         /\ detected'[t] <=> kernel_event[t] = "exit"
         /\ \A u \in Task \ {t} :
               /\ is_stopped'[u] = is_stopped[u] /\ wait_status'[u] = wait_status[u]
               /\ detected'[u] = detected[u] /\ kernel_event'[u] = kernel_event[u]
<1>1. /\ is_stopped \in [Task -> BOOLEAN] /\ detected \in [Task -> BOOLEAN]
      /\ wait_status \in [Task -> Stops \cup {"none"}]
      /\ kernel_event \in [Task -> Stops \cup {"none"}]
  BY Zenon DEF TInv, WTypeOK
<1> QED BY Zenon, <1>1 DEF ResumeExecution

(* The status of the current task is consumed. *)
LEMMA Consumed ==
  ASSUME TInv, NEW t \in Task, DontContinue(t)
  PROVE  /\ wait_status'[t] = "none"
         /\ UNCHANGED <<is_stopped, detected, kernel_event>>
         /\ \A u \in Task \ {t} : wait_status'[u] = wait_status[u]
<1>1. wait_status \in [Task -> Stops \cup {"none"}]
  BY Zenon DEF TInv, WTypeOK
<1> QED BY Zenon, <1>1 DEF DontContinue

(* record_step pops EvSched. *)
LEMMA SchedPopped ==
  ASSUME TInv, NEW u \in Task, PopSched
  PROVE  /\ event'[u] = event[u] \/ (event[u] = "sched" /\ event'[u] = "user")
         /\ u # current_ => event'[u] = event[u]
BY Zenon DEF PopSched

-----------------------------------------------------------------------------
(* reschedule *)

(* Entry of reschedule: a task that must go on is handled next. *)
LEMMA ReschedulePreserves ==
  ASSUME LInv, TInv, CInv, Reschedule
  PROVE  CInv' /\ NothingLost
<1>0. /\ pc = "step" /\ must_run_task' = NoTask /\ by_waitpid' = FALSE
      /\ UNCHANGED <<wvars, unstable, stable_exit, emulated_stop, detail, sigcont, current_,
                     in_exec_tgid, last_task_switchable, unborn, killed>>
  BY Zenon DEF Reschedule, RescheduleBegin, rvars
<1>1. UNCHANGED <<is_stopped, wait_status, detected, kernel_event>>
  BY Zenon, <1>0 DEF wvars
<1>2. UNCHANGED <<task_round_robin_queue, registered>>
  BY Zenon DEF Reschedule, RescheduleBegin, MaybeResetPriorities, ResetPriorities,
               SetPriorities, qvars
<1>3. registered \subseteq Task
  BY Zenon DEF LInv, QInv, QTypeOK
<1>4. current_ # NoTask => current_ \in Task
  BY Zenon DEF TInv, STypeOK
<1>5. NothingLost
  BY Zenon, <1>1 DEF NothingLost
<1>6. CASE current_ # NoTask /\ last_task_switchable = "PreventSwitch" /\ is_stopped[current_]
  <2>0. Committed
    BY Zenon, <1>0, <1>6 DEF Committed
  <2>1. pc' = "run" /\ panic' = panic /\ PopSched
    <3>1. Validated(current_, NoTask, task_round_robin_queue)
      BY Zenon, <2>0 DEF Validated, CInv, QueueOK, QueueEmpty, IsFront
    <3> QED BY Zenon, <1>6, <3>1 DEF Reschedule, RescheduleBegin, Return
  <2>2. /\ wait_status[current_] = "none"
        /\ ~unstable[current_] => event[current_] # "processing"
    BY Zenon, <1>0, <1>4, <1>6, <2>0
       DEF CInv, ControlOK, TasksOK, SchedOK, LInv, NoDanglingTask
  <2>3. ASSUME NEW u \in Task PROVE (StatusOK(u) /\ SchedOK(u) /\ ExecOK(u))'
    <3>1. /\ event'[u] = event[u] \/ (event[u] = "sched" /\ event'[u] = "user")
          /\ u # current_ => event'[u] = event[u]
      BY Zenon, <2>1, SchedPopped
    <3>2. Quiet(u)
      BY Zenon, <1>6, <2>2, QuietOthers DEF Quiet, FromUser
    <3>3. Untouched(u)
      BY Zenon, <1>0, <1>1, <1>2, <3>1 DEF Untouched
    <3> QED BY Zenon, <3>2, <3>3, OtherTask
  <2>4. ExecEvents'
    <3>1. \A u \in registered : Execing(u)' => Execing(u)
      BY Zenon, <1>0, <1>3, <2>1, SchedPopped DEF Execing
    <3> QED BY Zenon, <1>0, <1>1, <1>2, <3>1, ExecEventsKept
  <2>5. ControlOK' /\ QueueOK'
    BY Zenon, <1>0, <1>1, <1>2, <1>6, <2>0, <2>1, <2>2
       DEF CInv, ControlOK, QueueOK, QueueEmpty, IsFront, Looping, Committed
  <2>6. InExecOK'
    <3>1. event[current_] # "sched" => event'[current_] = event[current_]
      BY Zenon, <1>4, <1>6, <2>1, SchedPopped
    <3> QED BY Zenon, <1>0, <2>0, <2>1, <3>1 DEF CInv, InExecOK
  <2> QED BY Zenon, <1>5, <2>3, <2>4, <2>5, <2>6 DEF CInv, TasksOK
<1>7. CASE current_ # NoTask /\ last_task_switchable = "PreventSwitch" /\ ~is_stopped[current_]
  <2>0. Committed /\ ~unstable[current_]
    BY Zenon, <1>0, <1>7 DEF Committed, CInv, ControlOK
  <2>1. pc' = "waitcur" /\ UNCHANGED <<event, panic>>
    BY Zenon, <1>7, <2>0 DEF Reschedule, RescheduleBegin
  <2>2. TasksOK'
    <3>1. ASSUME NEW u \in Task PROVE (StatusOK(u) /\ SchedOK(u) /\ ExecOK(u))'
      <4>1. StatusOK(u) /\ SchedOK(u) /\ ExecOK(u)
        BY Zenon DEF CInv, TasksOK
      <4> QED BY Zenon, <1>0, <1>1, <1>2, <2>1, <4>1
                 DEF StatusOK, SchedOK, ExecOK, Fits, Execing, Dying
    <3> QED BY Zenon, <3>1 DEF TasksOK
  <2>3. ExecEvents'
    BY Zenon, <1>0, <1>1, <1>2, <2>1, ExecEventsKept DEF Execing
  <2>4. ControlOK' /\ QueueOK' /\ InExecOK'
    BY Zenon, <1>0, <1>1, <1>2, <1>7, <2>0, <2>1
       DEF CInv, ControlOK, QueueOK, QueueEmpty, IsFront, Looping, InExecOK, Committed
  <2> QED BY Zenon, <1>5, <2>2, <2>3, <2>4 DEF CInv
<1>8. CASE ~(current_ # NoTask /\ last_task_switchable = "PreventSwitch")
  <2>1. pc' = "loop" /\ UNCHANGED <<event, panic>>
    BY Zenon, <1>8 DEF Reschedule, RescheduleBegin
  <2>2. current_ = NoTask \/ last_task_switchable = "AllowSwitch"
    BY Zenon, <1>8 DEF TInv, RTypeOK
  <2>3. ASSUME NEW u \in Task PROVE (StatusOK(u) /\ SchedOK(u) /\ ExecOK(u))'
    <3>1. u # NoTask
      BY TaskAssumption DEF NoTask
    <3>2. Quiet(u)
      BY Zenon, <1>0, <2>2, <3>1, QuietOthers
    <3>3. Untouched(u)
      BY Zenon, <1>0, <1>1, <1>2, <2>1 DEF Untouched
    <3> QED BY Zenon, <3>2, <3>3, OtherTask
  <2>4. ExecEvents'
    BY Zenon, <1>0, <1>1, <1>2, <2>1, ExecEventsKept DEF Execing
  <2>5. ControlOK' /\ QueueOK' /\ InExecOK'
    BY Zenon, <1>0, <1>1, <1>2, <2>1, <2>2
       DEF CInv, ControlOK, QueueOK, QueueEmpty, IsFront, Looping, InExecOK, Committed
  <2> QED BY Zenon, <1>5, <2>3, <2>4, <2>5 DEF CInv, TasksOK
<1> QED BY Zenon, <1>6, <1>7, <1>8

(* The status of the current task is waited for and handled. *)
LEMMA WaitForCurrentPreserves ==
  ASSUME LInv, TInv, CInv, WaitForCurrent, UNCHANGED rvars
  PROVE  CInv' /\ NothingLost
<1>0. /\ pc = "waitcur" /\ HasEvent(current_) /\ DidWaitpid(current_) /\ by_waitpid' = TRUE
      /\ UNCHANGED <<unstable, stable_exit, emulated_stop, detail, sigcont, current_,
                     must_run_task, in_exec_tgid, last_task_switchable, unborn, killed,
                     task_round_robin_queue, registered>>
      /\ PopSched
  BY Zenon DEF WaitForCurrent, CarryOn, rvars, qvars
<1>1. /\ current_ \in registered /\ current_ \in Task /\ registered \subseteq Task
      /\ current_ # NoTask
  <2>1. current_ \in registered /\ current_ \in Task /\ registered \subseteq Task
    BY Zenon, <1>0 DEF LInv, NoDanglingTask, QInv, QTypeOK
  <2> QED BY <2>1, TaskAssumption DEF NoTask
<1>2. /\ ~is_stopped[current_] /\ last_task_switchable = "PreventSwitch" /\ Committed
      /\ StatusOK(current_) /\ SchedOK(current_) /\ ExecOK(current_)
  BY Zenon, <1>0, <1>1 DEF CInv, ControlOK, TasksOK, Committed
<1>3. pc' = "run" /\ panic' = panic
  <2>1. Validated(current_, NoTask, task_round_robin_queue)
    BY Zenon, <1>2 DEF Validated, CInv, QueueOK, QueueEmpty, IsFront
  <2> QED BY Zenon, <2>1 DEF WaitForCurrent, CarryOn, Return
<1>4. PICK t \in Task : t = current_
  BY <1>1
<1>5. /\ is_stopped'[t] /\ ~detected'[t] /\ kernel_event'[t] = "none"
      /\ wait_status[t] = "none" /\ wait_status'[t] # "none"
      /\ detected[t] => wait_status'[t] = "exit" /\ kernel_event[t] = "none"
      /\ ~detected[t] => wait_status'[t] = kernel_event[t]
      /\ \A u \in Task \ {t} :
            /\ is_stopped'[u] = is_stopped[u] /\ wait_status'[u] = wait_status[u]
            /\ detected'[u] = detected[u] /\ kernel_event'[u] = kernel_event[u]
  BY Zenon, <1>0, <1>2, <1>4, Waited
<1>6. NothingLost
  BY Zenon, <1>0, <1>1, <1>5 DEF NothingLost
<1>7. \A u \in Task : /\ event'[u] = event[u] \/ (event[u] = "sched" /\ event'[u] = "user")
                      /\ u # current_ => event'[u] = event[u]
  BY Zenon, <1>0, SchedPopped
<1>8. ASSUME NEW u \in Task PROVE (StatusOK(u) /\ SchedOK(u) /\ ExecOK(u))'
  <2>1. CASE u = t
    <3>1. StatusOK(t)'
      BY Zenon, <1>0, <1>2, <1>4, <1>5, <1>7 DEF StatusOK, Fits, FromUser, FromSyscall, Dying
    <3>2. SchedOK(t)'
      BY Zenon, <1>0, <1>1, <1>2, <1>3, <1>4, <1>5, <1>7 DEF SchedOK, LInv, NoDanglingTask
    <3>3. ExecOK(t)'
      BY Zenon, <1>0, <1>2, <1>4, <1>5, <1>7 DEF ExecOK, Execing, HasEvent
    <3> QED BY Zenon, <2>1, <3>1, <3>2, <3>3
  <2>2. CASE u # t
    <3>1. Quiet(u)
      BY Zenon, <1>4, <2>2, QuietOthers
    <3>2. Untouched(u)
      BY Zenon, <1>0, <1>5, <1>7, <2>2 DEF Untouched
    <3> QED BY Zenon, <3>1, <3>2, OtherTask
  <2> QED BY <2>1, <2>2
<1>9. ExecEvents'
  <2>1. ASSUME NEW u \in registered
        PROVE  /\ Execing(u)' => Execing(u)
               /\ kernel_event'[u] = "exec" \/ wait_status'[u] = "exec" =>
                     kernel_event[u] = "exec" \/ wait_status[u] = "exec"
    BY Zenon, <1>0, <1>1, <1>5, <1>7 DEF Execing
  <2> QED BY Zenon, <1>0, <2>1, ExecEventsKept
<1>10. ControlOK' /\ QueueOK'
  BY Zenon, <1>0, <1>2, <1>3, <1>4, <1>5
     DEF CInv, ControlOK, QueueOK, QueueEmpty, IsFront, Looping, Committed
<1>11. InExecOK'
  BY Zenon, <1>0, <1>1, <1>2, <1>3, <1>7 DEF CInv, InExecOK
<1> QED BY Zenon, <1>6, <1>8, <1>9, <1>10, <1>11 DEF CInv, TasksOK

(* The selection loop goes on; nothing was chosen. *)
LEMMA LoopGoesOn ==
  ASSUME LInv, TInv, CInv, pc \in Looping, pc' \in Looping, must_run_task' = NoTask,
         UNCHANGED <<wvars, tvars, rvars, registered, current_, in_exec_tgid, panic>>,
         pc' \in {"wait", "any", "higher"} \/ in_exec_tgid # NoTask =>
            task_round_robin_queue' = <<>>,
         in_exec_tgid # NoTask => pc' = "wait"
  PROVE  CInv' /\ NothingLost
<1>0. UNCHANGED <<is_stopped, wait_status, detected, kernel_event, unstable, stable_exit,
                  emulated_stop, event, detail, sigcont, last_task_switchable, unborn, killed>>
  BY Zenon DEF wvars, tvars, rvars
<1>1. ASSUME NEW u \in Task PROVE (StatusOK(u) /\ SchedOK(u) /\ ExecOK(u))'
  <2>1. Quiet(u)
    BY Zenon, QuietOthers
  <2>2. Untouched(u)
    BY Zenon, <1>0 DEF Untouched
  <2> QED BY Zenon, <2>1, <2>2, OtherTask
<1>2. ExecEvents'
  BY Zenon, <1>0, ExecEventsKept DEF Execing
<1>3. ControlOK' /\ QueueOK' /\ InExecOK'
  BY Zenon, <1>0 DEF CInv, ControlOK, QueueOK, QueueEmpty, Looping, InExecOK, Committed
<1>4. NothingLost
  BY Zenon, <1>0 DEF NothingLost
<1> QED BY Zenon, <1>1, <1>2, <1>3, <1>4 DEF CInv, TasksOK

(* Nothing can be chosen. *)
LEMMA EnterWaitPreserves ==
  ASSUME LInv, TInv, CInv, pc \in Looping, EnterWait, must_run_task' = NoTask,
         UNCHANGED <<wvars, unstable, stable_exit, emulated_stop, detail, sigcont, rvars,
                     in_exec_tgid>>
  PROVE  CInv' /\ NothingLost
<1>1. /\ UNCHANGED <<event, current_, panic, registered>> /\ pc' = "wait"
      /\ task_round_robin_queue' = <<>>
  BY Zenon DEF EnterWait, ClearRoundRobinQueue
<1>2. UNCHANGED tvars /\ pc' \in Looping
  BY Zenon, <1>1 DEF tvars, Looping
<1> QED BY Zenon, <1>1, <1>2, LoopGoesOn

(***************************************************************************)
(* What is_task_runnable finds.  A task that is not in a system call is    *)
(* stopped without a status of its own making; one in a system call is     *)
(* waited for, or its status was collected before.                         *)
(***************************************************************************)
LEMMA PollOutcome ==
  ASSUME LInv, TInv, CInv, pc \in Looping, NEW t \in registered, PollTask(t)
  PROVE  \/ /\ ~IsTaskRunnable(t) \/ unstable[t]
            /\ UNCHANGED wvars /\ must_run_task' = NoTask /\ MustRun(t) = NoTask
         \/ /\ IsTaskRunnable(t) /\ ~unstable[t] /\ event[t] # "processing" /\ UNCHANGED wvars
            /\ is_stopped[t] /\ wait_status[t] \in {"none", "exit"}
            /\ must_run_task' = NoTask /\ MustRun(t) = NoTask
         \/ /\ IsTaskRunnable(t) /\ ~unstable[t] /\ event[t] = "processing" /\ by_waitpid'
            /\ must_run_task' = t /\ MustRun(t) = t
            /\ \/ UNCHANGED wvars /\ is_stopped[t] /\ wait_status[t] # "none"
               \/ DidWaitpid(t) /\ ~is_stopped[t] /\ HasEvent(t)
<1>0. /\ t \in Task /\ ~emulated_stop[t] /\ StatusOK(t) /\ SchedOK(t)
  BY Zenon DEF LInv, QInv, QTypeOK, CInv, TasksOK, StatusOK
<1>1. must_run_task' = MustRun(t) /\ (MustRun(t) = t => by_waitpid')
  BY Zenon DEF PollTask
<1>2. CASE unstable[t]
  BY Zenon, <1>1, <1>2 DEF PollTask, MustRun
<1>3. CASE ~unstable[t] /\ event[t] # "processing"
  <2>1. UNCHANGED wvars /\ MustRun(t) = NoTask /\ IsTaskRunnable(t)
    BY Zenon, <1>0, <1>3 DEF PollTask, MustRun, MayBeBlocked, IsTaskRunnable
  <2>2. is_stopped[t]
    BY Zenon, <1>0, <1>3, QuietOthers DEF Quiet
  <2>3. wait_status[t] \notin FromUser
    BY Zenon, <1>0, <1>3, QuietOthers DEF Quiet
  <2>4. wait_status[t] \in Stops \cup {"none"}
    BY Zenon, <1>0 DEF TInv, WTypeOK
  <2>5. wait_status[t] \in {"none", "exit"}
    BY Zenon, <1>0, <1>3, <2>3, <2>4 DEF StatusOK, Fits, FromUser, FromSyscall, Stops, Signals
  <2> QED BY Zenon, <1>1, <1>3, <2>1, <2>2, <2>5
<1>4. CASE ~unstable[t] /\ event[t] = "processing"
  <2>1. CASE is_stopped[t] \/ HasEvent(t)
    <3>1. MustRun(t) = t /\ IsTaskRunnable(t)
      BY Zenon, <1>0, <1>4, <2>1 DEF MustRun, MayBeBlocked, IsTaskRunnable
    <3>2. is_stopped[t] => wait_status[t] # "none"
      BY Zenon, <1>0, <1>4 DEF SchedOK
    <3>3. IF ~is_stopped[t] /\ HasEvent(t) THEN DidWaitpid(t) ELSE UNCHANGED wvars
      BY Zenon, <1>0, <1>4 DEF PollTask, MayBeBlocked
    <3> QED BY Zenon, <1>1, <1>4, <2>1, <3>1, <3>2, <3>3
  <2>2. CASE ~(is_stopped[t] \/ HasEvent(t))
    BY Zenon, <1>0, <1>1, <1>4, <2>2 DEF PollTask, MayBeBlocked, MustRun, IsTaskRunnable
  <2> QED BY <2>1, <2>2
<1> QED BY <1>2, <1>3, <1>4

(* A task is chosen by the selection loop, whether or not it was current. *)
LEMMA ChosenPreserves ==
  ASSUME LInv, TInv, CInv, pc \in {"higher", "carry", "front", "any"},
         NEW t \in registered, PollTask(t), IsTaskRunnable(t), ~unstable[t],
         QueueEmpty \/ IsFront(t),
         current_' = t, Return(t, MustRun(t), task_round_robin_queue), PopSched,
         UNCHANGED <<qvars, rvars>>
  PROVE  CInv' /\ NothingLost
<1>0. /\ pc \in Looping /\ t \in Task /\ registered \subseteq Task
      /\ StatusOK(t) /\ SchedOK(t) /\ ExecOK(t) /\ t \notin unborn
  BY Zenon DEF Looping, LInv, QInv, QTypeOK, NoDanglingTask, CInv, TasksOK
<1>1. UNCHANGED <<unstable, stable_exit, emulated_stop, detail, sigcont, in_exec_tgid,
                  last_task_switchable, unborn, killed, registered, task_round_robin_queue>>
  BY Zenon DEF PollTask, qvars, rvars
<1>2. pc' = "run" /\ panic' = panic
  <2>1. MustRun(t) \in {NoTask, t}
    BY Zenon DEF MustRun
  <2>2. Validated(t, MustRun(t), task_round_robin_queue)
    BY Zenon, <2>1 DEF Validated, QueueEmpty, IsFront
  <2> QED BY Zenon, <2>2 DEF Return
<1>3. in_exec_tgid = NoTask
  BY Zenon DEF CInv, InExecOK
(* t is stopped now, with a status if it was in a system call. *)
<1>4. /\ is_stopped'[t] /\ (is_stopped[t] => detected'[t] = detected[t]) 
      /\ ~is_stopped[t] => HasEvent(t) /\ ~detected'[t]
      /\ kernel_event'[t] \in {"none", "exit"}
      /\ wait_status'[t] \in {wait_status[t], "exit", kernel_event[t]}
      /\ event[t] = "processing" => wait_status'[t] # "none" /\ by_waitpid'
      /\ event[t] # "processing" => wait_status'[t] \in {"none", "exit"}
      /\ Dying(t)' => Dying(t)
      /\ wait_status[t] # "none" => wait_status'[t] = wait_status[t]
      /\ kernel_event[t] # "none" /\ kernel_event'[t] = "none" => wait_status'[t] = kernel_event[t]
      /\ \A u \in Task \ {t} :
            /\ is_stopped'[u] = is_stopped[u] /\ wait_status'[u] = wait_status[u]
            /\ detected'[u] = detected[u] /\ kernel_event'[u] = kernel_event[u]
  <2>1. CASE /\ UNCHANGED wvars /\ is_stopped[t]
             /\ event[t] = "processing" => wait_status[t] # "none" /\ by_waitpid'
             /\ event[t] # "processing" => wait_status[t] \in {"none", "exit"}
    <3>1. UNCHANGED <<is_stopped, wait_status, detected, kernel_event>>
      BY Zenon, <2>1 DEF wvars
    <3> QED BY Zenon, <1>0, <2>1, <3>1 DEF StatusOK, Dying
  <2>2. CASE /\ DidWaitpid(t) /\ ~is_stopped[t] /\ HasEvent(t)
             /\ event[t] = "processing" /\ by_waitpid'
    BY Zenon, <1>0, <2>2, Waited DEF Dying
  <2> QED BY Zenon, <1>0, <2>1, <2>2, PollOutcome
<1>5. NothingLost
  BY Zenon, <1>0, <1>4 DEF NothingLost
<1>6. \A u \in Task : /\ event'[u] = event[u] \/ (event[u] = "sched" /\ event'[u] = "user")
                      /\ u # current_ => event'[u] = event[u]
  BY Zenon, SchedPopped
<1>7. ASSUME NEW u \in Task PROVE (StatusOK(u) /\ SchedOK(u) /\ ExecOK(u))'
  <2>1. CASE u = t
    <3>1. StatusOK(t)'
      BY Zenon, <1>0, <1>1, <1>4, <1>6 DEF StatusOK, Fits, FromUser, FromSyscall
    <3>2. SchedOK(t)'
      BY Zenon, <1>0, <1>1, <1>2, <1>4, <1>6 DEF SchedOK
    <3>3. ExecOK(t)'
      BY Zenon, <1>0, <1>1, <1>4, <1>6 DEF ExecOK, Execing, HasEvent
    <3> QED BY Zenon, <2>1, <3>1, <3>2, <3>3
  <2>2. CASE u # t
    <3>1. Quiet(u)
      BY Zenon, <1>0, QuietOthers
    <3>2. Untouched(u)
      BY Zenon, <1>1, <1>4, <1>6, <2>2 DEF Untouched
    <3> QED BY Zenon, <3>1, <3>2, OtherTask
  <2> QED BY <2>1, <2>2
<1>8. ExecEvents'
  <2>1. ASSUME NEW u \in registered
        PROVE  /\ Execing(u)' => Execing(u)
               /\ kernel_event'[u] = "exec" \/ wait_status'[u] = "exec" =>
                     kernel_event[u] = "exec" \/ wait_status[u] = "exec"
    BY Zenon, <1>0, <1>1, <1>4, <1>6 DEF Execing
  <2> QED BY Zenon, <1>1, <2>1, ExecEventsKept
<1>9. ControlOK' /\ QueueOK' /\ InExecOK'
  <2>1. wait_status'[t] \notin {"none", "exit"} => by_waitpid'
    BY Zenon, <1>4
  <2> QED BY Zenon, <1>1, <1>2, <1>3, <1>4, <2>1
             DEF CInv, ControlOK, QueueOK, QueueEmpty, IsFront, Looping, Committed, InExecOK
<1> QED BY Zenon, <1>5, <1>7, <1>8, <1>9 DEF CInv, TasksOK

(* The steps of the selection loop. *)
LEMMA LoopPreserves ==
  ASSUME LInv, TInv, CInv, UNCHANGED rvars,
         \/ LoopBegin \/ PollHigherPriority \/ NoHigherPriority \/ PollCurrent
         \/ PollFront \/ NoFront \/ PollAny \/ AllBlocked
  PROVE  CInv' /\ NothingLost
<1> USE DEF Looping
<1>0. pc \in Looping => must_run_task = NoTask
  BY Zenon DEF CInv, ControlOK
<1>1. CASE LoopBegin
  <2>1. CASE InExecve
    <3>1. /\ pc = "loop" /\ EnterWait
          /\ UNCHANGED <<wvars, unstable, stable_exit, emulated_stop, detail, sigcont,
                         must_run_task, in_exec_tgid>>
      BY Zenon, <1>1, <2>1 DEF LoopBegin
    <3>2. pc \in Looping /\ must_run_task' = NoTask
      BY Zenon, <1>0, <3>1
    <3> QED BY Zenon, <3>1, <3>2, EnterWaitPreserves
  <2>2. CASE ~InExecve
    <3>1. /\ pc = "loop" /\ pc' \in {"front", "higher", "carry"}
          /\ pc' = "higher" => task_round_robin_queue = <<>>
          /\ UNCHANGED <<qvars, current_, event, panic, wvars, unstable, stable_exit,
                         emulated_stop, detail, sigcont, must_run_task, in_exec_tgid>>
      BY Zenon, <1>1, <2>2 DEF LoopBegin, MayPreempt
    <3>2. /\ UNCHANGED <<tvars, registered, task_round_robin_queue>>
          /\ pc \in Looping /\ pc' \in Looping /\ must_run_task' = NoTask
          /\ in_exec_tgid = NoTask
      BY Zenon, <1>0, <2>2, <3>1 DEF tvars, qvars, InExecve
    <3> QED BY Zenon, <3>1, <3>2, LoopGoesOn
  <2> QED BY <2>1, <2>2
<1>2. CASE NoHigherPriority \/ NoFront
  <2>1. /\ pc \in {"higher", "front"} /\ pc' \in {"carry", "any"}
        /\ pc' = "any" => task_round_robin_queue = <<>>
        /\ UNCHANGED <<qvars, wvars, tvars, current_, must_run_task, in_exec_tgid, panic>>
    BY Zenon, <1>2 DEF NoHigherPriority, NoFront
  <2>2. /\ UNCHANGED <<registered, task_round_robin_queue>>
        /\ pc \in Looping /\ pc' \in Looping /\ must_run_task' = NoTask
        /\ in_exec_tgid = NoTask
    BY Zenon, <1>0, <2>1 DEF qvars, CInv, InExecOK
  <2> QED BY Zenon, <2>1, <2>2, LoopGoesOn
<1>3. CASE AllBlocked
  <2>1. /\ pc \in Looping /\ EnterWait
        /\ UNCHANGED <<wvars, unstable, stable_exit, emulated_stop, detail, sigcont,
                       must_run_task, in_exec_tgid>>
    BY Zenon, <1>3 DEF AllBlocked
  <2> QED BY Zenon, <1>0, <2>1, EnterWaitPreserves
(* A polled task is chosen, unstable or passed over. *)
<1>4. ASSUME NEW t \in registered, pc \in {"higher", "carry", "front", "any"}, PollTask(t),
             ~IsTaskRunnable(t) \/ (must_run_task' = NoTask /\ pc' = "loop"),
             pc' \in Looping, UNCHANGED <<current_, event, panic, registered>>,
             pc' \in {"any", "higher"} => UNCHANGED <<pc, task_round_robin_queue>>,
             pc' # "wait"
      PROVE  CInv' /\ NothingLost
  <2>0. t # NoTask
    BY TaskAssumption DEF LInv, QInv, QTypeOK, NoTask
  <2>1. UNCHANGED wvars /\ must_run_task' = NoTask
    BY Zenon, <1>4, <2>0, PollOutcome
  <2>2. UNCHANGED tvars /\ UNCHANGED in_exec_tgid
    BY Zenon, <1>4 DEF PollTask, tvars
  <2>3. in_exec_tgid = NoTask
    BY Zenon, <1>4 DEF CInv, InExecOK
  <2>4. pc' \in {"any", "higher"} => task_round_robin_queue' = <<>>
    BY Zenon, <1>4 DEF CInv, QueueOK, QueueEmpty
  <2> QED BY Zenon, <1>4, <2>1, <2>2, <2>3, <2>4, LoopGoesOn
<1>5. ASSUME NEW t \in registered, pc \in {"higher", "front", "any"}, PollTask(t),
             IsTaskRunnable(t), Select(t, MustRun(t)), QueueEmpty \/ IsFront(t)
      PROVE  CInv' /\ NothingLost
  <2>1. CASE unstable[t]
    <3>1. UNCHANGED wvars /\ must_run_task' = NoTask
      BY Zenon, <1>5, <2>1, PollOutcome
    <3>2. /\ EnterWait
          /\ UNCHANGED <<unstable, stable_exit, emulated_stop, detail, sigcont, in_exec_tgid>>
      BY Zenon, <1>5, <2>1 DEF Select, PollTask
    <3> QED BY Zenon, <1>5, <3>1, <3>2, EnterWaitPreserves
  <2>2. CASE ~unstable[t]
    <3>1. /\ current_' = t /\ Return(t, MustRun(t), task_round_robin_queue) /\ PopSched
          /\ UNCHANGED qvars
      BY Zenon, <1>5, <2>2 DEF Select, SwitchTo
    <3> QED BY Zenon, <1>5, <2>2, <3>1, ChosenPreserves
  <2> QED BY <2>1, <2>2
<1>6. CASE PollHigherPriority \/ PollAny
  <2>1. PICK e \in scan :
          /\ pc \in {"higher", "any"} /\ PollTask(e[2])
          /\ \/ IsTaskRunnable(e[2]) /\ Select(e[2], MustRun(e[2]))
             \/ /\ IsTaskRunnable(e[2]) /\ MustRun(e[2]) = NoTask /\ pc' = "loop"
                /\ UNCHANGED <<qvars, current_, event, panic>>
             \/ ~IsTaskRunnable(e[2]) /\ UNCHANGED <<qvars, current_, event, pc, panic>>
    BY Zenon, <1>6 DEF PollHigherPriority, PollAny, SelectUnlessLowPriority
  <2>2. e[2] \in registered /\ QueueEmpty
    BY Zenon, <2>1 DEF LInv, NoDanglingTask, CInv, QueueOK
  <2>3. MustRun(e[2]) = must_run_task'
    BY Zenon, <2>1 DEF PollTask
  <2> QED BY Zenon, <1>4, <1>5, <2>1, <2>2, <2>3 DEF qvars
<1>7. CASE PollFront
  <2>1. PICK t \in registered : t = Head(task_round_robin_queue)
    <3>1. task_round_robin_queue \in Seq(Task) /\ task_round_robin_queue # <<>>
      BY Zenon, <1>7 DEF PollFront, LInv, QInv, QTypeOK
    <3>2. Head(task_round_robin_queue) \in Queued /\ Head(task_round_robin_queue) \in Task
      BY <3>1 DEF Queued
    <3> QED BY Zenon, <3>2 DEF LInv, QInv, FiledOnce
  <2>2. /\ pc = "front" /\ PollTask(t) /\ IsFront(t)
        /\ \/ IsTaskRunnable(t) /\ Select(t, MustRun(t))
           \/ /\ ~IsTaskRunnable(t) /\ pc' = "loop" /\ PopFront
              /\ UNCHANGED <<current_, event, panic>>
    BY Zenon, <1>7, <2>1 DEF PollFront, IsFront
  <2>3. PopFront => UNCHANGED registered
    BY Zenon DEF PopFront
  <2> QED BY Zenon, <1>4, <1>5, <2>2, <2>3
<1>8. CASE PollCurrent
  <2>1. /\ pc = "carry" /\ current_ \in registered
        /\ CurrentMayGoOn => QueueEmpty \/ IsFront(current_)
        /\ CurrentMayGoOn => ~unstable[current_]
    BY Zenon, <1>8 DEF PollCurrent, LInv, NoDanglingTask, CurrentMayGoOn, QueueEmpty
  <2>2. RejectCurrent =>
          pc' = "front" /\ UNCHANGED <<current_, event, panic, registered>>
    BY Zenon DEF RejectCurrent, MaybePopRoundRobinTask, PopFront, qvars
  <2>3. CASE CurrentMayGoOn /\ IsTaskRunnable(current_)
    <3>1. /\ PollTask(current_) /\ CarryOn(MustRun(current_))
      BY Zenon, <1>8, <2>3 DEF PollCurrent
    <3>2. /\ current_' = current_ /\ PopSched /\ UNCHANGED qvars
          /\ Return(current_, MustRun(current_), task_round_robin_queue)
      BY Zenon, <3>1 DEF CarryOn
    <3> QED BY Zenon, <2>1, <2>3, <3>1, <3>2, ChosenPreserves
  <2>4. CASE CurrentMayGoOn /\ ~IsTaskRunnable(current_)
    <3>1. PollTask(current_) /\ RejectCurrent
      BY Zenon, <1>8, <2>4 DEF PollCurrent
    <3> QED BY Zenon, <1>4, <2>1, <2>2, <2>4, <3>1
  <2>5. CASE ~CurrentMayGoOn
    <3>1. /\ RejectCurrent
          /\ UNCHANGED <<wvars, unstable, stable_exit, emulated_stop, detail, sigcont,
                         must_run_task, in_exec_tgid>>
      BY Zenon, <1>8, <2>5 DEF PollCurrent
    <3>2. /\ UNCHANGED tvars /\ in_exec_tgid = NoTask /\ must_run_task' = NoTask
          /\ pc \in Looping /\ pc' \in Looping
      BY Zenon, <1>0, <2>1, <2>2, <3>1 DEF tvars, CInv, InExecOK
    <3> QED BY Zenon, <2>2, <3>1, <3>2, LoopGoesOn
  <2> QED BY <2>3, <2>4, <2>5
<1> QED BY Zenon, <1>1, <1>2, <1>3, <1>6, <1>7, <1>8

(* waitpid(-1) collects a death or the end of a system call. *)
LEMMA WaitAnyPreserves ==
  ASSUME LInv, TInv, CInv, NEW t \in registered, WaitAny(t)
  PROVE  CInv' /\ NothingLost
<1>0. /\ pc = "wait" /\ pc \in Looping /\ t \in Task /\ registered \subseteq Task
      /\ StatusOK(t) /\ SchedOK(t) /\ ExecOK(t) /\ t \notin unborn
      /\ kernel_event[t] # "none" /\ NoteStatus(t)
  BY Zenon DEF WaitAny, Looping, LInv, QInv, QTypeOK, NoDanglingTask, CInv, TasksOK
<1>1. UNCHANGED <<detected, stable_exit, emulated_stop, detail, sigcont, in_exec_tgid,
                  last_task_switchable, unborn, killed>>
  BY Zenon DEF WaitAny
<1>2. /\ is_stopped'[t] /\ wait_status'[t] = kernel_event[t] /\ kernel_event'[t] = "none"
      /\ unstable'[t] <=> unstable[t] /\ kernel_event[t] # "exec"
      /\ \A u \in Task \ {t} :
            /\ is_stopped'[u] = is_stopped[u] /\ wait_status'[u] = wait_status[u]
            /\ unstable'[u] = unstable[u] /\ kernel_event'[u] = kernel_event[u]
  <2>1. /\ is_stopped \in [Task -> BOOLEAN] /\ unstable \in [Task -> BOOLEAN]
        /\ wait_status \in [Task -> Stops \cup {"none"}]
        /\ kernel_event \in [Task -> Stops \cup {"none"}]
    BY Zenon DEF TInv, WTypeOK, TTypeOK
  <2>2. unstable' = [unstable EXCEPT ![t] = @ /\ ~(kernel_event[t] = "exec")]
    BY Zenon DEF WaitAny
  <2> QED BY Zenon, <1>0, <2>1, <2>2 DEF NoteStatus
<1>3. ~detected[t] /\ ~emulated_stop[t] /\ detail[t] # "execve_moved"
  BY Zenon, <1>0 DEF StatusOK, ExecOK
<1>4. kernel_event[t] = "exit" \/ event[t] = "processing" \/ unstable'[t]
  <2>1. CASE kernel_event[t] = "exec"
    BY Zenon, <1>0, <2>1 DEF StatusOK, Fits
  <2>2. CASE kernel_event[t] \notin {"exec", "exit"}
    <3>1. ~is_stopped[t]
      BY Zenon, <1>0, <2>2 DEF StatusOK
    <3> QED BY Zenon, <1>0, <1>2, <2>2, <3>1, QuietOthers DEF Quiet
  <2> QED BY Zenon, <2>1, <2>2
<1>5. ~(~unstable'[t] /\ ~MayBeBlocked(t) /\ kernel_event[t] # "exit")
  BY Zenon, <1>4 DEF MayBeBlocked
<1>6. \/ /\ in_exec_tgid \notin {NoTask, Tgid[t]}
         /\ UNCHANGED <<qvars, current_, event, pc, panic, by_waitpid, must_run_task>>
      \/ /\ in_exec_tgid \in {NoTask, Tgid[t]}
         /\ by_waitpid' = TRUE /\ SwitchTo(t, t)
  BY Zenon, <1>5 DEF WaitAny
<1>7. /\ \A u \in Task : event'[u] = event[u] \/ (event[u] = "sched" /\ event'[u] = "user")
      /\ UNCHANGED <<registered, task_round_robin_queue>>
  BY Zenon, <1>6, SchedPopped DEF SwitchTo, qvars
<1>8. NothingLost
  BY Zenon, <1>0, <1>2 DEF NothingLost, StatusOK
<1>9. ASSUME NEW u \in Task PROVE (StatusOK(u) /\ SchedOK(u) /\ ExecOK(u))'
  <2>1. CASE u = t
    <3>1. StatusOK(t)'
      BY Zenon, <1>0, <1>1, <1>2, <1>3, <1>7 DEF StatusOK, Fits, FromUser, FromSyscall, Dying
    <3>2. kernel_event[t] \in FromUser => unstable'[t]
      BY Zenon, <1>0, <1>4 DEF StatusOK, Fits, FromUser
    <3>3. SchedOK(t)'
      BY Zenon, <1>0, <1>1, <1>2, <1>7, <3>2 DEF SchedOK
    <3>4. ExecOK(t)'
      BY Zenon, <1>0, <1>1, <1>2, <1>3, <1>7 DEF ExecOK, Execing
    <3> QED BY Zenon, <2>1, <3>1, <3>3, <3>4
  <2>2. CASE u # t
    <3>1. Quiet(u)
      BY Zenon, <1>0, QuietOthers
    <3>2. Untouched(u)
      BY Zenon, <1>1, <1>2, <1>7, <2>2 DEF Untouched
    <3> QED BY Zenon, <3>1, <3>2, OtherTask
  <2> QED BY <2>1, <2>2
<1>10. ExecEvents'
  <2>1. ASSUME NEW u \in registered
        PROVE  /\ Execing(u)' => Execing(u)
               /\ kernel_event'[u] = "exec" \/ wait_status'[u] = "exec" =>
                     kernel_event[u] = "exec" \/ wait_status[u] = "exec"
    BY Zenon, <1>0, <1>1, <1>2, <1>7 DEF Execing
  <2> QED BY Zenon, <1>1, <1>7, <2>1, ExecEventsKept
<1>11. QueueEmpty
  BY Zenon, <1>0 DEF CInv, QueueOK
<1>12. CASE /\ in_exec_tgid \notin {NoTask, Tgid[t]}
            /\ UNCHANGED <<qvars, current_, event, pc, panic, by_waitpid, must_run_task>>
  <2>1. ControlOK' /\ QueueOK' /\ InExecOK'
    BY Zenon, <1>0, <1>1, <1>7, <1>11, <1>12
       DEF CInv, ControlOK, QueueOK, QueueEmpty, Looping, Committed, InExecOK
  <2> QED BY Zenon, <1>8, <1>9, <1>10, <2>1 DEF CInv, TasksOK
<1>13. CASE in_exec_tgid \in {NoTask, Tgid[t]} /\ by_waitpid' = TRUE /\ SwitchTo(t, t)
  <2>1. pc' = "run" /\ panic' = panic /\ current_' = t
    <3>1. Validated(t, t, task_round_robin_queue)
      BY Zenon, <1>11 DEF Validated, QueueEmpty
    <3> QED BY Zenon, <1>13, <3>1 DEF SwitchTo, Return
  <2>2. ControlOK' /\ QueueOK'
    BY Zenon, <1>0, <1>1, <1>2, <1>7, <1>11, <1>13, <2>1
       DEF CInv, ControlOK, QueueOK, QueueEmpty, Looping, Committed
  <2>3. InExecOK'
    BY Zenon, <1>0, <1>2, <1>4, <1>7, <2>1 DEF InExecOK
  <2> QED BY Zenon, <1>8, <1>9, <1>10, <2>2, <2>3 DEF CInv, TasksOK
<1> QED BY Zenon, <1>6, <1>12, <1>13

(* waitpid(-1) is interrupted, or the recording ends. *)
LEMMA StepEndsPreserves ==
  ASSUME LInv, TInv, CInv, WaitInterrupted \/ StepExited
  PROVE  CInv' /\ NothingLost
<1>0. /\ UNCHANGED <<qvars, wvars, tvars, rvars, current_, must_run_task, in_exec_tgid, by_waitpid>>
      /\ \/ pc = "wait" /\ pc' = "step" /\ UNCHANGED panic
         \/ /\ pc = "wait" /\ pc' = "panic"
            /\ \/ panic' = "EINTR without a current task"
               \/ must_run_task # NoTask
         \/ pc = "step" /\ pc' = "end" /\ UNCHANGED panic
  BY Zenon DEF WaitInterrupted, StepExited, Fail
<1>1. UNCHANGED <<is_stopped, wait_status, detected, kernel_event, unstable, stable_exit,
                  emulated_stop, event, detail, sigcont, last_task_switchable, unborn, killed,
                  task_round_robin_queue, registered>>
  BY Zenon, <1>0 DEF wvars, tvars, rvars, qvars
<1>2. pc = "wait" => must_run_task = NoTask
  BY Zenon DEF CInv, ControlOK, Looping
<1>3. ASSUME NEW u \in Task PROVE (StatusOK(u) /\ SchedOK(u) /\ ExecOK(u))'
  <2>1. CASE pc = "wait"
    <3>1. Quiet(u)
      BY Zenon, <2>1, QuietOthers DEF Looping
    <3>2. Untouched(u)
      BY Zenon, <1>0, <1>1 DEF Untouched
    <3> QED BY Zenon, <3>1, <3>2, OtherTask
  <2>2. CASE pc = "step" /\ pc' = "end"
    <3>1. StatusOK(u) /\ SchedOK(u) /\ ExecOK(u)
      BY Zenon DEF CInv, TasksOK
    <3> QED BY Zenon, <1>0, <1>1, <2>2, <3>1
               DEF StatusOK, SchedOK, ExecOK, Fits, Execing, Dying
  <2> QED BY Zenon, <1>0, <2>1, <2>2
<1>4. ExecEvents'
  BY Zenon, <1>1, ExecEventsKept DEF Execing
<1>5. ControlOK'
  BY Zenon, <1>0, <1>1, <1>2 DEF CInv, ControlOK, Looping, Committed
<1>6. QueueOK' /\ InExecOK'
  BY Zenon, <1>0, <1>1, <1>2 DEF CInv, ControlOK, QueueOK, QueueEmpty, Looping, Committed, InExecOK
<1>7. NothingLost
  BY Zenon, <1>1 DEF NothingLost
<1> QED BY Zenon, <1>3, <1>4, <1>5, <1>6, <1>7 DEF CInv, TasksOK

(* All steps of reschedule; without stop signals none waits for a SIGCONT. *)
LEMMA SchedulerPreserves ==
  ASSUME LInv, TInv, CInv, SchedulerStep
  PROVE  CInv' /\ NothingLost
<1>1. sigcont = {} /\ pc \notin {"sigwait", "sigwaitcur"}
  BY Zenon DEF CInv, ControlOK
<1>2. ~ResumeForSigcont /\ ~SigcontWait
  BY Zenon, <1>1 DEF ResumeForSigcont, SigcontWait
<1> QED BY Zenon, <1>2, WaitForCurrentPreserves, LoopPreserves DEF SchedulerStep

=============================================================================
