-------------------------- MODULE RecorderStepProofs --------------------------
(***************************************************************************)
(* What record_step does with the task reschedule returns preserves the    *)
(* invariant of RecorderControlProofs; the theorems about the recorder     *)
(* follow: its assertions hold, one task runs at a time, no event is lost, *)
(* and an execve has the recorder to itself until it is over.              *)
(***************************************************************************)
EXTENDS RecorderControlProofs

(* The task record_step handles. *)
LEMMA HandledTask ==
  ASSUME LInv, TInv, CInv, pc = "run"
  PROVE  /\ current_ \in Task /\ current_ \in registered /\ registered \subseteq Task
         /\ current_ \notin unborn /\ current_ # NoTask /\ is_stopped[current_]
         /\ ~detected[current_] /\ kernel_event[current_] \in {"none", "exit"}
         /\ ~emulated_stop[current_] /\ detail[current_] # "execve_moved"
         /\ StatusOK(current_) /\ SchedOK(current_) /\ ExecOK(current_)
         /\ QueueEmpty \/ IsFront(current_)
         /\ in_exec_tgid # NoTask => QueueEmpty
<1>1. /\ current_ \in registered /\ current_ \in Task /\ registered \subseteq Task
      /\ current_ \notin unborn
  BY Zenon DEF LInv, NoDanglingTask, QInv, QTypeOK
<1>2. current_ # NoTask
  BY <1>1, TaskAssumption DEF NoTask
<1>3. StatusOK(current_) /\ SchedOK(current_) /\ ExecOK(current_) /\ is_stopped[current_]
  BY Zenon, <1>1 DEF CInv, TasksOK, ControlOK
<1>4. /\ ~detected[current_] /\ kernel_event[current_] \in {"none", "exit"}
      /\ ~emulated_stop[current_] /\ detail[current_] # "execve_moved"
  BY Zenon, <1>3 DEF StatusOK, ExecOK
<1>5. /\ QueueEmpty \/ IsFront(current_)
      /\ in_exec_tgid # NoTask => QueueEmpty
  BY Zenon DEF CInv, QueueOK, Committed
<1> QED BY Zenon, <1>1, <1>2, <1>3, <1>4, <1>5

(* The status of a task in a system call is not that of user code. *)
LEMMA HandledStatus ==
  ASSUME LInv, TInv, CInv, NEW t, Handling(t, event[t])
  PROVE  /\ wait_status[t] \notin {"none", "exit"} => by_waitpid
         /\ event[t] \notin {"user", "processing"} => wait_status[t] = "none"
         /\ event[t] = "processing" =>
               /\ wait_status[t] \in {"sysexit", "restart", "exec"} /\ by_waitpid
               /\ wait_status[t] # "exec" => detail[t] \notin {"exit", "exit_group",
                                               "execve_alone", "execve_moved"}
         /\ event[t] = "user" => wait_status[t] \in FromUser \cup {"none"}
         /\ event[t] \notin {"processing", "exiting", "restarting"} => in_exec_tgid = NoTask
<1>1. pc = "run" /\ t = current_ /\ wait_status[t] # "exit" /\ ~unstable[t]
  BY Zenon DEF Handling
<1>2. t \in Task /\ t \in registered /\ is_stopped[t] /\ StatusOK(t) /\ SchedOK(t)
  BY Zenon, <1>1, HandledTask
<1>3. wait_status[t] \in Stops \cup {"none"}
  BY Zenon, <1>2 DEF TInv, WTypeOK
<1>4. wait_status[t] \notin {"none", "exit"} => by_waitpid
  BY Zenon, <1>1 DEF CInv, ControlOK
<1>5. event[t] = "processing" => wait_status[t] # "none"
  BY Zenon, <1>1, <1>2 DEF SchedOK
<1>6. Fits(t, wait_status[t])
  BY Zenon, <1>2 DEF StatusOK
<1>7. wait_status[t] \in FromUser \cup FromSyscall \cup {"exec", "none"}
  BY Zenon, <1>1, <1>3, <1>6 DEF Fits, FromUser, FromSyscall, Stops, Signals
<1>8. event[t] \notin {"processing", "exiting", "restarting"} => in_exec_tgid = NoTask
  BY Zenon, <1>1 DEF CInv, InExecOK, Committed
<1>9. /\ event[t] \notin {"user", "processing"} => wait_status[t] = "none"
      /\ event[t] = "user" => wait_status[t] \in FromUser \cup {"none"}
  BY Zenon, <1>6, <1>7 DEF Fits
<1>10. event[t] = "processing" =>
          /\ wait_status[t] \in {"sysexit", "restart", "exec"}
          /\ wait_status[t] # "exec" => detail[t] \notin {"exit", "exit_group",
                                          "execve_alone", "execve_moved"}
  BY Zenon, <1>5, <1>6, <1>7 DEF Fits, FromUser, FromSyscall
<1> QED BY Zenon, <1>4, <1>5, <1>8, <1>9, <1>10

(* A handler that leaves its task stopped. *)
LEMMA ConsumePreserves ==
  ASSUME LInv, TInv, CInv, NEW t, Handling(t, event[t]), DontContinue(t), pc' = "step",
         UNCHANGED <<unstable, stable_exit, emulated_stop, sigcont, current_, unborn, killed,
                     panic, registered>>,
         \A u \in Task \ {t} : event'[u] = event[u] /\ detail'[u] = detail[u],
         event'[t] # "processing",
         event'[t] = "restarting" => "restart" \in Inputs,
         detail'[t] \notin {"sigstop", "sigcont", "execve_alone", "execve_moved"},
         detail[t] \notin {"execve_alone", "execve_moved"},
         ~stable_exit[t],
         Execing(t)' => Execing(t) /\ in_exec_tgid' = in_exec_tgid,
         in_exec_tgid' = in_exec_tgid \/ (Execing(t) /\ in_exec_tgid' = NoTask),
         last_task_switchable' \in {"AllowSwitch", "PreventSwitch"},
         last_task_switchable' = "PreventSwitch" =>
            /\ UNCHANGED task_round_robin_queue
            /\ in_exec_tgid' = NoTask \/ event'[t] \in {"exiting", "restarting"}
  PROVE  CInv' /\ NothingLost
<1>0. pc = "run" /\ t = current_ /\ wait_status[t] # "exit" /\ ~unstable[t]
  BY Zenon DEF Handling
<1>1. /\ t \in Task /\ t \in registered /\ registered \subseteq Task
      /\ t \notin unborn /\ t # NoTask /\ is_stopped[t]
      /\ ~detected[t] /\ kernel_event[t] \in {"none", "exit"} /\ ~emulated_stop[t]
      /\ StatusOK(t) /\ SchedOK(t) /\ ExecOK(t)
      /\ QueueEmpty \/ IsFront(t)
      /\ in_exec_tgid # NoTask => QueueEmpty
  BY Zenon, <1>0, HandledTask
<1>2. /\ wait_status'[t] = "none" /\ UNCHANGED <<is_stopped, detected, kernel_event>>
      /\ \A u \in Task \ {t} : wait_status'[u] = wait_status[u]
  BY Zenon, <1>1, Consumed
<1>3. NothingLost
  BY Zenon, <1>0, <1>1, <1>2 DEF NothingLost
<1>4. ASSUME NEW u \in Task PROVE (StatusOK(u) /\ SchedOK(u) /\ ExecOK(u))'
  <2>1. CASE u = t
    <3>1. StatusOK(t)'
      BY Zenon, <1>1, <1>2 DEF StatusOK, Fits, FromUser, FromSyscall, Dying
    <3>2. SchedOK(t)'
      BY Zenon, <1>1, <1>2 DEF SchedOK, FromUser
    <3>3. ExecOK(t)'
      BY Zenon, <1>1 DEF ExecOK
    <3> QED BY Zenon, <2>1, <3>1, <3>2, <3>3
  <2>2. CASE u # t
    <3>1. Quiet(u)
      BY Zenon, <1>0, <2>2, QuietOthers
    <3>2. Execing(u) /\ u \in registered => ~Execing(t)
      BY Zenon, <1>1, <2>2 DEF CInv, ExecEvents
    <3>3. Untouched(u)
      BY Zenon, <1>2, <2>2, <3>2 DEF Untouched
    <3> QED BY Zenon, <3>1, <3>3, OtherTask
  <2> QED BY <2>1, <2>2
<1>5. ExecEvents'
  <2>1. ASSUME NEW u \in registered
        PROVE  /\ Execing(u)' => Execing(u)
               /\ detail'[u] # detail[u] => detail[u] \notin {"execve_alone", "execve_moved"}
               /\ kernel_event'[u] = "exec" \/ wait_status'[u] = "exec" =>
                     kernel_event[u] = "exec" \/ wait_status[u] = "exec"
    BY Zenon, <1>1, <1>2 DEF Execing
  <2> QED BY Zenon, <2>1, ExecEventsKept
<1>6. ControlOK'
  BY Zenon, <1>0, <1>1, <1>2 DEF CInv, ControlOK, Looping, Committed
<1>7. QueueOK'
  BY Zenon, <1>0, <1>1 DEF QueueOK, QueueEmpty, IsFront, Committed
<1>8. InExecOK'
  BY Zenon, <1>0 DEF InExecOK, Committed
<1> QED BY Zenon, <1>3, <1>4, <1>5, <1>6, <1>7, <1>8 DEF CInv, TasksOK

(***************************************************************************)
(* A handler of a task in user code that resumes it, into user code or     *)
(* into a system call.  No execve is under way, so this may be the entry   *)
(* of one; the task may have been joined by one it cloned.                 *)
(***************************************************************************)
LEMMA ResumePreserves ==
  ASSUME LInv, TInv, CInv, NEW t, Handling(t, "user"), ResumeExecution(t), pc' = "step",
         UNCHANGED <<unstable, emulated_stop, sigcont, current_, killed, panic>>,
         \A u \in Task \ {t} : /\ event'[u] = event[u] /\ detail'[u] = detail[u]
                               /\ stable_exit'[u] = stable_exit[u]
                               /\ u \in unborn' => u \in unborn
                               /\ u \in registered' => u \in registered \cup unborn,
         t \in registered', t \notin unborn', registered' \subseteq Task,
         \/ /\ event'[t] = "user" /\ last_task_switchable' = "PreventSwitch"
            /\ detail'[t] = detail[t] /\ stable_exit'[t] = stable_exit[t]
         \/ /\ event'[t] = "processing" /\ detail'[t] \in AllSyscalls
            /\ stable_exit'[t] =>
                  stable_exit[t] \/ detail'[t] \in {"exit", "exit_group"},
         in_exec_tgid' = IF event'[t] = "processing" /\ detail'[t] = "execve"
                         THEN Tgid[t] ELSE in_exec_tgid,
         \/ last_task_switchable' = "AllowSwitch"
         \/ UNCHANGED <<task_round_robin_queue, in_exec_tgid>>
  PROVE  CInv' /\ NothingLost
<1>0. pc = "run" /\ t = current_ /\ wait_status[t] # "exit" /\ ~unstable[t] /\ event[t] = "user"
  BY Zenon DEF Handling
<1>1. /\ t \in Task /\ t \in registered /\ registered \subseteq Task
      /\ t \notin unborn /\ t # NoTask /\ is_stopped[t]
      /\ ~detected[t] /\ kernel_event[t] \in {"none", "exit"} /\ ~emulated_stop[t]
      /\ StatusOK(t) /\ SchedOK(t) /\ ExecOK(t)
      /\ QueueEmpty \/ IsFront(t)
  BY Zenon, <1>0, HandledTask
<1>2. /\ ~is_stopped'[t] /\ wait_status'[t] = "none" /\ kernel_event'[t] = "none"
      /\ detected'[t] <=> kernel_event[t] = "exit"
      /\ \A u \in Task \ {t} :
            /\ is_stopped'[u] = is_stopped[u] /\ wait_status'[u] = wait_status[u]
            /\ detected'[u] = detected[u] /\ kernel_event'[u] = kernel_event[u]
  BY Zenon, <1>1, Resumed
<1>3. in_exec_tgid = NoTask
  BY Zenon, <1>0, HandledStatus
<1>4. \A u \in registered : ~Execing(u)
  <2>1. \A u \in registered : Tgid[u] \in Task /\ Tgid[u] # NoTask
    BY <1>1, TgidAssumption, TaskAssumption DEF NoTask
  <2> QED BY Zenon, <1>1, <1>3, <2>1 DEF CInv, TasksOK, ExecOK
<1>5. NothingLost
  BY Zenon, <1>0, <1>1, <1>2 DEF NothingLost
<1>6. ~stable_exit[t] /\ detail[t] \notin {"execve_alone", "execve_moved"}
  BY Zenon, <1>0, <1>1 DEF ExecOK
<1>7. detail'[t] \notin {"sigstop", "sigcont", "execve_alone", "execve_moved"}
  BY Zenon, <1>1, <1>6 DEF StatusOK, AllSyscalls
<1>8. Execing(t)' => event'[t] = "processing" /\ detail'[t] = "execve"
  BY Zenon DEF Execing, ExecStates, AllSyscalls
<1>9. ASSUME NEW u \in Task PROVE (StatusOK(u) /\ SchedOK(u) /\ ExecOK(u))'
  <2>1. CASE u = t
    <3>1. StatusOK(t)'
      BY Zenon, <1>1, <1>2, <1>7 DEF StatusOK, Fits, FromUser, FromSyscall, Dying
    <3>2. SchedOK(t)'
      BY Zenon, <1>0, <1>1, <1>2 DEF SchedOK, FromUser
    <3>3. ExecOK(t)'
      BY Zenon, <1>1, <1>6, <1>7, <1>8 DEF ExecOK
    <3> QED BY Zenon, <2>1, <3>1, <3>2, <3>3
  <2>2. CASE u # t
    <3>1. Quiet(u)
      BY Zenon, <1>0, <2>2, QuietOthers
    <3>2. Untouched(u)
      BY Zenon, <1>2, <1>4, <2>2 DEF Untouched
    <3> QED BY Zenon, <3>1, <3>2, OtherTask
  <2> QED BY <2>1, <2>2
<1>10. ExecEvents'
  <2>1. ASSUME NEW u \in registered', u # t
        PROVE  ~Execing(u)' /\ kernel_event'[u] # "exec" /\ wait_status'[u] # "exec"
    <3>1. u \in registered \cup unborn /\ u \in Task
      BY Zenon, <2>1
    <3>2. kernel_event'[u] = kernel_event[u] /\ wait_status'[u] = wait_status[u]
          /\ event'[u] = event[u] /\ detail'[u] = detail[u]
      BY Zenon, <1>2, <2>1, <3>1
    <3>3. CASE u \in registered
      BY Zenon, <1>4, <3>2, <3>3, ExecingThread DEF Execing
    <3>4. CASE u \in unborn
      BY Zenon, <3>1, <3>2, <3>4 DEF CInv, TasksOK, SchedOK, Execing
    <3> QED BY Zenon, <3>1, <3>3, <3>4
  <2> QED BY Zenon, <1>2, <2>1 DEF ExecEvents
<1>11. ControlOK'
  BY Zenon, <1>0, <1>1, <1>2 DEF CInv, ControlOK, Looping, Committed
<1>12. QueueOK'
  BY Zenon, <1>0, <1>1, <1>3 DEF QueueOK, QueueEmpty, IsFront, Committed
<1>13. InExecOK'
  BY Zenon, <1>0, <1>3 DEF InExecOK, Committed
<1> QED BY Zenon, <1>5, <1>9, <1>10, <1>11, <1>12, <1>13 DEF CInv, TasksOK

(* A fatal signal is injected: the group becomes unstable. *)
LEMMA DeliverPreserves ==
  ASSUME LInv, TInv, CInv, NEW t, DeliverSignal(t)
  PROVE  CInv' /\ NothingLost
<1>0. /\ pc = "run" /\ t = current_ /\ wait_status[t] # "exit" /\ ~unstable[t]
      /\ event[t] = "delivery" /\ Handling(t, event[t])
  BY Zenon DEF DeliverSignal, Handling
<1>1. /\ t \in Task /\ t \in registered /\ registered \subseteq Task
      /\ t \notin unborn /\ t # NoTask /\ is_stopped[t]
      /\ ~detected[t] /\ kernel_event[t] \in {"none", "exit"} /\ ~emulated_stop[t]
      /\ StatusOK(t) /\ SchedOK(t) /\ ExecOK(t)
  BY Zenon, <1>0, HandledTask
<1>2. /\ detail[t] = "sigfatal" /\ ResumeExecution(t)
      /\ unstable' = [u \in Task |-> unstable[u] \/ u \in Group(t)]
      /\ Kill(Group(t)) /\ UNCHANGED emulated_stop
      /\ event' = [event EXCEPT ![t] = "user"]
  BY Zenon, <1>1 DEF DeliverSignal, StatusOK
<1>3. /\ last_task_switchable' = "AllowSwitch" /\ pc' = "step"
      /\ UNCHANGED <<detail, sigcont, panic, stable_exit, current_, in_exec_tgid, unborn,
                     registered, task_round_robin_queue>>
  BY Zenon, <1>2 DEF DeliverSignal, DeliverySwitchable, SignalFrame, qvars
<1>4. /\ ~is_stopped'[t] /\ wait_status'[t] = "none" /\ kernel_event'[t] = "none"
      /\ detected'[t] <=> kernel_event[t] = "exit"
      /\ \A u \in Task \ {t} :
            /\ is_stopped'[u] = is_stopped[u] /\ wait_status'[u] = wait_status[u]
            /\ detected'[u] = detected[u] /\ kernel_event'[u] = kernel_event[u]
  BY Zenon, <1>1, <1>2, Resumed
<1>5. in_exec_tgid = NoTask
  BY Zenon, <1>0, HandledStatus
<1>6. /\ event'[t] = "user" /\ unstable'[t]
      /\ \A u \in Task \ {t} : event'[u] = event[u]
      /\ \A u \in Task : unstable'[u] = unstable[u] \/ (unstable'[u] /\ u \in registered)
  <2>1. event \in [Task -> Events] /\ unstable \in [Task -> BOOLEAN]
    BY Zenon DEF TInv, TTypeOK
  <2>2. event'[t] = "user" /\ \A u \in Task \ {t} : event'[u] = event[u]
    BY Zenon, <1>1, <1>2, <2>1
  <2>3. t \in Group(t)
    BY Zenon, <1>1 DEF Group
  <2>4. unstable'[t]
    BY Zenon, <1>1, <1>2, <2>3
  <2>5. ASSUME NEW u \in Task
        PROVE  unstable'[u] = unstable[u] \/ (unstable'[u] /\ u \in registered)
    <3>1. CASE u \in Group(t)
      BY Zenon, <1>2, <3>1 DEF Group
    <3>2. CASE u \notin Group(t)
      <4>1. unstable'[u] <=> unstable[u]
        BY Zenon, <1>2, <3>2
      <4>2. unstable'[u] \in BOOLEAN /\ unstable[u] \in BOOLEAN
        BY Zenon, <1>2, <2>1
      <4> QED BY <4>1, <4>2
    <3> QED BY <3>1, <3>2
  <2> QED BY Zenon, <2>2, <2>4, <2>5
<1>7. \A u \in Task : u \in killed' => u \in killed \/ (~Dying(u) /\ detail[u] # "execve_moved")
  BY Zenon, <1>2 DEF Kill
<1>8. NothingLost
  BY Zenon, <1>0, <1>1, <1>4 DEF NothingLost
<1>9. ASSUME NEW u \in Task PROVE (StatusOK(u) /\ SchedOK(u) /\ ExecOK(u))'
  <2>1. CASE u = t
    <3>1. StatusOK(t)'
      BY Zenon, <1>1, <1>2, <1>3, <1>4, <1>6, <1>7
         DEF StatusOK, Fits, FromUser, FromSyscall, Dying
    <3>2. SchedOK(t)'
      BY Zenon, <1>1, <1>3, <1>4, <1>6 DEF SchedOK
    <3>3. ExecOK(t)'
      BY Zenon, <1>0, <1>1, <1>2, <1>3, <1>6 DEF ExecOK, Execing
    <3> QED BY Zenon, <2>1, <3>1, <3>2, <3>3
  <2>2. CASE u # t
    <3>1. Quiet(u)
      BY Zenon, <1>0, <2>2, QuietOthers
    <3>2. Untouched(u)
      BY Zenon, <1>2, <1>3, <1>4, <1>6, <1>7, <2>2 DEF Untouched
    <3> QED BY Zenon, <3>1, <3>2, OtherTask
  <2> QED BY <2>1, <2>2
<1>10. ExecEvents'
  <2>1. ASSUME NEW u \in registered
        PROVE  /\ Execing(u)' => Execing(u)
               /\ kernel_event'[u] = "exec" \/ wait_status'[u] = "exec" =>
                     kernel_event[u] = "exec" \/ wait_status[u] = "exec"
    BY Zenon, <1>1, <1>3, <1>4, <1>6 DEF Execing
  <2> QED BY Zenon, <1>3, <2>1, ExecEventsKept
<1>11. ControlOK' /\ QueueOK' /\ InExecOK'
  BY Zenon, <1>0, <1>1, <1>3, <1>5
     DEF CInv, ControlOK, QueueOK, QueueEmpty, Looping, Committed, InExecOK
<1> QED BY Zenon, <1>8, <1>9, <1>10, <1>11 DEF CInv, TasksOK

(* An event of a task in an unstable exit is dropped. *)
LEMMA IgnorePreserves ==
  ASSUME LInv, TInv, CInv, IgnoreUnstable
  PROVE  CInv' /\ NothingLost
<1>0. /\ pc = "run" /\ unstable[current_] /\ last_task_switchable' = "AllowSwitch"
      /\ DontContinue(current_) /\ pc' = "step"
      /\ UNCHANGED <<unstable, stable_exit, emulated_stop, event, detail, sigcont, current_,
                     in_exec_tgid, panic, unborn, killed, registered, task_round_robin_queue>>
  BY Zenon DEF IgnoreUnstable, qvars, tvars
<1>1. PICK t \in Task : t = current_
  BY Zenon, <1>0, HandledTask
<1>2. /\ t \in registered /\ registered \subseteq Task /\ t \notin unborn /\ t # NoTask
      /\ is_stopped[t] /\ StatusOK(t) /\ SchedOK(t) /\ ExecOK(t)
      /\ in_exec_tgid # NoTask => QueueEmpty
  BY Zenon, <1>0, <1>1, HandledTask
<1>3. /\ wait_status'[t] = "none" /\ UNCHANGED <<is_stopped, detected, kernel_event>>
      /\ \A u \in Task \ {t} : wait_status'[u] = wait_status[u]
  BY Zenon, <1>0, <1>1, Consumed
<1>4. NothingLost
  BY Zenon, <1>0, <1>1, <1>2, <1>3 DEF NothingLost
<1>5. ASSUME NEW u \in Task PROVE (StatusOK(u) /\ SchedOK(u) /\ ExecOK(u))'
  <2>1. CASE u = t
    BY Zenon, <1>0, <1>1, <1>2, <1>3, <2>1
       DEF StatusOK, SchedOK, ExecOK, Fits, FromUser, FromSyscall, Dying, Execing
  <2>2. CASE u # t
    <3>1. Quiet(u)
      BY Zenon, <1>1, <2>2, QuietOthers
    <3>2. Untouched(u)
      BY Zenon, <1>0, <1>3, <2>2 DEF Untouched
    <3> QED BY Zenon, <3>1, <3>2, OtherTask
  <2> QED BY <2>1, <2>2
<1>6. ExecEvents'
  <2>1. ASSUME NEW u \in registered
        PROVE  kernel_event'[u] = "exec" \/ wait_status'[u] = "exec" =>
                  kernel_event[u] = "exec" \/ wait_status[u] = "exec"
    BY Zenon, <1>2, <1>3
  <2> QED BY Zenon, <1>0, <2>1, ExecEventsKept DEF Execing
<1>7. ControlOK' /\ QueueOK' /\ InExecOK'
  BY Zenon, <1>0, <1>1, <1>2
     DEF CInv, ControlOK, QueueOK, QueueEmpty, Looping, Committed, InExecOK
<1> QED BY Zenon, <1>4, <1>5, <1>6, <1>7 DEF CInv, TasksOK

(* Nothing leaves an empty queue. *)
LEMMA RemovedFromEmpty ==
  ASSUME NEW t, RemoveTask(t), QueueEmpty
  PROVE  task_round_robin_queue' = <<>>
<1>1. t \notin Queued
  BY DEF QueueEmpty, Queued
<1> QED BY Zenon, <1>1 DEF RemoveTask, QueueEmpty

(* A task is destroyed; unless its exit was announced its group is unstable. *)
LEMMA ExitPreserves ==
  ASSUME LInv, TInv, CInv, HandlePtraceExitEvent
  PROVE  CInv' /\ NothingLost
<1>0. /\ pc = "run" /\ wait_status[current_] = "exit" /\ pc' = "step"
      /\ unstable' = [u \in Task |-> \/ unstable[u]
                                     \/ ~stable_exit[current_] /\ u \in Group(current_)]
      /\ RemoveTask(current_) /\ current_' = NoTask
      /\ in_exec_tgid' = IF DestroyedLast(current_) THEN NoTask ELSE in_exec_tgid
      /\ wait_status' = [wait_status EXCEPT ![current_] = "none"]
      /\ kernel_event' = [kernel_event EXCEPT ![current_] = "none"]
      /\ killed' = killed \ {current_} /\ sigcont' \subseteq sigcont
      /\ UNCHANGED <<is_stopped, detected, stable_exit, emulated_stop, event, detail, panic,
                     unborn>>
  BY Zenon DEF HandlePtraceExitEvent, OnDestroyTask
<1>1. PICK t \in Task : t = current_
  BY Zenon, <1>0, HandledTask
<1>2. /\ t \in registered /\ registered \subseteq Task /\ t \notin unborn /\ t # NoTask
      /\ is_stopped[t] /\ ~detected[t] /\ detail[t] # "execve_moved"
      /\ StatusOK(t) /\ SchedOK(t) /\ ExecOK(t)
      /\ in_exec_tgid # NoTask => QueueEmpty
  BY Zenon, <1>0, <1>1, HandledTask
<1>3. registered' = registered \ {t}
  BY Zenon, <1>0, <1>1 DEF RemoveTask
<1>4. /\ wait_status'[t] = "none" /\ kernel_event'[t] = "none"
      /\ \A u \in Task \ {t} : /\ wait_status'[u] = wait_status[u]
                               /\ kernel_event'[u] = kernel_event[u]
  BY Zenon, <1>0, <1>1 DEF TInv, WTypeOK
<1>5. ASSUME NEW u \in Task
      PROVE  unstable'[u] = unstable[u] \/ (unstable'[u] /\ u \in registered)
  <2>1. CASE u \in Group(t) /\ ~stable_exit[t]
    BY Zenon, <1>0, <1>1, <2>1 DEF Group
  <2>2. CASE ~(u \in Group(t) /\ ~stable_exit[t])
    <3>1. unstable'[u] <=> unstable[u]
      BY Zenon, <1>0, <1>1, <2>2
    <3>2. unstable'[u] \in BOOLEAN /\ unstable[u] \in BOOLEAN
      BY Zenon, <1>0 DEF TInv, TTypeOK
    <3> QED BY <3>1, <3>2
  <2> QED BY <2>1, <2>2
<1>6. ASSUME NEW u \in registered, u # t, Execing(u) PROVE in_exec_tgid' = in_exec_tgid
  <2>1. in_exec_tgid = Tgid[u]
    BY Zenon, <1>2, <1>6 DEF CInv, TasksOK, ExecOK
  <2>2. Tgid[u] = Tgid[t] => u \in Group(t)
    BY Zenon DEF Group
  <2> QED BY Zenon, <1>0, <1>1, <1>6, <2>1, <2>2 DEF DestroyedLast
<1>7. NothingLost
  BY Zenon, <1>2, <1>3, <1>4 DEF NothingLost
<1>8. ASSUME NEW u \in Task PROVE (StatusOK(u) /\ SchedOK(u) /\ ExecOK(u))'
  <2>1. CASE u = t
    <3>1. t \notin registered'
      BY Zenon, <1>3
    <3> QED BY Zenon, <1>0, <1>1, <1>2, <1>4, <2>1, <3>1
               DEF StatusOK, SchedOK, ExecOK, Fits, FromUser, FromSyscall, Dying
  <2>2. CASE u # t
    <3>1. Quiet(u)
      BY Zenon, <1>1, <2>2, QuietOthers
    <3>2. Untouched(u)
      BY Zenon, <1>0, <1>3, <1>4, <1>5, <1>6, <2>2 DEF Untouched
    <3> QED BY Zenon, <3>1, <3>2, OtherTask
  <2> QED BY <2>1, <2>2
<1>9. ExecEvents'
  <2>1. \A u, v \in registered' : Execing(u)' /\ Execing(v)' => u = v
    BY Zenon, <1>0, <1>3 DEF CInv, ExecEvents, Execing
  <2>2. ASSUME NEW u \in registered', kernel_event'[u] = "exec" \/ wait_status'[u] = "exec"
        PROVE  ExecBy(u)'
    <3>1. u \in registered /\ u # t /\ (kernel_event[u] = "exec" \/ wait_status[u] = "exec")
      BY Zenon, <1>2, <1>3, <1>4, <2>2
    <3>2. PICK x \in registered :
            /\ Group(u) = {u, x}
            /\ detail[x] = IF x = u THEN "execve_alone" ELSE "execve_moved"
      BY Zenon, <3>1 DEF CInv, ExecEvents, ExecBy
    <3>3. x # t
      BY Zenon, <1>2, <3>1, <3>2
    <3>4. Group(u)' = Group(u) /\ x \in registered'
      BY Zenon, <1>3, <3>1, <3>2, <3>3 DEF Group
    <3> QED BY Zenon, <1>0, <3>2, <3>4 DEF ExecBy
  <2> QED BY Zenon, <2>1, <2>2 DEF ExecEvents
<1>10. in_exec_tgid' # NoTask => task_round_robin_queue' = <<>>
  BY Zenon, <1>0, <1>2, RemovedFromEmpty
<1>11. ControlOK' /\ QueueOK' /\ InExecOK'
  BY Zenon, <1>0, <1>10
     DEF CInv, ControlOK, QueueOK, QueueEmpty, Looping, Committed, InExecOK
<1> QED BY Zenon, <1>7, <1>8, <1>9, <1>11 DEF CInv, TasksOK

(***************************************************************************)
(* The exec event: the thread in execve goes on, under its own or the old  *)
(* leader's tid; a leader that got the event for it is destroyed.          *)
(***************************************************************************)
LEMMA ExecPreserves ==
  ASSUME LInv, TInv, CInv, NEW t, HandleExecEvent(t)
  PROVE  CInv' /\ NothingLost
<1>0. /\ pc = "run" /\ t = current_ /\ wait_status[t] = "exec" /\ ~unstable[t]
      /\ last_task_switchable' = "PreventSwitch"
      /\ UNCHANGED <<stable_exit, emulated_stop, event, sigcont, in_exec_tgid, unborn>>
  BY Zenon DEF HandleExecEvent, Handling, StatusIs
<1>1. /\ t \in Task /\ t \in registered /\ registered \subseteq Task
      /\ t \notin unborn /\ t # NoTask /\ is_stopped[t]
      /\ ~detected[t] /\ kernel_event[t] \in {"none", "exit"}
      /\ detail[t] # "execve_moved" /\ StatusOK(t) /\ ExecOK(t)
      /\ in_exec_tgid # NoTask => QueueEmpty
  BY Zenon, <1>0, HandledTask
<1>2. PICK x \in registered : /\ Group(t) = {t, x} /\ Execing(x)
                              /\ detail[x] = IF x = t THEN "execve_alone" ELSE "execve_moved"
  BY Zenon, <1>0, <1>1, ExecingThread
<1>3. /\ x \in Task /\ x \notin unborn /\ StatusOK(x) /\ ExecOK(x)
      /\ event[x] = "processing" /\ in_exec_tgid = Tgid[x] /\ QueueEmpty
      /\ x # t => /\ ~is_stopped[x] /\ kernel_event[x] = "none" /\ x \notin killed
                  /\ wait_status[x] = "none"
      /\ ~stable_exit[x] /\ ~emulated_stop[x]
  <2>1. x \in Task /\ StatusOK(x) /\ ExecOK(x) /\ x \notin unborn
    BY Zenon, <1>1 DEF CInv, TasksOK, LInv, NoDanglingTask
  <2>2. in_exec_tgid = Tgid[x] /\ event[x] = "processing"
    BY Zenon, <1>2, <2>1 DEF ExecOK
  <2>3. in_exec_tgid # NoTask
    BY <2>1, <2>2, TgidAssumption, TaskAssumption DEF NoTask
  <2>4. x # t => /\ ~is_stopped[x] /\ kernel_event[x] = "none" /\ x \notin killed
                 /\ wait_status[x] = "none"
    BY Zenon, <1>2, <2>1 DEF ExecOK, StatusOK
  <2>5. ~stable_exit[x] /\ ~emulated_stop[x]
    BY Zenon, <1>2, <2>1 DEF ExecOK, StatusOK
  <2> QED BY Zenon, <1>1, <2>1, <2>2, <2>3, <2>4, <2>5
(* The handler's choice is x. *)
<1>4. /\ current_' = x
      /\ unstable' = [unstable EXCEPT ![x] = FALSE]
      /\ detail' = [detail EXCEPT ![x] = "execve_done"]
      /\ is_stopped' = [is_stopped EXCEPT ![x] = FALSE]
      /\ wait_status' = [wait_status EXCEPT ![t] = "none", ![x] = "none"]
      /\ detected' = [detected EXCEPT ![x] = kernel_event[t] = "exit"]
      /\ kernel_event' = [kernel_event EXCEPT ![t] = "none", ![x] = "none"]
      /\ pc' = "step" /\ UNCHANGED panic
      /\ IF x = t THEN UNCHANGED <<qvars, killed>>
         ELSE /\ RemoveTask(t)
              /\ killed' = IF t \in killed THEN (killed \ {t}) \cup {x} ELSE killed
  <2>1. CASE x = t
    <3>1. Group(t) = {t}
      BY Zenon, <1>2, <2>1
    <3> QED BY Zenon, <1>3, <2>1, <3>1 DEF HandleExecEvent
  <2>2. CASE x # t
    <3>1. Group(t) # {t} /\ Group(t) \ {t} = {x}
      BY <1>2, <2>2
    <3> QED BY Zenon, <1>3, <2>2, <3>1 DEF HandleExecEvent
  <2> QED BY <2>1, <2>2
<1>5. /\ ~unstable'[x] /\ detail'[x] = "execve_done" /\ ~is_stopped'[x]
      /\ wait_status'[x] = "none" /\ kernel_event'[x] = "none"
      /\ detected'[x] <=> kernel_event[t] = "exit"
      /\ wait_status'[t] = "none" /\ kernel_event'[t] = "none"
      /\ t # x => /\ is_stopped'[t] = is_stopped[t] /\ detected'[t] = detected[t]
                  /\ detail'[t] = detail[t] /\ unstable'[t] = unstable[t]
      /\ \A u \in Task \ {t, x} :
            /\ unstable'[u] = unstable[u] /\ detail'[u] = detail[u]
            /\ is_stopped'[u] = is_stopped[u] /\ wait_status'[u] = wait_status[u]
            /\ detected'[u] = detected[u] /\ kernel_event'[u] = kernel_event[u]
  <2>1. /\ is_stopped \in [Task -> BOOLEAN] /\ detected \in [Task -> BOOLEAN]
        /\ unstable \in [Task -> BOOLEAN] /\ detail \in [Task -> Details]
        /\ wait_status \in [Task -> Stops \cup {"none"}]
        /\ kernel_event \in [Task -> Stops \cup {"none"}]
    BY Zenon DEF TInv, WTypeOK, TTypeOK
  <2>2. /\ ~unstable'[x] /\ detail'[x] = "execve_done" /\ ~is_stopped'[x]
        /\ detected'[x] <=> kernel_event[t] = "exit"
        /\ \A u \in Task \ {x} : /\ unstable'[u] = unstable[u] /\ detail'[u] = detail[u]
                                 /\ is_stopped'[u] = is_stopped[u] /\ detected'[u] = detected[u]
    BY Zenon, <1>3, <1>4, <2>1
  <2>3. /\ wait_status'[x] = "none" /\ kernel_event'[x] = "none"
        /\ wait_status'[t] = "none" /\ kernel_event'[t] = "none"
        /\ \A u \in Task \ {t, x} :
              wait_status'[u] = wait_status[u] /\ kernel_event'[u] = kernel_event[u]
    BY Zenon, <1>1, <1>3, <1>4, <2>1
  <2> QED BY Zenon, <1>1, <2>2, <2>3
<1>6. /\ registered' = IF x = t THEN registered ELSE registered \ {t}
      /\ task_round_robin_queue' = <<>>
      /\ x \in killed' => t \in killed
      /\ t # x => t \notin killed'
      /\ \A u \in Task \ {t, x} : u \in killed' => u \in killed
  <2>1. CASE x = t
    BY Zenon, <1>3, <1>4, <2>1 DEF qvars, QueueEmpty
  <2>2. CASE x # t
    <3>1. registered' = registered \ {t} /\ task_round_robin_queue' = <<>>
      BY Zenon, <1>3, <1>4, <2>2, RemovedFromEmpty DEF RemoveTask
    <3>2. killed' = IF t \in killed THEN (killed \ {t}) \cup {x} ELSE killed
      BY Zenon, <1>4, <2>2
    <3> QED BY Zenon, <1>3, <2>2, <3>1, <3>2
  <2> QED BY <2>1, <2>2
<1>7. NothingLost
  BY ZenonT(60), <1>0, <1>1, <1>3, <1>5, <1>6 DEF NothingLost
<1>8. ASSUME NEW u \in Task PROVE (StatusOK(u) /\ SchedOK(u) /\ ExecOK(u))'
  <2>1. CASE u = x
    <3>1. StatusOK(x)'
      BY Zenon, <1>0, <1>1, <1>3, <1>5, <1>6 DEF StatusOK, Fits, FromUser, FromSyscall, Dying
    <3>2. SchedOK(x)'
      BY Zenon, <1>0, <1>3, <1>5 DEF SchedOK, FromUser
    <3>3. ExecOK(x)'
      BY Zenon, <1>0, <1>3, <1>5 DEF ExecOK
    <3> QED BY Zenon, <2>1, <3>1, <3>2, <3>3
  <2>2. CASE u = t /\ t # x
    <3>1. t \notin registered'
      BY Zenon, <1>6, <2>2
    <3>2. StatusOK(t)'
      BY Zenon, <1>0, <1>1, <1>5, <1>6, <2>2 DEF StatusOK, Fits, FromUser, FromSyscall, Dying
    <3>3. SchedOK(t)' /\ ExecOK(t)'
      BY Zenon, <1>0, <1>1, <1>5, <2>2, <3>1 DEF SchedOK, ExecOK, FromUser
    <3> QED BY Zenon, <2>2, <3>2, <3>3
  <2>3. CASE u # x /\ u # t
    <3>1. Quiet(u)
      BY Zenon, <1>0, <2>3, QuietOthers
    <3>2. Untouched(u)
      BY Zenon, <1>0, <1>5, <1>6, <2>3 DEF Untouched
    <3> QED BY Zenon, <3>1, <3>2, OtherTask
  <2> QED BY <2>1, <2>2, <2>3
<1>9. ExecEvents'
  <2>1. \A u \in registered' : Execing(u)' => Execing(u)
    <3>1. ASSUME NEW u \in registered', u # x, u # t PROVE Execing(u)' => Execing(u)
      BY Zenon, <1>0, <1>1, <1>5, <1>6, <3>1 DEF Execing
    <3> QED BY Zenon, <1>2, <1>6, <3>1
  <2>2. \A u \in registered' : kernel_event'[u] # "exec" /\ wait_status'[u] # "exec"
    <3>1. SUFFICES ASSUME NEW u \in registered', u # x, u # t,
                          kernel_event[u] = "exec" \/ wait_status[u] = "exec"
                   PROVE  FALSE
      BY Zenon, <1>1, <1>5, <1>6
    <3>2. u \in registered
      BY Zenon, <1>6
    <3>3. PICK y \in registered : /\ Group(u) = {u, y} /\ Execing(y)
      BY Zenon, <3>1, <3>2, ExecingThread
    <3>4. y = x
      BY Zenon, <1>2, <3>3 DEF CInv, ExecEvents
    <3>5. u \in Group(t)
      <4>1. Tgid[x] = Tgid[u]
        BY Zenon, <3>3, <3>4 DEF Group
      <4>2. Tgid[x] = Tgid[t]
        BY Zenon, <1>2 DEF Group
      <4> QED BY Zenon, <3>2, <4>1, <4>2 DEF Group
    <3> QED BY Zenon, <1>2, <3>1, <3>5
  <2>3. registered' \subseteq registered
    BY Zenon, <1>6
  <2> QED BY Zenon, <2>1, <2>2, <2>3 DEF CInv, ExecEvents
<1>10. ControlOK' /\ QueueOK' /\ InExecOK'
  BY ZenonT(60), <1>0, <1>3, <1>4, <1>5, <1>6
     DEF CInv, ControlOK, QueueOK, QueueEmpty, Looping, Committed, InExecOK
<1> QED BY Zenon, <1>7, <1>8, <1>9, <1>10 DEF CInv, TasksOK

(* Without emulated stops task_continue resumes. *)
LEMMA Continued ==
  ASSUME LInv, TInv, CInv, NEW t, pc = "run", t = current_, TaskContinue(t)
  PROVE  pc' = "step" /\ ResumeExecution(t) /\ UNCHANGED panic
<1>1. ~emulated_stop[t]
  BY Zenon, HandledTask
<1> QED BY Zenon, <1>1 DEF TaskContinue

(* The assertion of schedule_one_round_robin. *)
LEMMA CanBeQueued ==
  ASSUME LInv, TInv, CInv, pc = "run"
  PROVE  IsFront(current_) \/ ~in_round_robin_queue[current_]
<1>1. CASE QueueEmpty
  <2>1. current_ \notin Queued
    BY <1>1 DEF QueueEmpty, Queued
  <2>2. current_ \in Task /\ current_ \in registered
    BY Zenon, HandledTask
  <2> QED BY Zenon, <2>1, <2>2 DEF LInv, QInv, FiledOnce
<1> QED BY Zenon, <1>1, HandledTask

(* A change of priority leaves the queue alone. *)
LEMMA PriorityKeepsQueue ==
  ASSUME NEW u, NEW v, NEW stable, UpdateTaskPriority(u, v, stable)
  PROVE  UNCHANGED <<registered, task_round_robin_queue>>
<1>1. PICK p : SetPriorities({u}, p)
  BY DEF UpdateTaskPriority
<1> QED BY Zenon, <1>1 DEF SetPriorities

(* A system call is entered. *)
LEMMA EnterPreserves ==
  ASSUME LInv, TInv, CInv, NEW t \in registered, NEW s, NEW switchable,
         Enter(t, s, switchable), TaskContinue(t),
         in_exec_tgid' = IF s = "execve" THEN Tgid[t] ELSE in_exec_tgid,
         \/ switchable = "AllowSwitch"
         \/ UNCHANGED <<task_round_robin_queue, in_exec_tgid>>,
         \/ UNCHANGED <<registered, unborn>>
         \/ \E u \in unborn : registered' = registered \cup {u} /\ unborn' = unborn \ {u},
         \/ UNCHANGED stable_exit
         \/ /\ stable_exit' = [stable_exit EXCEPT ![t] = TRUE]
            /\ s \in {"exit", "exit_group"}
  PROVE  CInv' /\ NothingLost
<1>0. /\ pc = "run" /\ t = current_ /\ Handling(t, "user") /\ s \in Syscalls
      /\ event' = [event EXCEPT ![t] = "processing"]
      /\ detail' = [detail EXCEPT ![t] = s]
      /\ last_task_switchable' = switchable
      /\ UNCHANGED <<unstable, emulated_stop, sigcont, current_, killed>>
  BY Zenon DEF Enter, Handling
<1>1. t \in Task /\ registered \subseteq Task /\ unborn \subseteq Task /\ t \notin unborn
  BY Zenon DEF LInv, QInv, QTypeOK, NoDanglingTask
<1>2. pc' = "step" /\ ResumeExecution(t) /\ UNCHANGED panic
  BY Zenon, <1>0, Continued
<1>3. /\ event'[t] = "processing" /\ detail'[t] = s /\ s \in AllSyscalls
      /\ \A u \in Task \ {t} : event'[u] = event[u] /\ detail'[u] = detail[u]
  BY Zenon, <1>0, <1>1, SyscallsAssumption DEF TInv, TTypeOK
<1>4. /\ \A u \in Task \ {t} : stable_exit'[u] = stable_exit[u]
      /\ stable_exit'[t] => stable_exit[t] \/ s \in {"exit", "exit_group"}
  <2>1. stable_exit \in [Task -> BOOLEAN]
    BY Zenon DEF TInv, TTypeOK
  <2> QED BY Zenon, <1>1, <2>1
<1>5. /\ t \in registered' /\ t \notin unborn' /\ registered' \subseteq Task
      /\ \A u \in Task \ {t} : /\ u \in unborn' => u \in unborn
                               /\ u \in registered' => u \in registered \cup unborn
  BY Zenon, <1>1
<1>6. /\ in_exec_tgid' = IF event'[t] = "processing" /\ detail'[t] = "execve"
                          THEN Tgid[t] ELSE in_exec_tgid
      /\ \/ last_task_switchable' = "AllowSwitch"
         \/ UNCHANGED <<task_round_robin_queue, in_exec_tgid>>
  BY Zenon, <1>0, <1>3
<1>7. /\ event'[t] = "processing" /\ detail'[t] \in AllSyscalls
      /\ stable_exit'[t] => stable_exit[t] \/ detail'[t] \in {"exit", "exit_group"}
  BY Zenon, <1>3, <1>4
<1>8. \A u \in Task \ {t} : /\ event'[u] = event[u] /\ detail'[u] = detail[u]
                            /\ stable_exit'[u] = stable_exit[u]
                            /\ u \in unborn' => u \in unborn
                            /\ u \in registered' => u \in registered \cup unborn
  BY Zenon, <1>3, <1>4, <1>5
<1> QED BY Zenon, <1>0, <1>2, <1>5, <1>6, <1>7, <1>8, ResumePreserves

(* Every handler of record_step. *)
LEMMA HandlePreserves ==
  ASSUME LInv, TInv, CInv, NEW t \in registered, Handle(t)
  PROVE  CInv' /\ NothingLost
<1>0. t \in Task /\ t \notin unborn
  BY Zenon DEF LInv, QInv, QTypeOK, NoDanglingTask
<1>1. CASE HandleExecEvent(t)
  BY Zenon, <1>1, ExecPreserves
<1>2. CASE ContinueUser(t) \/ DeferTimeSlice(t)
  <2>1. /\ Handling(t, "user") /\ pc = "run" /\ t = current_ /\ event[t] = "user"
        /\ TaskContinue(t) /\ last_task_switchable' = "PreventSwitch"
        /\ UNCHANGED <<qvars, tvars, current_, in_exec_tgid, unborn, killed>>
    BY Zenon, <1>2 DEF ContinueUser, DeferTimeSlice, Handling
  <2>2. pc' = "step" /\ ResumeExecution(t) /\ UNCHANGED panic
    BY Zenon, <2>1, Continued
  <2>3. /\ UNCHANGED <<unstable, stable_exit, emulated_stop, event, detail, sigcont, registered,
                       task_round_robin_queue>>
        /\ registered \subseteq Task
    BY Zenon, <2>1 DEF qvars, tvars, LInv, QInv, QTypeOK
  <2> QED BY Zenon, <1>0, <2>1, <2>2, <2>3, ResumePreserves
<1>3. CASE HandleTimeSlice(t)
  <2>1. /\ Handling(t, event[t]) /\ pc = "run" /\ t = current_ /\ event[t] = "user"
        /\ event' = [event EXCEPT ![t] = "sched"] /\ DontContinue(t)
        /\ last_task_switchable' = "AllowSwitch"
        /\ UNCHANGED <<unstable, stable_exit, emulated_stop, detail, sigcont, current_,
                       in_exec_tgid, unborn, killed>>
    BY Zenon, <1>3 DEF HandleTimeSlice, Handling
  <2>2. pc' = "step" /\ UNCHANGED <<panic, registered>>
    <3>1. IsFront(t) \/ ~in_round_robin_queue[t]
      BY Zenon, <2>1, CanBeQueued
    <3> QED BY Zenon, <1>3, <3>1 DEF HandleTimeSlice, ScheduleOneRoundRobin, qvars
  <2>3. event'[t] = "sched" /\ \A u \in Task \ {t} : event'[u] = event[u]
    BY Zenon, <1>0, <2>1 DEF TInv, TTypeOK
  <2>4. StatusOK(t) /\ ExecOK(t)
    BY Zenon, <1>0 DEF CInv, TasksOK
  <2>5. ~stable_exit[t] /\ detail[t] \notin {"sigstop", "sigcont", "execve_alone", "execve_moved"}
    BY Zenon, <2>1, <2>4 DEF StatusOK, ExecOK
  <2>6. ~Execing(t)'
    BY Zenon, <2>3 DEF Execing
  <2> QED BY Zenon, <2>1, <2>2, <2>3, <2>5, <2>6, ConsumePreserves
<1>4. CASE TakeSignal(t) \/ SignalStateChanged(t)
  <2>1. /\ Handling(t, event[t]) /\ event[t] \in {"user", "signal"} /\ DontContinue(t)
        /\ event' = [event EXCEPT ![t] = IF event[t] = "user" THEN "signal" ELSE "delivery"]
        /\ \/ UNCHANGED detail
           \/ /\ detail' = [detail EXCEPT ![t] = wait_status[t]]
              /\ wait_status[t] \in Signals /\ event[t] = "user"
        /\ last_task_switchable' = "PreventSwitch" /\ pc' = "step"
        /\ UNCHANGED <<unstable, stable_exit, emulated_stop, sigcont, current_, in_exec_tgid,
                       unborn, killed, panic, qvars>>
    BY Zenon, <1>4 DEF TakeSignal, SignalStateChanged, SignalFrame, Handling, StatusIs
  <2>2. /\ in_exec_tgid = NoTask
        /\ event[t] = "user" => wait_status[t] \in FromUser \cup {"none"}
    BY Zenon, <2>1, HandledStatus
  <2>3. UNCHANGED <<registered, task_round_robin_queue>>
    BY Zenon, <2>1 DEF qvars
  <2>4. /\ event'[t] \in {"signal", "delivery"}
        /\ \A u \in Task \ {t} : event'[u] = event[u] /\ detail'[u] = detail[u]
        /\ detail'[t] \in {detail[t], "sigfatal"}
    BY Zenon, <1>0, <2>1, <2>2 DEF TInv, TTypeOK, Signals, FromUser
  <2>5. StatusOK(t) /\ ExecOK(t)
    BY Zenon, <1>0 DEF CInv, TasksOK
  <2>6. ~stable_exit[t] /\ detail[t] \notin {"sigstop", "sigcont", "execve_alone", "execve_moved"}
    BY Zenon, <2>1, <2>5 DEF StatusOK, ExecOK
  <2>7. ~Execing(t)'
    BY Zenon, <2>4 DEF Execing
  <2> QED BY Zenon, <2>1, <2>2, <2>3, <2>4, <2>6, <2>7, ConsumePreserves
<1>5. CASE DeliverSignal(t)
  BY Zenon, <1>5, DeliverPreserves
<1>6. CASE EnterPlain(t)
  <2>1. /\ Enter(t, "blocking", "AllowSwitch") \/ Enter(t, "quick", "PreventSwitch")
        /\ TaskContinue(t)
        /\ UNCHANGED <<in_exec_tgid, stable_exit, unborn, registered, task_round_robin_queue>>
    BY Zenon, <1>6 DEF EnterPlain, qvars
  <2>2. CASE Enter(t, "blocking", "AllowSwitch")
    BY Zenon, <2>1, <2>2, EnterPreserves
  <2>3. CASE Enter(t, "quick", "PreventSwitch")
    BY Zenon, <2>1, <2>3, EnterPreserves
  <2> QED BY Zenon, <2>1, <2>2, <2>3
<1>7. CASE EnterSchedYield(t)
  <2>1. Enter(t, "sched_yield", "AllowSwitch") /\ pc = "run" /\ t = current_
    BY Zenon, <1>7 DEF EnterSchedYield, Enter, Handling
  <2>2. IsFront(t) \/ ~in_round_robin_queue[t]
    BY Zenon, <2>1, CanBeQueued
  <2>3. /\ TaskContinue(t) /\ UNCHANGED <<in_exec_tgid, stable_exit, unborn, registered>>
    BY Zenon, <1>7, <2>2 DEF EnterSchedYield, ScheduleOneRoundRobin
  <2> QED BY Zenon, <2>1, <2>3, EnterPreserves
<1>8. CASE EnterExecve(t)
  <2>1. /\ Enter(t, "execve", "AllowSwitch") /\ Handling(t, event[t]) /\ event[t] = "user"
        /\ UNCHANGED <<stable_exit, unborn, registered, task_round_robin_queue>>
    BY Zenon, <1>8 DEF EnterExecve, Enter, Handling, qvars
  <2>2. in_exec_tgid = NoTask
    BY Zenon, <2>1, HandledStatus
  <2>3. in_exec_tgid' = Tgid[t] /\ TaskContinue(t)
    BY Zenon, <1>8, <2>2 DEF EnterExecve
  <2> QED BY Zenon, <2>1, <2>3, EnterPreserves
<1>9. CASE EnterExit(t)
  <2>1. TaskContinue(t) /\ UNCHANGED <<in_exec_tgid, unborn>>
    BY Zenon, <1>9 DEF EnterExit
  <2>2. /\ StableExit(t) => UNCHANGED <<registered, task_round_robin_queue>>
        /\ StableExit(t) => stable_exit' = [stable_exit EXCEPT ![t] = TRUE]
    BY Zenon, PriorityKeepsQueue DEF StableExit
  <2>3. CASE Enter(t, "exit", "AllowSwitch") /\ StableExit(t)
    BY Zenon, <2>1, <2>2, <2>3, EnterPreserves
  <2>4. CASE Enter(t, "exit_group", "AllowSwitch") /\ StableExit(t)
    BY Zenon, <2>1, <2>2, <2>4, EnterPreserves
  <2>5. CASE Enter(t, "exit_group", "PreventSwitch") /\ UNCHANGED <<qvars, stable_exit>>
    <3>1. UNCHANGED <<registered, task_round_robin_queue>>
      BY Zenon, <2>5 DEF qvars
    <3> QED BY Zenon, <2>1, <2>5, <3>1, EnterPreserves
  <2> QED BY Zenon, <1>9, <2>3, <2>4, <2>5 DEF EnterExit
<1>10. CASE EnterClone(t)
  <2>1. /\ Enter(t, "clone", "AllowSwitch") /\ TaskContinue(t)
        /\ UNCHANGED <<in_exec_tgid, stable_exit>>
        /\ \/ UNCHANGED <<registered, unborn>>
           \/ \E u \in unborn : registered' = registered \cup {u} /\ unborn' = unborn \ {u}
    BY Zenon, <1>10 DEF EnterClone, CreateTask, qvars
  <2> QED BY Zenon, <2>1, EnterPreserves
<1>11. CASE EnterSetpriority(t)
  <2>1. /\ Enter(t, "setpriority", "PreventSwitch") /\ TaskContinue(t)
        /\ UNCHANGED <<in_exec_tgid, stable_exit, unborn, registered, task_round_robin_queue>>
    BY Zenon, <1>11, PriorityKeepsQueue DEF EnterSetpriority, qvars
  <2> QED BY Zenon, <2>1, EnterPreserves
<1>12. CASE SyscallProcessed(t)
  <2>1. /\ Handling(t, event[t]) /\ event[t] = "processing" /\ ~StatusIs(t, {"exec"})
        /\ event' = [event EXCEPT ![t] = IF wait_status[t] = "restart"
                                         THEN "restarting" ELSE "exiting"]
        /\ DontContinue(t) /\ last_task_switchable' = "PreventSwitch"
        /\ UNCHANGED <<unstable, stable_exit, emulated_stop, detail, sigcont, current_,
                       in_exec_tgid, unborn, killed, registered, task_round_robin_queue>>
    BY Zenon, <1>12 DEF SyscallProcessed, Handling, qvars
  <2>2. /\ wait_status[t] \in {"sysexit", "restart"}
        /\ detail[t] \notin {"exit", "exit_group", "execve_alone", "execve_moved"}
    BY Zenon, <2>1, HandledStatus DEF StatusIs
  <2>3. pc' = "step" /\ UNCHANGED panic
    BY Zenon, <1>12, <2>2 DEF SyscallProcessed, StatusIs, Signals
  <2>4. /\ event'[t] = IF wait_status[t] = "restart" THEN "restarting" ELSE "exiting"
        /\ \A u \in Task \ {t} : event'[u] = event[u]
    BY Zenon, <1>0, <2>1 DEF TInv, TTypeOK
  <2>5. StatusOK(t) /\ ExecOK(t)
    BY Zenon, <1>0 DEF CInv, TasksOK
  <2>6. /\ ~stable_exit[t] /\ detail[t] \notin {"sigstop", "sigcont"}
        /\ wait_status[t] = "restart" => "restart" \in Inputs
    BY Zenon, <2>2, <2>5 DEF StatusOK, ExecOK, Fits
  <2>7. Execing(t)' => Execing(t) /\ in_exec_tgid' = in_exec_tgid
    BY Zenon, <2>1 DEF Execing
  <2>8. /\ event'[t] \in {"exiting", "restarting"}
        /\ event'[t] = "restarting" => "restart" \in Inputs
        /\ \A u \in Task \ {t} : event'[u] = event[u] /\ detail'[u] = detail[u]
        /\ detail'[t] \notin {"sigstop", "sigcont", "execve_alone", "execve_moved"}
    <3>1. /\ event'[t] \in {"exiting", "restarting"}
          /\ event'[t] = "restarting" => wait_status[t] = "restart"
      BY <2>4
    <3> QED BY Zenon, <2>1, <2>2, <2>4, <2>6, <3>1
  <2> QED BY Zenon, <2>1, <2>2, <2>3, <2>6, <2>7, <2>8, ConsumePreserves
<1>13. CASE SyscallExited(t)
  <2>1. /\ Handling(t, event[t]) /\ event[t] \in {"exiting", "restarting"}
        /\ event' = [event EXCEPT ![t] = "user"] /\ detail' = [detail EXCEPT ![t] = "none"]
        /\ DontContinue(t) /\ last_task_switchable' = "AllowSwitch"
        /\ UNCHANGED <<unstable, stable_exit, emulated_stop, sigcont, current_, unborn, killed,
                       registered>>
    BY Zenon, <1>13 DEF SyscallExited, Handling, qvars
  <2>2. StatusOK(t) /\ ExecOK(t)
    BY Zenon, <1>0 DEF CInv, TasksOK
  <2>3. ~stable_exit[t] /\ detail[t] \notin {"execve_alone", "execve_moved"}
    BY Zenon, <2>1, <2>2 DEF ExecOK
  <2>4. /\ pc' = "step" /\ UNCHANGED panic
        /\ in_exec_tgid' = in_exec_tgid \/ (Execing(t) /\ in_exec_tgid' = NoTask)
    <3>1. CASE event[t] = "exiting" /\ detail[t] \in ExecStates
      <4>1. Execing(t) /\ in_exec_tgid = Tgid[t]
        BY Zenon, <2>2, <3>1 DEF ExecOK, Execing
      <4> QED BY Zenon, <1>13, <3>1, <4>1 DEF SyscallExited, DidExitExecve
    <3>2. CASE ~(event[t] = "exiting" /\ detail[t] \in ExecStates)
      BY Zenon, <1>13, <3>2 DEF SyscallExited
    <3> QED BY <3>1, <3>2
  <2>5. /\ event'[t] = "user" /\ detail'[t] = "none"
        /\ \A u \in Task \ {t} : event'[u] = event[u] /\ detail'[u] = detail[u]
    BY Zenon, <1>0, <2>1 DEF TInv, TTypeOK
  <2>6. ~Execing(t)'
    BY Zenon, <2>5 DEF Execing
  <2> QED BY Zenon, <2>1, <2>3, <2>4, <2>5, <2>6, ConsumePreserves
<1> QED BY Zenon, <1>1, <1>2, <1>3, <1>4, <1>5, <1>6, <1>7, <1>8, <1>9, <1>10, <1>11, <1>12,
           <1>13 DEF Handle

-----------------------------------------------------------------------------
(* Every step. *)
LEMMA NextControl ==
  ASSUME NoStops, LInv, TInv, CInv, [Next]_vars
  PROVE  CInv' /\ NothingLost
<1>1. CASE UNCHANGED vars
  <2>1. UNCHANGED <<qvars, svars, wvars, tvars, rvars>>
    BY Zenon, <1>1 DEF vars
  <2>2. UNCHANGED <<registered, task_round_robin_queue, current_, must_run_task, in_exec_tgid,
                    by_waitpid, pc, panic, is_stopped, wait_status, detected, kernel_event,
                    unstable, stable_exit, emulated_stop, event, detail, sigcont,
                    last_task_switchable, unborn, killed>>
    BY Zenon, <2>1 DEF qvars, svars, wvars, tvars, rvars
  <2>3. ASSUME NEW u \in Task PROVE (StatusOK(u) /\ SchedOK(u) /\ ExecOK(u))'
    <3>1. StatusOK(u) /\ SchedOK(u) /\ ExecOK(u)
      BY Zenon DEF CInv, TasksOK
    <3> QED BY Zenon, <2>2, <3>1 DEF StatusOK, SchedOK, ExecOK, Fits, Execing, Dying
  <2>4. ExecEvents'
    BY Zenon, <2>2, ExecEventsKept DEF Execing
  <2>5. ControlOK' /\ QueueOK' /\ InExecOK'
    BY Zenon, <2>2 DEF CInv, ControlOK, QueueOK, QueueEmpty, IsFront, Committed, InExecOK
  <2>6. NothingLost
    BY Zenon, <2>2 DEF NothingLost
  <2> QED BY Zenon, <2>3, <2>4, <2>5, <2>6 DEF CInv, TasksOK
<1>2. ASSUME NEW t \in registered, KernelStep(t) PROVE NothingLost
  <2>1. UNCHANGED wait_status
    BY Zenon, <1>2 DEF KernelStep, RunUser, TakeSigcont, RunSyscall, DeThread, ReportExec,
                       ReportExit, KillGroup, SendSigcont, KernelFrame, wvars
  <2>2. ASSUME NEW x, NEW what, what # "none", Report(x, what), NEW u \in Task
        PROVE  kernel_event'[u] = "none" => kernel_event[u] = "none"
    BY Zenon, <2>2 DEF Report, TInv, WTypeOK
  <2>3. ASSUME NEW u \in Task
        PROVE  kernel_event'[u] = "none" => kernel_event[u] = "none"
    <3>1. CASE RunUser(t)
      <4>1. PICK what \in {"entry", "slice"} \cup (Inputs \cap {"sigstop", "sigfatal"}) :
               Report(t, what)
        BY Zenon, <3>1 DEF RunUser
      <4>2. what # "none"
        BY Zenon, <4>1
      <4> QED BY Zenon, <2>2, <4>1, <4>2
    <3>2. CASE TakeSigcont(t)
      BY Zenon, <2>2, <3>2 DEF TakeSigcont
    <3>3. CASE RunSyscall(t)
      BY Zenon, <2>2, <3>3 DEF RunSyscall
    <3>4. CASE DeThread(t) \/ KillGroup(t) \/ SendSigcont(t)
      BY Zenon, <3>4 DEF DeThread, KillGroup, SendSigcont, wvars
    <3>5. CASE ReportExec(t)
      BY Zenon, <2>2, <3>5 DEF ReportExec
    <3>6. CASE ReportExit(t)
      BY Zenon, <2>2, <3>6 DEF ReportExit
    <3> QED BY Zenon, <1>2, <3>1, <3>2, <3>3, <3>4, <3>5, <3>6 DEF KernelStep
  <2>4. registered \subseteq Task
    BY Zenon DEF LInv, QInv, QTypeOK
  <2> QED BY Zenon, <2>1, <2>3, <2>4 DEF NothingLost
<1>3. CASE RecorderStep
  BY Zenon, <1>3, ReschedulePreserves, StepEndsPreserves, SchedulerPreserves, WaitAnyPreserves,
     ExitPreserves, IgnorePreserves, HandlePreserves DEF RecorderStep
<1> QED BY Zenon, <1>1, <1>2, <1>3, KernelPreserves, StepEndsPreserves DEF Next, Stopped

(* RInv is an inductive invariant. *)
LEMMA RInvInductive ==
  ASSUME NoStops
  PROVE  /\ Init => RInv
         /\ RInv /\ [Next]_vars => RInv' /\ NothingLost
<1>1. Init => RInv
  BY Zenon, InitLinked, InitTypes, InitControl DEF RInv
<1>2. RInv /\ [Next]_vars => RInv' /\ NothingLost
  BY Zenon, NextLinked, NextTypes, NextControl DEF RInv
<1> QED BY <1>1, <1>2


(***************************************************************************)
(* None of the recorder's assertions fails: the task reschedule returns is *)
(* the one that must run and the head of the queue, no unstable task is    *)
(* waited for, waitpid(-1) returns only what may be blocked or dying, no   *)
(* task is queued twice, and execve calls do not overlap.                  *)
(***************************************************************************)
THEOREM RecorderAssertionsHold == NoStops => (Spec => []AssertionsHold)
<1> SUFFICES ASSUME NoStops PROVE Spec => []AssertionsHold
  OBVIOUS
<1>1. Init => RInv
  BY RInvInductive
<1>2. RInv /\ [Next]_vars => RInv'
  BY RInvInductive
<1>3. RInv => AssertionsHold
  BY Zenon DEF RInv, CInv, ControlOK, AssertionsHold
<1> QED BY <1>1, <1>2, <1>3, PTL DEF Spec

(***************************************************************************)
(* The recorder serialises the tracees: whatever user code runs is that of *)
(* the current task, and the recorder will come back to this task.         *)
(***************************************************************************)
THEOREM RecorderOneTaskRuns == NoStops => (Spec => []OneTaskRuns)
<1> SUFFICES ASSUME NoStops PROVE Spec => []OneTaskRuns
  OBVIOUS
<1>1. Init => RInv
  BY RInvInductive
<1>2. RInv /\ [Next]_vars => RInv'
  BY RInvInductive
<1>3. ASSUME RInv PROVE OneTaskRuns
  <2>1. registered \subseteq Task
    BY Zenon, <1>3 DEF RInv, LInv, QInv, QTypeOK
  <2> QED BY Zenon, <1>3, <2>1 DEF RInv, CInv, TasksOK, SchedOK, OneTaskRuns
<1> QED BY <1>1, <1>2, <1>3, PTL DEF Spec

(***************************************************************************)
(* No event of a tracee is lost between the kernel, the task that stores   *)
(* it and the record_step that handles it.                                 *)
(***************************************************************************)
THEOREM RecorderEventsHandledOnce == NoStops => (Spec => EventsHandledOnce)
<1> SUFFICES ASSUME NoStops PROVE Spec => EventsHandledOnce
  OBVIOUS
<1>1. Init => RInv
  BY RInvInductive
<1>2. RInv /\ [Next]_vars => RInv' /\ NothingLost
  BY RInvInductive
<1> QED BY <1>1, <1>2, PTL DEF Spec, EventsHandledOnce, NothingLost


-----------------------------------------------------------------------------
(* execve *)

(* The execve in progress, if its group and its thread go on with it. *)
LEMMA ExecKept ==
  ASSUME ExecUnderWay, UNCHANGED <<registered, in_exec_tgid>>,
         \A u \in registered : /\ unstable[u] => unstable'[u]
                               /\ Execing(u) => Execing(u)'
  PROVE  ExecUnderWay'
BY Zenon DEF ExecUnderWay, Execing

(* An execve whose thread is known. *)
LEMMA ExecFound ==
  ASSUME NEW x \in registered', Execing(x)', in_exec_tgid' = Tgid[x]
  PROVE  ExecUnderWay'
BY Zenon DEF ExecUnderWay, Execing

(* The task with an exec event, and the thread it is about. *)
LEMMA ExecThread ==
  ASSUME LInv, CInv, NEW t \in registered, NEW x \in Group(t),
         detail[x] \in {"execve_alone", "execve_moved"}
  PROVE  x \in registered /\ event[x] = "processing" /\ Execing(x) /\ in_exec_tgid = Tgid[x]
<1>1. x \in registered /\ x \in Task
  BY Zenon DEF Group, LInv, QInv, QTypeOK
<1>2. ExecOK(x)
  BY Zenon, <1>1 DEF CInv, TasksOK
<1>3. event[x] = "processing" /\ Execing(x)
  BY Zenon, <1>2 DEF ExecOK, Execing, ExecStates
<1> QED BY Zenon, <1>1, <1>2, <1>3 DEF ExecOK

(* The tracees and the kernel keep an execve going. *)
LEMMA KernelKeepsExec ==
  ASSUME LInv, TInv, CInv, ExecUnderWay, NEW t \in registered, KernelStep(t)
  PROVE  ExecUnderWay'
<1>1. /\ UNCHANGED <<registered, in_exec_tgid, unstable, event>>
      /\ \/ UNCHANGED detail
         \/ \E s \in {"execve_alone", "execve_moved"} : detail' = [detail EXCEPT ![t] = s]
  BY Zenon DEF KernelStep, RunUser, TakeSigcont, RunSyscall, DeThread, ReportExec, ReportExit,
               KillGroup, SendSigcont, KernelFrame, tvars, svars, qvars, rvars, OtherSvars
<1>2. ASSUME NEW u \in registered PROVE Execing(u) => Execing(u)'
  <2>1. u \in Task
    BY Zenon DEF LInv, QInv, QTypeOK
  <2>2. detail'[u] = detail[u] \/ detail'[u] \in {"execve_alone", "execve_moved"}
    BY Zenon, <1>1, <2>1 DEF TInv, TTypeOK
  <2> QED BY Zenon, <1>1, <2>2 DEF Execing, ExecStates
<1> QED BY Zenon, <1>1, <1>2, ExecKept

(* During an execve the loop of reschedule is not entered. *)
LEMMA SchedulerDuringExec ==
  ASSUME LInv, TInv, CInv,
         Reschedule \/ StepExited \/ WaitInterrupted \/ SchedulerStep
  PROVE  /\ UNCHANGED in_exec_tgid
         /\ in_exec_tgid # NoTask =>
               /\ UNCHANGED <<current_, registered, unstable, detail>>
               /\ UNCHANGED event \/ PopSched
<1>1. CASE Reschedule
  BY Zenon, <1>1 DEF Reschedule, RescheduleBegin, MaybeResetPriorities, ResetPriorities,
                     SetPriorities, qvars
<1>2. CASE StepExited \/ WaitInterrupted
  BY Zenon, <1>2 DEF StepExited, WaitInterrupted, qvars, tvars
<1>3. CASE WaitForCurrent
  BY Zenon, <1>3 DEF WaitForCurrent, CarryOn, qvars
<1>4. CASE LoopBegin
  BY Zenon, <1>4 DEF LoopBegin, InExecve, EnterWait, ClearRoundRobinQueue, qvars
<1>5. CASE SchedulerStep /\ ~WaitForCurrent /\ ~LoopBegin
  <2>1. sigcont = {} /\ pc \notin {"sigwait", "sigwaitcur"}
    BY Zenon DEF CInv, ControlOK
  <2>2. ~ResumeForSigcont /\ ~SigcontWait
    BY Zenon, <2>1 DEF ResumeForSigcont, SigcontWait
  <2>3. pc \in {"higher", "carry", "front", "any"} /\ UNCHANGED in_exec_tgid
    BY Zenon, <1>5, <2>2
       DEF SchedulerStep, PollHigherPriority, NoHigherPriority, PollCurrent, PollFront, NoFront,
           PollAny, AllBlocked, PollTask
  <2> QED BY Zenon, <2>3 DEF CInv, InExecOK
<1> QED BY Zenon, <1>1, <1>2, <1>3, <1>4, <1>5

(* The steps of a reschedule, and of waitpid(-1). *)
LEMMA ReschedulingKeepsExec ==
  ASSUME LInv, TInv, CInv, ExecUnderWay,
         \/ Reschedule \/ StepExited \/ WaitInterrupted \/ SchedulerStep
         \/ \E t \in registered : WaitAny(t)
  PROVE  ExecUnderWay'
<1>0. registered \subseteq Task
  BY Zenon DEF LInv, QInv, QTypeOK
<1>1. CASE Reschedule \/ StepExited \/ WaitInterrupted \/ SchedulerStep
  <2>1. CASE in_exec_tgid = NoTask
    BY Zenon, <1>1, <2>1, SchedulerDuringExec DEF ExecUnderWay
  <2>2. CASE in_exec_tgid # NoTask
    <3>1. /\ UNCHANGED <<in_exec_tgid, registered, unstable, detail>>
          /\ UNCHANGED event \/ PopSched
      BY Zenon, <1>1, <2>2, SchedulerDuringExec
    <3>2. \A u \in Task : event'[u] = event[u] \/ (event[u] = "sched" /\ event'[u] = "user")
      BY Zenon, <3>1, SchedPopped
    <3>3. \A u \in registered : Execing(u) => Execing(u)'
      BY Zenon, <1>0, <3>1, <3>2 DEF Execing
    <3> QED BY Zenon, <3>1, <3>3, ExecKept
  <2> QED BY <2>1, <2>2
<1>2. ASSUME NEW t \in registered, WaitAny(t) PROVE ExecUnderWay'
  <2>1. /\ UNCHANGED <<registered, in_exec_tgid, detail>>
        /\ UNCHANGED event \/ PopSched
        /\ unstable' = [unstable EXCEPT ![t] = @ /\ ~(kernel_event[t] = "exec")]
    BY Zenon, <1>2 DEF WaitAny, SwitchTo, qvars
  <2>2. \A u \in Task : event'[u] = event[u] \/ (event[u] = "sched" /\ event'[u] = "user")
    BY Zenon, <2>1, SchedPopped
  <2>3. \A u \in registered : Execing(u) => Execing(u)'
    BY Zenon, <1>0, <2>1, <2>2 DEF Execing
  <2>4. CASE kernel_event[t] = "exec"
    <3>1. PICK x \in registered : /\ x \in Group(t)
                                  /\ detail[x] \in {"execve_alone", "execve_moved"}
      BY Zenon, <2>4 DEF CInv, ExecEvents, ExecBy
    <3>2. Execing(x) /\ in_exec_tgid = Tgid[x]
      BY Zenon, <3>1, ExecThread
    <3> QED BY Zenon, <2>1, <2>3, <3>2, ExecFound
  <2>5. CASE kernel_event[t] # "exec"
    <3>1. \A u \in registered : unstable[u] => unstable'[u]
      BY Zenon, <1>0, <2>1, <2>5 DEF TInv, TTypeOK
    <3> QED BY Zenon, <2>1, <2>3, <3>1, ExecKept
  <2> QED BY <2>4, <2>5
<1> QED BY Zenon, <1>1, <1>2

(* A task exits: its group dies with it, or the execve is another thread's. *)
LEMMA ExitKeepsExec ==
  ASSUME LInv, TInv, CInv, ExecUnderWay, HandlePtraceExitEvent
  PROVE  ExecUnderWay'
<1>1. PICK t \in registered : t = current_
  BY Zenon, HandledTask DEF HandlePtraceExitEvent
<1>2. /\ unstable' = [u \in Task |-> unstable[u] \/ (~stable_exit[t] /\ u \in Group(t))]
      /\ registered' = registered \ {t}
      /\ in_exec_tgid' = IF DestroyedLast(t) THEN NoTask ELSE in_exec_tgid
      /\ UNCHANGED <<event, detail>>
  BY Zenon, <1>1 DEF HandlePtraceExitEvent, OnDestroyTask, RemoveTask
<1>3. registered \subseteq Task /\ t \in Task /\ ExecOK(t)
  BY Zenon, <1>1 DEF LInv, QInv, QTypeOK, CInv, TasksOK
<1>4. \A u \in registered : unstable[u] => unstable'[u]
  BY Zenon, <1>2, <1>3
<1>5. \A u \in registered : Execing(u) => Execing(u)'
  BY Zenon, <1>2 DEF Execing
<1>6. CASE in_exec_tgid = NoTask \/ DestroyedLast(t)
  BY Zenon, <1>2, <1>6 DEF ExecUnderWay
<1>7. CASE in_exec_tgid # NoTask /\ ~DestroyedLast(t)
  <2>1. in_exec_tgid' = in_exec_tgid
    BY Zenon, <1>2, <1>7
  <2>2. PICK y \in registered' : Tgid[y] = in_exec_tgid
    <3>1. PICK z \in registered : Tgid[z] = in_exec_tgid
      BY Zenon, <1>7 DEF ExecUnderWay
    <3>2. CASE z # t
      BY Zenon, <1>2, <3>1, <3>2
    <3>3. CASE z = t
      <4>1. Group(t) # {t} /\ t \in Group(t)
        BY Zenon, <1>1, <1>7, <3>1, <3>3 DEF DestroyedLast, Group
      <4>2. PICK y \in Group(t) : y # t
        BY <4>1
      <4> QED BY Zenon, <1>2, <3>1, <3>3, <4>2 DEF Group
    <3> QED BY <3>2, <3>3
  <2>3. CASE \A u \in registered : Tgid[u] = in_exec_tgid => unstable[u]
    BY Zenon, <1>2, <1>4, <2>1, <2>2, <2>3 DEF ExecUnderWay
  <2>4. CASE \E x \in registered : Tgid[x] = in_exec_tgid /\ Execing(x)
    <3>1. PICK x \in registered : Tgid[x] = in_exec_tgid /\ Execing(x)
      BY <2>4
    <3>2. CASE x # t
      <4>1. x \in registered'
        BY Zenon, <1>2, <3>1, <3>2
      <4> QED BY Zenon, <1>5, <2>1, <3>1, <4>1, ExecFound
    <3>3. CASE x = t
      <4>1. ~stable_exit[t]
        BY Zenon, <1>1, <1>3, <3>1, <3>3 DEF ExecOK, Execing, ExecStates
      <4>2. \A u \in registered' : Tgid[u] = in_exec_tgid' => unstable'[u]
        BY Zenon, <1>2, <1>3, <2>1, <3>1, <3>3, <4>1 DEF Group
      <4> QED BY Zenon, <2>1, <2>2, <4>2 DEF ExecUnderWay
    <3> QED BY <3>2, <3>3
  <2> QED BY Zenon, <1>7, <2>3, <2>4 DEF ExecUnderWay, Execing
<1> QED BY <1>6, <1>7


(* A handler of a task that is not in execve leaves the execve alone. *)
LEMMA OtherHandlerKeepsExec ==
  ASSUME LInv, TInv, CInv, ExecUnderWay, NEW t \in registered, ~Execing(t),
         UNCHANGED <<registered, in_exec_tgid>>,
         \A u \in registered : unstable[u] => unstable'[u],
         \A u \in Task \ {t} : event'[u] = event[u] /\ detail'[u] = detail[u]
  PROVE  ExecUnderWay'
<1>1. registered \subseteq Task
  BY Zenon DEF LInv, QInv, QTypeOK
<1>2. \A u \in registered : Execing(u) => Execing(u)'
  BY Zenon, <1>1 DEF Execing
<1> QED BY Zenon, <1>2, ExecKept

(***************************************************************************)
(* The handlers: user code is not handled during an execve, so no thread   *)
(* joins the group; the execve ends in SyscallExited.                      *)
(***************************************************************************)
LEMMA HandleKeepsExec ==
  ASSUME "restart" \notin Inputs, LInv, TInv, CInv, ExecUnderWay, NEW t \in registered, Handle(t)
  PROVE  ExecUnderWay'
<1>0. registered \subseteq Task /\ t \in Task
  BY Zenon DEF LInv, QInv, QTypeOK
<1>1. CASE HandleExecEvent(t)
  <2>1. PICK x \in IF Group(t) = {t} THEN {t} ELSE Group(t) \ {t} :
          /\ detail[x] \in {"execve_alone", "execve_moved"}
          /\ IF Group(t) = {t} THEN UNCHANGED qvars ELSE RemoveTask(t)
          /\ detail' = [detail EXCEPT ![x] = "execve_done"]
          /\ UNCHANGED <<event, in_exec_tgid>>
    BY Zenon, <1>1 DEF HandleExecEvent
  <2>2. x \in Group(t) /\ x \in registered'
    BY Zenon, <2>1 DEF RemoveTask, Group, qvars
  <2>3. x \in registered /\ event[x] = "processing" /\ in_exec_tgid = Tgid[x]
    BY Zenon, <2>1, <2>2, ExecThread
  <2>4. event'[x] = "processing" /\ detail'[x] = "execve_done"
    BY Zenon, <1>0, <2>1, <2>3 DEF TInv, TTypeOK
  <2>5. Execing(x)'
    BY Zenon, <2>4 DEF Execing, ExecStates
  <2> QED BY Zenon, <2>1, <2>2, <2>3, <2>5, ExecFound
<1>2. CASE \/ ContinueUser(t) \/ HandleTimeSlice(t) \/ DeferTimeSlice(t) \/ TakeSignal(t)
           \/ SignalStateChanged(t) \/ DeliverSignal(t) \/ EnterPlain(t) \/ EnterSchedYield(t)
           \/ EnterExit(t) \/ EnterClone(t) \/ EnterSetpriority(t)
  <2>1. Handling(t, event[t]) /\ event[t] \in {"user", "signal", "delivery"}
    BY Zenon, <1>2 DEF ContinueUser, HandleTimeSlice, DeferTimeSlice, TakeSignal,
                       SignalStateChanged, DeliverSignal, EnterPlain, EnterSchedYield,
                       EnterExit, EnterClone, EnterSetpriority, Enter, Handling
  <2>2. in_exec_tgid = NoTask
    BY Zenon, <2>1, HandledStatus
  <2>3. UNCHANGED in_exec_tgid
    BY Zenon, <1>2 DEF ContinueUser, HandleTimeSlice, DeferTimeSlice, TakeSignal,
                       SignalStateChanged, DeliverSignal, SignalFrame, EnterPlain,
                       EnterSchedYield, EnterExit, EnterClone, EnterSetpriority
  <2> QED BY Zenon, <2>2, <2>3 DEF ExecUnderWay
<1>3. CASE EnterExecve(t)
  <2>1. /\ Handling(t, event[t]) /\ event[t] = "user"
        /\ event' = [event EXCEPT ![t] = "processing"]
        /\ detail' = [detail EXCEPT ![t] = "execve"]
        /\ UNCHANGED qvars
        /\ in_exec_tgid = NoTask => in_exec_tgid' = Tgid[t]
    BY Zenon, <1>3 DEF EnterExecve, Enter, Handling
  <2>2. in_exec_tgid' = Tgid[t] /\ t \in registered'
    BY Zenon, <2>1, HandledStatus DEF qvars
  <2>3. event'[t] = "processing" /\ detail'[t] = "execve"
    BY Zenon, <1>0, <2>1 DEF TInv, TTypeOK
  <2>4. Execing(t)'
    BY Zenon, <2>3 DEF Execing, ExecStates
  <2> QED BY Zenon, <2>2, <2>4, ExecFound
<1>4. CASE SyscallProcessed(t)
  <2>1. /\ Handling(t, event[t]) /\ event[t] = "processing"
        /\ event' = [event EXCEPT ![t] = IF wait_status[t] = "restart"
                                         THEN "restarting" ELSE "exiting"]
        /\ UNCHANGED <<detail, registered, in_exec_tgid, unstable>>
    BY Zenon, <1>4 DEF SyscallProcessed, Handling, qvars
  <2>2. wait_status[t] # "restart"
    BY Zenon, <1>0 DEF CInv, TasksOK, StatusOK, Fits
  <2>3. event'[t] = "exiting" /\ \A u \in Task \ {t} : event'[u] = event[u]
    BY Zenon, <1>0, <2>1, <2>2 DEF TInv, TTypeOK
  <2>4. \A u \in registered : Execing(u) => Execing(u)'
    BY Zenon, <1>0, <2>1, <2>3 DEF Execing
  <2> QED BY Zenon, <2>1, <2>4, ExecKept
<1>5. CASE SyscallExited(t)
  <2>1. /\ event' = [event EXCEPT ![t] = "user"] /\ detail' = [detail EXCEPT ![t] = "none"]
        /\ event[t] \in {"exiting", "restarting"}
        /\ UNCHANGED <<registered, unstable>>
        /\ IF event[t] = "exiting" /\ detail[t] \in ExecStates
           THEN in_exec_tgid' = NoTask ELSE UNCHANGED in_exec_tgid
    BY Zenon, <1>5 DEF SyscallExited, DidExitExecve, qvars
  <2>2. CASE in_exec_tgid' = NoTask
    BY Zenon, <2>2 DEF ExecUnderWay
  <2>3. CASE in_exec_tgid' # NoTask
    <3>1. ~Execing(t) /\ UNCHANGED in_exec_tgid
      BY Zenon, <2>1, <2>3 DEF Execing
    <3>2. \A u \in Task \ {t} : event'[u] = event[u] /\ detail'[u] = detail[u]
      BY Zenon, <1>0, <2>1 DEF TInv, TTypeOK
    <3> QED BY Zenon, <2>1, <3>1, <3>2, OtherHandlerKeepsExec
  <2> QED BY <2>2, <2>3
<1> QED BY Zenon, <1>1, <1>2, <1>3, <1>4, <1>5 DEF Handle

(* Every step. *)
LEMMA NextKeepsExec ==
  ASSUME "restart" \notin Inputs, RInv, ExecUnderWay, [Next]_vars
  PROVE  ExecUnderWay'
<1>0. LInv /\ TInv /\ CInv
  BY DEF RInv
<1>1. CASE UNCHANGED vars
  <2>1. UNCHANGED <<registered, in_exec_tgid, unstable, event, detail>>
    BY Zenon, <1>1 DEF vars, qvars, svars, tvars
  <2> QED BY Zenon, <2>1, ExecKept DEF Execing
<1>2. CASE IgnoreUnstable
  <2>1. UNCHANGED <<registered, in_exec_tgid, unstable, event, detail>>
    BY Zenon, <1>2 DEF IgnoreUnstable, qvars, tvars
  <2> QED BY Zenon, <2>1, ExecKept DEF Execing
<1> QED BY Zenon, <1>0, <1>1, <1>2, KernelKeepsExec, ReschedulingKeepsExec, ExitKeepsExec,
           HandleKeepsExec DEF Next, RecorderStep, Stopped

(***************************************************************************)
(* in_exec_tgid is never stale: as long as it is set, a thread of the      *)
(* group is in execve or the whole group is dying.  A call that may be     *)
(* restarted leaves it set (SyscallExited), hence the second assumption.   *)
(***************************************************************************)
THEOREM RecorderExecUnderWay ==
  NoStops /\ "restart" \notin Inputs => (Spec => []ExecUnderWay)
<1> SUFFICES ASSUME NoStops, "restart" \notin Inputs PROVE Spec => []ExecUnderWay
  OBVIOUS
<1>1. Init => RInv /\ ExecUnderWay
  BY Zenon, RInvInductive DEF Init, ExecUnderWay
<1>2. RInv /\ ExecUnderWay /\ [Next]_vars => (RInv /\ ExecUnderWay)'
  BY Zenon, RInvInductive, NextKeepsExec
<1> QED BY <1>1, <1>2, PTL DEF Spec

=============================================================================
