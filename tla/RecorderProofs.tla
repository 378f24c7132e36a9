---------------------------- MODULE RecorderProofs ----------------------------
(***************************************************************************)
(* Recorder implements SchedulerQueues: whatever the tracees, the kernel   *)
(* and the tasks' deaths do, reschedule and the handlers of record_step    *)
(* only issue container operations that QSpec allows.  Hence FiledOnce     *)
(* holds of the recorder, for any number of tasks.                         *)
(*                                                                         *)
(* The step simulation needs to know that the tasks the operations are     *)
(* issued for are registered: NoDanglingTask, which in turn needs          *)
(* FiledOnce (a queued task is registered).  The invariant is therefore    *)
(* their conjunction.                                                      *)
(***************************************************************************)
EXTENDS Recorder, SchedulerQueuesProofs, WellFoundedInduction

LInv == QInv /\ NoDanglingTask

(* The first task of the session exists: serials are natural numbers. *)
LEMMA RootIsTask == Root \in Task
<1> DEFINE less == OpToRel(<, Nat)
<1>1. PICK x \in Task : \A y \in Task : ~(<<y, x>> \in less)
  <2>1. IsWellFoundedOn(less, Nat)
    BY Zenon, NatLessThanWellFounded
  <2>2. Task \subseteq Nat /\ Task # {}
    BY TaskAssumption
  <2> HIDE DEF less
  <2> QED BY Zenon, <2>1, <2>2, WFMin
<1>2. \A y \in Task : x <= y
  <2> TAKE y \in Task
  <2>1. x \in Nat /\ y \in Nat
    BY TaskAssumption
  <2>2. ~(y < x)
    BY Zenon, <1>1, <2>1 DEF OpToRel
  <2> QED BY <2>1, <2>2
<1> QED BY <1>2 DEF Root

(* The constructor of RecordSession leaves the containers as QInit says. *)
LEMMA InitLinked ==
  ASSUME Init
  PROVE  QInit /\ LInv
<1>1. QInit
  <2>1. PICK p \in Priority :
           /\ priority = [t \in Task |-> IF t = Root THEN p ELSE 0]
           /\ task_priority_set = {<<p, Root>>}
    <3> DEFINE draws == IF EnableChaos THEN {0, 1} ELSE {0}
    <3>1. draws \subseteq Priority
      BY PriorityAssumption
    <3>2. PICK p \in draws :
             /\ priority = [t \in Task |-> IF t = Root THEN p ELSE 0]
             /\ task_priority_set = {<<p, Root>>}
      BY DEF Init
    <3> QED BY <3>1, <3>2
  <2> QED BY <2>1, RootIsTask DEF Init, QInit
<1>2. QInv
  BY <1>1, QInitFiled
<1>3. NoDanglingTask
  BY DEF Init, NoDanglingTask
<1> QED BY <1>1, <1>2, <1>3 DEF LInv

(* A step that leaves the containers and the scheduler's references alone. *)
LEMMA SameReferences ==
  ASSUME LInv, UNCHANGED <<qvars, current_, unborn, scan, target>>,
         \/ pc' = pc
         \/ pc' = "panic"
         \/ pc' \in {"step", "end"} /\ scan = {}
  PROVE  NoDanglingTask'
BY DEF LInv, NoDanglingTask, qvars

(* The tracees and the kernel never touch the scheduler's data. *)
LEMMA KernelLinked ==
  ASSUME LInv, NEW t \in registered, KernelStep(t)
  PROVE  UNCHANGED qvars /\ NoDanglingTask'
<1>1. UNCHANGED <<qvars, current_, unborn, scan, target, pc>>
  <2>1. CASE RunUser(t)
    BY <2>1 DEF RunUser, OtherSvars, rvars
  <2>2. CASE TakeSigcont(t)
    BY <2>2 DEF TakeSigcont, svars, rvars
  <2>3. CASE RunSyscall(t)
    BY <2>3 DEF RunSyscall, KernelFrame, svars
  <2>4. CASE DeThread(t)
    BY <2>4 DEF DeThread, svars
  <2>5. CASE ReportExec(t)
    BY <2>5 DEF ReportExec, svars
  <2>6. CASE ReportExit(t)
    BY <2>6 DEF ReportExit, KernelFrame, svars
  <2>7. CASE KillGroup(t)
    BY <2>7 DEF KillGroup, KernelFrame, svars
  <2>8. CASE SendSigcont(t)
    BY <2>8 DEF SendSigcont, svars, rvars
  <2> QED BY <2>1, <2>2, <2>3, <2>4, <2>5, <2>6, <2>7, <2>8 DEF KernelStep
<1> QED BY <1>1, SameReferences

-----------------------------------------------------------------------------
(* The ends of a call of reschedule, each from a registered task. *)

(* A chosen task that is registered becomes current. *)
LEMMA SwitchToLinked ==
  ASSUME LInv, NEW t \in registered, NEW must, SwitchTo(t, must), unborn' = unborn
  PROVE  UNCHANGED qvars /\ NoDanglingTask'
<1>1. /\ UNCHANGED qvars /\ current_' = t /\ scan' = {}
      /\ pc' \in {"run", "panic"}
  BY DEF SwitchTo, Return, Fail
<1> QED BY <1>1 DEF LInv, NoDanglingTask, qvars

(* The current task goes on. *)
LEMMA CarryOnLinked ==
  ASSUME LInv, pc \in {"waitcur", "carry", "sigwaitcur"}, NEW must, CarryOn(must),
         unborn' = unborn
  PROVE  UNCHANGED qvars /\ NoDanglingTask'
<1>1. /\ UNCHANGED <<qvars, current_, scan>>
      /\ pc' \in {"run", "panic"}
  BY DEF CarryOn, Return, Fail
<1> QED BY <1>1 DEF LInv, NoDanglingTask, qvars

(* The queue is emptied before waitpid(-1). *)
LEMMA EnterWaitLinked ==
  ASSUME LInv, EnterWait, unborn' = unborn
  PROVE  QNext /\ NoDanglingTask'
<1>1. QNext
  BY DEF EnterWait, QNext
<1>2. NoDanglingTask'
  BY DEF EnterWait, ClearRoundRobinQueue, LInv, NoDanglingTask, QInv, QTypeOK
<1> QED BY <1>1, <1>2

(* Both outcomes of a selection. *)
LEMMA SelectLinked ==
  ASSUME LInv, NEW t \in registered, NEW must, Select(t, must), unborn' = unborn
  PROVE  [QNext]_qvars /\ NoDanglingTask'
BY SwitchToLinked, EnterWaitLinked DEF Select

(* maybe_pop_round_robin_task changes no reference of the scheduler. *)
LEMMA PopFrontLinked ==
  ASSUME LInv, PopFront, UNCHANGED <<current_, unborn, scan>>,
         pc' \in {"loop", "front"}, scan = {}
  PROVE  QNext /\ NoDanglingTask'
<1>1. QNext
  BY DEF QNext
<1>2. /\ registered' = registered
      /\ \A t \in unborn : ~in_round_robin_queue'[t]
  BY DEF PopFront, LInv, QInv, QTypeOK, NoDanglingTask
<1> QED BY <1>1, <1>2 DEF LInv, NoDanglingTask

-----------------------------------------------------------------------------
(* The steps of reschedule. *)

(* find_next_runnable_task below the current task's priority *)
LEMMA PollHigherPriorityLinked ==
  ASSUME LInv, PollHigherPriority, UNCHANGED rvars
  PROVE  [QNext]_qvars /\ NoDanglingTask'
<1>1. PICK e \in scan :
         \/ \E must : Select(e[2], must)
         \/ scan' = scan \ {e} /\ UNCHANGED <<qvars, current_, pc>>
  BY DEF PollHigherPriority
<1>2. e[2] \in registered /\ unborn' = unborn /\ pc = "higher"
  BY DEF LInv, NoDanglingTask, PollHigherPriority, rvars
<1>3. CASE \E must : Select(e[2], must)
  BY <1>2, <1>3, SelectLinked
<1>4. CASE scan' = scan \ {e} /\ UNCHANGED <<qvars, current_, pc>>
  BY <1>2, <1>4 DEF LInv, NoDanglingTask, qvars
<1> QED BY ZenonT(60), <1>1, <1>3, <1>4

(* find_next_runnable_task over all priorities *)
LEMMA PollAnyLinked ==
  ASSUME LInv, PollAny, UNCHANGED rvars
  PROVE  [QNext]_qvars /\ NoDanglingTask'
<1>1. PICK e \in scan :
         \/ \E must : SelectUnlessLowPriority(e[2], must)
         \/ scan' = scan \ {e} /\ UNCHANGED <<qvars, current_, pc>>
  BY DEF PollAny
<1>2. e[2] \in registered /\ unborn' = unborn /\ pc = "any"
  BY DEF LInv, NoDanglingTask, PollAny, rvars
<1>3. CASE \E must : Select(e[2], must)
  BY <1>2, <1>3, SelectLinked
<1>4. CASE scan' = scan \ {e} /\ UNCHANGED <<qvars, current_, pc>>
  BY <1>2, <1>4 DEF LInv, NoDanglingTask, qvars
<1>5. CASE pc' = "loop" /\ scan' = {} /\ UNCHANGED <<qvars, current_>>
  BY <1>2, <1>5 DEF LInv, NoDanglingTask, qvars
<1> QED BY ZenonT(60), <1>1, <1>3, <1>4, <1>5 DEF SelectUnlessLowPriority

(* May the current task go on? *)
LEMMA PollCurrentLinked ==
  ASSUME LInv, PollCurrent, UNCHANGED rvars
  PROVE  [QNext]_qvars /\ NoDanglingTask'
<1>1. RejectCurrent \/ \E must : CarryOn(must)
  BY DEF PollCurrent
<1>2. pc = "carry" /\ unborn' = unborn /\ scan = {}
  BY DEF LInv, NoDanglingTask, PollCurrent, rvars
<1>3. CASE \E must : CarryOn(must)
  BY <1>2, <1>3, CarryOnLinked
<1>4. CASE RejectCurrent
  <2>1. UNCHANGED <<current_, scan>> /\ pc' = "front"
    BY <1>4 DEF RejectCurrent
  <2>2. PopFront \/ UNCHANGED qvars
    BY <1>4 DEF RejectCurrent, MaybePopRoundRobinTask
  <2>3. CASE PopFront
    BY <1>2, <2>1, <2>3, PopFrontLinked
  <2>4. CASE UNCHANGED qvars
    BY <1>2, <2>1, <2>4 DEF LInv, NoDanglingTask, qvars
  <2> QED BY <2>2, <2>3, <2>4
<1> QED BY <1>1, <1>3, <1>4

(* The head of the round-robin queue is registered because it is queued. *)
LEMMA PollFrontLinked ==
  ASSUME LInv, PollFront, UNCHANGED rvars
  PROVE  [QNext]_qvars /\ NoDanglingTask'
<1> DEFINE t == Head(task_round_robin_queue)
<1>1. \/ \E must : Select(t, must)
      \/ PopFront /\ pc' = "loop" /\ UNCHANGED <<current_, scan>>
  BY DEF PollFront
<1>2. pc = "front" /\ unborn' = unborn /\ scan = {}
  BY DEF LInv, NoDanglingTask, PollFront, rvars
<1>3. t \in registered
  <2>1. /\ task_round_robin_queue \in Seq(Task)
        /\ task_round_robin_queue # <<>>
    BY DEF LInv, QInv, QTypeOK, PollFront
  <2>2. t \in Queued /\ t \in Task
    BY <2>1 DEF Queued
  <2> QED BY <2>2 DEF LInv, QInv, FiledOnce
<1> HIDE DEF t
<1>4. CASE \E must : Select(t, must)
  BY <1>2, <1>3, <1>4, SelectLinked
<1>5. CASE PopFront /\ pc' = "loop" /\ UNCHANGED <<current_, scan>>
  BY <1>2, <1>5, PopFrontLinked
<1> QED BY ZenonT(60), <1>1, <1>4, <1>5

(* SIGCONT for a task in an emulated stop *)
LEMMA SigcontLinked ==
  ASSUME LInv, ResumeForSigcont \/ SigcontWait, UNCHANGED rvars
  PROVE  [QNext]_qvars /\ NoDanglingTask'
<1>1. CASE ResumeForSigcont
  <2>1. PICK t \in Polled :
           /\ UNCHANGED <<qvars, current_, scan>>
           /\ \/ pc' = "panic"
              \/ target' = t /\ pc' = IF pc = "carry" THEN "sigwaitcur" ELSE "sigwait"
    BY Zenon, <1>1 DEF ResumeForSigcont, EmulateSigcont, Fail
  <2>2. t \in registered
    <3>1. CASE pc \in {"higher", "any"}
      BY <3>1 DEF Polled, LInv, NoDanglingTask
    <3>2. CASE pc = "carry"
      BY <3>2 DEF Polled, LInv, NoDanglingTask
    <3>3. CASE pc = "front" /\ task_round_robin_queue # <<>>
      <4>1. t = Head(task_round_robin_queue) /\ task_round_robin_queue \in Seq(Task)
        BY ZenonT(60), <3>3 DEF Polled, LInv, QInv, QTypeOK
      <4>2. t \in Queued /\ t \in Task
        BY <4>1, <3>3 DEF Queued
      <4> QED BY <4>2 DEF LInv, QInv, FiledOnce
    <3>4. CASE ~(pc \in {"higher", "any"} \/ pc = "carry"
                  \/ (pc = "front" /\ task_round_robin_queue # <<>>))
      BY <3>4 DEF Polled
    <3> QED BY <3>1, <3>2, <3>3, <3>4
  <2>3. pc \in {"higher", "any", "carry", "front"}
    BY <2>1 DEF Polled
  <2> QED BY <2>1, <2>2, <2>3 DEF LInv, NoDanglingTask, qvars, rvars
<1>2. CASE SigcontWait
  <2>1. /\ target \in registered /\ unborn' = unborn
        /\ \/ pc = "sigwaitcur" /\ CarryOn(target)
           \/ SwitchTo(target, target)
    BY <1>2 DEF SigcontWait, LInv, NoDanglingTask, rvars
  <2> QED BY ZenonT(60), <2>1, CarryOnLinked, SwitchToLinked
<1> QED BY <1>1, <1>2

(* Entry of reschedule *)
LEMMA RescheduleLinked ==
  ASSUME LInv, Reschedule
  PROVE  [QNext]_qvars /\ NoDanglingTask'
<1>1. /\ pc = "step" /\ scan = {} /\ UNCHANGED <<current_, scan, unborn>>
  BY Zenon DEF LInv, NoDanglingTask, Reschedule, RescheduleBegin, rvars
<1>2. \/ pc' \in {"run", "waitcur"} /\ current_ # NoTask
      \/ pc' \in {"panic", "loop"}
  BY Zenon DEF Reschedule, RescheduleBegin, Return, Fail
<1>3. ResetPriorities \/ UNCHANGED qvars
  BY Zenon DEF Reschedule, RescheduleBegin, MaybeResetPriorities
<1>4. UNCHANGED <<registered, in_round_robin_queue>>
  BY <1>3 DEF ResetPriorities, SetPriorities, qvars
<1>5. [QNext]_qvars
  BY <1>3 DEF QNext
<1>6. NoDanglingTask'
  BY <1>1, <1>2, <1>4 DEF LInv, NoDanglingTask
<1> QED BY <1>5, <1>6

(* All steps of reschedule that poll or wait for a given task *)
LEMMA SchedulerLinked ==
  ASSUME LInv, SchedulerStep
  PROVE  [QNext]_qvars /\ NoDanglingTask'
<1>0. UNCHANGED rvars
  BY DEF SchedulerStep
<1>1. CASE WaitForCurrent
  BY <1>0, <1>1, CarryOnLinked DEF WaitForCurrent, rvars
<1>2. CASE LoopBegin
  <2>1. CASE EnterWait
    BY <1>0, <2>1, EnterWaitLinked DEF rvars
  <2>2. CASE ~EnterWait
    <3>1. /\ UNCHANGED <<qvars, current_>>
          /\ \/ pc' = "front" /\ scan' = {}
             \/ pc' = "higher" /\ scan' \subseteq task_priority_set /\ current_ # NoTask
             \/ pc' = "carry" /\ scan' = {} /\ current_ # NoTask
      BY ZenonT(60), <1>2, <2>2 DEF LoopBegin, MayPreempt, InExecve
    <3>2. \A e \in task_priority_set : e[2] \in registered
      BY DEF LInv, QInv, QTypeOK, FiledOnce
    <3> QED BY <1>0, <3>1, <3>2 DEF LInv, NoDanglingTask, qvars, rvars
  <2> QED BY <2>1, <2>2
<1>3. CASE PollHigherPriority
  BY <1>0, <1>3, PollHigherPriorityLinked
<1>4. CASE NoHigherPriority
  BY ZenonT(60), <1>0, <1>4 DEF NoHigherPriority, LInv, NoDanglingTask, qvars, rvars
<1>5. CASE PollCurrent
  BY <1>0, <1>5, PollCurrentLinked
<1>6. CASE PollFront
  BY <1>0, <1>6, PollFrontLinked
<1>7. CASE NoFront
  <2>1. \A e \in task_priority_set : e[2] \in registered
    BY DEF LInv, QInv, QTypeOK, FiledOnce
  <2> QED BY <1>0, <1>7, <2>1 DEF NoFront, LInv, NoDanglingTask, qvars, rvars
<1>8. CASE PollAny
  BY <1>0, <1>8, PollAnyLinked
<1>9. CASE AllBlocked
  BY <1>0, <1>9, EnterWaitLinked DEF AllBlocked, rvars
<1>10. CASE ResumeForSigcont \/ SigcontWait
  BY <1>0, <1>10, SigcontLinked
<1> QED BY <1>1, <1>2, <1>3, <1>4, <1>5, <1>6, <1>7, <1>8, <1>9, <1>10
        DEF SchedulerStep

(* waitpid(-1): an event, or EINTR *)
LEMMA WaitLinked ==
  ASSUME LInv, WaitInterrupted \/ \E t \in registered : WaitAny(t)
  PROVE  [QNext]_qvars /\ NoDanglingTask'
<1>1. CASE WaitInterrupted
  <2>1. /\ UNCHANGED <<qvars, current_, unborn, scan, target>>
        /\ pc = "wait" /\ pc' \in {"panic", "step"}
    BY ZenonT(60), <1>1 DEF WaitInterrupted, Fail, rvars
  <2>2. scan = {}
    BY <2>1 DEF LInv, NoDanglingTask
  <2> QED BY <2>1, <2>2, SameReferences
<1>2. ASSUME NEW t \in registered, WaitAny(t)
      PROVE  [QNext]_qvars /\ NoDanglingTask'
  <2>1. /\ unborn' = unborn /\ UNCHANGED target
        /\ \/ UNCHANGED <<qvars, current_, scan>> /\ (pc' = pc \/ pc' = "panic")
           \/ SwitchTo(t, t)
    BY Zenon, <1>2 DEF WaitAny, NoteStatus, Fail
  <2> QED BY <2>1, SwitchToLinked, SameReferences
<1> QED BY <1>1, <1>2

-----------------------------------------------------------------------------
(* The handlers of record_step *)

(* A handler that works on the current task without touching containers. *)
LEMMA HandlerLinked ==
  ASSUME LInv, pc = "run", UNCHANGED <<qvars, current_, unborn, scan, target>>,
         pc' \in {"step", "panic"}
  PROVE  [QNext]_qvars /\ NoDanglingTask'
<1>1. scan = {}
  BY ZenonT(60) DEF LInv, NoDanglingTask
<1> QED BY <1>1, SameReferences

(* sched_yield and a suspected spinlock start a round-robin. *)
LEMMA RoundRobinLinked ==
  ASSUME LInv, pc = "run", ScheduleOneRoundRobin(current_),
         UNCHANGED <<current_, unborn, scan, target>>, pc' \in {"step", "panic"}
  PROVE  [QNext]_qvars /\ NoDanglingTask'
<1>1. current_ \in registered /\ scan = {}
  BY DEF LInv, NoDanglingTask
<1>2. QNext
  BY ZenonT(60), <1>1 DEF QNext
<1>3. registered' = registered
  BY ZenonT(60) DEF ScheduleOneRoundRobin
<1>4. \A u \in unborn : ~in_round_robin_queue'[u]
  <2> TAKE u \in unborn
  <2>1. u \in Task /\ u \notin registered /\ ~in_round_robin_queue[u] /\ u # current_
    BY <1>1 DEF LInv, NoDanglingTask
  <2>2. \A e \in task_priority_set : e[2] # u
    BY <2>1 DEF LInv, QInv, QTypeOK, FiledOnce
  <2> QED BY <2>1, <2>2 DEF ScheduleOneRoundRobin
<1> QED BY ZenonT(60), <1>1, <1>2, <1>3, <1>4 DEF LInv, NoDanglingTask

(* update_task_priority_internal moves a registered task. *)
LEMMA PriorityLinked ==
  ASSUME LInv, pc = "run", NEW u \in registered, NEW v \in Priority, NEW stable,
         UpdateTaskPriority(u, v, stable),
         UNCHANGED <<current_, unborn, scan, target>>, pc' \in {"step", "panic"}
  PROVE  [QNext]_qvars /\ NoDanglingTask'
<1>1. PICK w \in Priority : SetPriorities({u}, [x \in {u} |-> w])
  <2> DEFINE value == IF stable /\ ~EnableChaos THEN -9999 ELSE v
  <2>1. value \in Priority
    BY PriorityAssumption
  <2>2. SetPriorities({u}, [x \in {u} |-> value])
    BY DEF UpdateTaskPriority
  <2> HIDE DEF value
  <2> QED BY Zenon, <2>1, <2>2
<1>2. QNext
  BY Zenon, <1>1 DEF QNext
<1>3. UNCHANGED <<registered, in_round_robin_queue>>
  BY ZenonT(60), <1>1 DEF SetPriorities
<1>4. NoDanglingTask'
  BY <1>3 DEF LInv, NoDanglingTask
<1> QED BY <1>2, <1>4

(* The exit of the current task: it leaves its container and current_. *)
LEMMA ExitLinked ==
  ASSUME LInv, HandlePtraceExitEvent
  PROVE  [QNext]_qvars /\ NoDanglingTask'
<1>1. /\ current_ \in registered /\ scan = {}
      /\ RemoveTask(current_) /\ current_' = NoTask /\ pc' = "step"
      /\ UNCHANGED <<scan, target, unborn>>
  BY DEF HandlePtraceExitEvent, DestroyedLast, OnDestroyTask, StepFrame, LInv, NoDanglingTask
<1>2. QNext
  BY <1>1 DEF QNext
<1>3. registered' \subseteq registered /\ UNCHANGED in_round_robin_queue
  BY <1>1 DEF RemoveTask
<1>4. NoDanglingTask'
  BY <1>1, <1>3 DEF LInv, NoDanglingTask
<1> QED BY ZenonT(60), <1>2, <1>4

(* An exec event destroys the old leader and makes another task current. *)
LEMMA ExecLinked ==
  ASSUME LInv, NEW t \in registered, HandleExecEvent(t)
  PROVE  [QNext]_qvars /\ NoDanglingTask'
<1>1. /\ pc = "run" /\ t = current_ /\ UNCHANGED <<scan, target, unborn>>
      /\ pc' \in {"step", "panic"}
  BY Zenon DEF HandleExecEvent, Handling, StepFrame, Fail
<1>2. scan = {}
  BY <1>1 DEF LInv, NoDanglingTask
<1>3. PICK x \in registered :
         /\ current_' = x
         /\ UNCHANGED qvars \/ (x # t /\ RemoveTask(t))
  BY ZenonT(60) DEF HandleExecEvent, Group
<1>4. CASE UNCHANGED qvars
  BY <1>1, <1>2, <1>3, <1>4 DEF LInv, NoDanglingTask, qvars
<1>5. CASE x # t /\ RemoveTask(t)
  <2>1. QNext
    BY ZenonT(60), <1>5 DEF QNext
  <2>2. registered' = registered \ {t} /\ UNCHANGED in_round_robin_queue
    BY ZenonT(60), <1>5 DEF RemoveTask
  <2>3. NoDanglingTask'
    BY ZenonT(60), <1>1, <1>2, <1>3, <1>5, <2>2 DEF LInv, NoDanglingTask
  <2> QED BY <2>1, <2>3
<1> QED BY <1>3, <1>4, <1>5

(* clone registers a task that was in no container. *)
LEMMA CloneLinked ==
  ASSUME LInv, NEW t \in registered, EnterClone(t)
  PROVE  [QNext]_qvars /\ NoDanglingTask'
<1>1. /\ pc = "run" /\ t = current_ /\ UNCHANGED <<current_, scan, target>>
      /\ pc' \in {"step", "panic"}
  BY Zenon DEF EnterClone, Enter, Handling, StepFrame, TaskContinue, Fail
<1>2. CASE UNCHANGED <<qvars, unborn>>
  BY <1>1, <1>2, HandlerLinked
<1>3. ASSUME NEW u \in unborn, CreateTask(u, priority[t]), unborn' = unborn \ {u}
      PROVE  [QNext]_qvars /\ NoDanglingTask'
  <2>1. /\ u \in Task \ registered /\ ~in_round_robin_queue[u]
        /\ priority[t] \in Priority /\ scan = {}
    BY ZenonT(60), <1>1 DEF LInv, NoDanglingTask, QInv, QTypeOK
  <2>2. QNext
    BY <1>3, <2>1 DEF QNext
  <2>3. registered' = registered \cup {u} /\ UNCHANGED in_round_robin_queue
    BY ZenonT(60), <1>3 DEF CreateTask
  <2>4. NoDanglingTask'
    BY ZenonT(60), <1>1, <1>3, <2>1, <2>3 DEF LInv, NoDanglingTask
  <2> QED BY <2>2, <2>4
<1> QED BY <1>2, <1>3 DEF EnterClone

(* Every other handler leaves the containers alone or reprioritises. *)
LEMMA HandleLinked ==
  ASSUME LInv, NEW t \in registered, Handle(t)
  PROVE  [QNext]_qvars /\ NoDanglingTask'
<1> USE DEF StepFrame, Fail
<1>1. CASE HandleExecEvent(t)
  BY <1>1, ExecLinked
<1>2. CASE ContinueUser(t)
  BY Zenon, <1>2, HandlerLinked DEF ContinueUser, Handling, TaskContinue
<1>3. CASE HandleTimeSlice(t)
  <2>1. /\ pc = "run" /\ t = current_ /\ pc' \in {"step", "panic"}
        /\ UNCHANGED <<current_, unborn, scan, target>>
        /\ UNCHANGED qvars \/ ScheduleOneRoundRobin(t)
    BY Zenon, <1>3 DEF HandleTimeSlice, Handling
  <2> QED BY <2>1, HandlerLinked, RoundRobinLinked
<1>4. CASE DeferTimeSlice(t)
  BY ZenonT(60), <1>4, HandlerLinked DEF DeferTimeSlice, Handling, TaskContinue
<1>5. CASE TakeSignal(t)
  BY ZenonT(60), <1>5, HandlerLinked DEF TakeSignal, Handling, SignalFrame
<1>6. CASE SignalStateChanged(t)
  BY ZenonT(60), <1>6, HandlerLinked DEF SignalStateChanged, Handling, SignalFrame
<1>7. CASE DeliverSignal(t)
  BY <1>7, HandlerLinked DEF DeliverSignal, EmulateSigcont, DeliverySwitchable, Handling, SignalFrame
<1>8. CASE EnterPlain(t)
  BY Zenon, <1>8, HandlerLinked DEF EnterPlain, Enter, Handling, TaskContinue
<1>9. CASE EnterSchedYield(t)
  <2>1. /\ pc = "run" /\ t = current_ /\ pc' \in {"step", "panic"}
        /\ UNCHANGED <<current_, unborn, scan, target>>
        /\ UNCHANGED qvars \/ ScheduleOneRoundRobin(t)
    BY Zenon, <1>9 DEF EnterSchedYield, Enter, Handling, TaskContinue
  <2> QED BY <2>1, HandlerLinked, RoundRobinLinked
<1>10. CASE EnterExecve(t)
  BY Zenon, <1>10, HandlerLinked DEF EnterExecve, Enter, Handling, TaskContinue
<1>11. CASE EnterExit(t)
  <2>1. /\ pc = "run" /\ t = current_ /\ pc' \in {"step", "panic"}
        /\ UNCHANGED <<current_, unborn, scan, target>>
        /\ UNCHANGED qvars \/ UpdateTaskPriority(t, priority[t], TRUE)
    BY Zenon, <1>11 DEF EnterExit, Enter, Handling, TaskContinue, StableExit
  <2>2. priority[t] \in Priority
    BY DEF LInv, QInv, QTypeOK
  <2> QED BY Zenon, <2>1, <2>2, HandlerLinked, PriorityLinked
<1>12. CASE EnterClone(t)
  BY <1>12, CloneLinked
<1>13. CASE EnterSetpriority(t)
  <2>1. /\ pc = "run" /\ pc' \in {"step", "panic"}
        /\ UNCHANGED <<current_, unborn, scan, target>>
    BY Zenon, <1>13 DEF EnterSetpriority, Enter, Handling, TaskContinue
  <2>2. PICK u \in registered, v \in Nice :
           UNCHANGED qvars \/ UpdateTaskPriority(u, v, stable_exit[u])
    BY <1>13 DEF EnterSetpriority
  <2>3. v \in Priority
    BY <2>2, NiceAssumption
  <2> QED BY <2>1, <2>2, <2>3, HandlerLinked, PriorityLinked
<1>14. CASE SyscallProcessed(t)
  BY Zenon, <1>14, HandlerLinked DEF SyscallProcessed, Handling
<1>15. CASE SyscallExited(t)
  BY Zenon, <1>15, HandlerLinked DEF SyscallExited, DidExitExecve, Handling
<1> QED BY <1>1, <1>2, <1>3, <1>4, <1>5, <1>6, <1>7, <1>8, <1>9, <1>10, <1>11,
           <1>12, <1>13, <1>14, <1>15 DEF Handle

-----------------------------------------------------------------------------
(* A step of the recorder, a tracee or the kernel is a container operation *)
(* or leaves the containers alone, and leaves no dangling reference.       *)
LEMMA NextLinked ==
  ASSUME LInv, [Next]_vars
  PROVE  [QNext]_qvars /\ LInv'
<1>1. [QNext]_qvars /\ NoDanglingTask'
  <2>1. CASE UNCHANGED vars
    <3>1. UNCHANGED <<qvars, current_, unborn, scan, target, pc>>
      BY <2>1 DEF vars, svars, rvars
    <3> QED BY <3>1, SameReferences
  <2>2. CASE RecorderStep
    <3>1. CASE Reschedule
      BY <3>1, RescheduleLinked
    <3>2. CASE StepExited
      <4>1. /\ UNCHANGED <<qvars, current_, unborn, scan, target>>
            /\ pc = "step" /\ pc' = "end"
        BY <3>2 DEF StepExited, rvars
      <4>2. scan = {}
        BY <4>1 DEF LInv, NoDanglingTask
      <4> QED BY <4>1, <4>2, SameReferences
    <3>3. CASE SchedulerStep
      BY <3>3, SchedulerLinked
    <3>4. CASE \E t \in registered : WaitAny(t)
      BY ZenonT(60), <3>4, WaitLinked
    <3>5. CASE HandlePtraceExitEvent
      BY <3>5, ExitLinked
    <3>6. CASE IgnoreUnstable
      BY <3>6, HandlerLinked DEF IgnoreUnstable, StepFrame
    <3>7. CASE \E t \in registered : Handle(t)
      BY <3>7, HandleLinked
    <3> QED BY <2>2, <3>1, <3>2, <3>3, <3>4, <3>5, <3>6, <3>7 DEF RecorderStep
  <2>3. CASE WaitInterrupted
    BY <2>3, WaitLinked
  <2>4. CASE \E t \in registered : KernelStep(t)
    BY <2>4, KernelLinked
  <2> QED BY <2>1, <2>2, <2>3, <2>4 DEF Next, Stopped
<1>2. QInv'
  BY <1>1, QNextFiled DEF LInv
<1> QED BY <1>1, <1>2 DEF LInv

(***************************************************************************)
(* Recorder implements the containers' specification: no sequence of       *)
(* system calls, signals, deaths and execs makes reschedule or a handler   *)
(* file, move or remove a task in a way SchedulerQueues does not allow.    *)
(***************************************************************************)
THEOREM RecorderImplementsQueues == Spec => QSpec
<1>1. Init => QInit /\ LInv
  BY InitLinked
<1>2. LInv /\ [Next]_vars => LInv' /\ [QNext]_qvars
  BY NextLinked
<1> QED BY <1>1, <1>2, PTL DEF Spec, QSpec

(***************************************************************************)
(* In the recorder every live task is in exactly one container, under its  *)
(* current priority.                                                       *)
(***************************************************************************)
THEOREM RecorderFiledOnce == Spec => []FiledOnce
BY RecorderImplementsQueues, QueuesFiledOnce, PTL

(***************************************************************************)
(* The weak pointers the scheduler unwraps always name live tasks.         *)
(***************************************************************************)
THEOREM RecorderNoDanglingTask == Spec => []NoDanglingTask
<1>1. Init => LInv
  BY InitLinked
<1>2. LInv /\ [Next]_vars => LInv'
  BY NextLinked
<1>3. LInv => NoDanglingTask
  BY ZenonT(60) DEF LInv
<1> QED BY <1>1, <1>2, <1>3, PTL DEF Spec

-----------------------------------------------------------------------------
(* Type correctness, for the variables in the groups of the frames. *)

PcValues == {"step", "waitcur", "loop", "higher", "carry", "front", "any",
             "sigwait", "sigwaitcur", "wait", "run", "end", "panic"}

STypeOK ==
    /\ current_ \in Task \cup {NoTask}
    /\ must_run_task \in Task \cup {NoTask}
    /\ in_exec_tgid \in Task \cup {NoTask}
    /\ timeslice_left \in BOOLEAN
    /\ high_priority_only \in BOOLEAN
    /\ enable_poll \in BOOLEAN
    /\ by_waitpid \in BOOLEAN
    /\ pc \in PcValues
    /\ scan \subseteq Priority \X Task
    /\ target \in Task \cup {NoTask}

WTypeOK ==
    /\ is_stopped \in [Task -> BOOLEAN]
    /\ wait_status \in [Task -> Stops \cup {"none"}]
    /\ detected \in [Task -> BOOLEAN]
    /\ kernel_event \in [Task -> Stops \cup {"none"}]

Events == {"user", "processing", "exiting", "restarting", "sched", "signal", "delivery"}
Details == AllSyscalls \cup ExecStates \cup Signals \cup {"none"}

TTypeOK ==
    /\ unstable \in [Task -> BOOLEAN]
    /\ stable_exit \in [Task -> BOOLEAN]
    /\ emulated_stop \in [Task -> BOOLEAN]
    /\ event \in [Task -> Events]
    /\ detail \in [Task -> Details]
    /\ sigcont \subseteq Task

RTypeOK ==
    /\ last_task_switchable \in {"AllowSwitch", "PreventSwitch"}
    /\ unborn \subseteq Task
    /\ leader \in [Task -> Task]
    /\ killed \subseteq Task

TInv == STypeOK /\ WTypeOK /\ TTypeOK /\ RTypeOK

(* TypeOK is the conjunction of the groups. *)
LEMMA TypeOKGroups == TypeOK <=> QTypeOK /\ TInv
BY DEF TypeOK, TInv, STypeOK, WTypeOK, TTypeOK, RTypeOK, PcValues, Events, Details

(* The values the model writes have the types of the variables. *)
LEMMA StopValues ==
  /\ {"entry", "sysexit", "restart", "slice", "exec", "exit", "none"}
        \cup Signals \subseteq Stops \cup {"none"}
  /\ {"execve_alone", "execve_moved", "execve_done", "none"} \cup Syscalls
        \cup Signals \subseteq Details
BY SyscallsAssumption DEF Stops, Signals, Details, ExecStates, AllSyscalls

(* wait, try_wait and resume_execution *)
LEMMA WaitTypes ==
  ASSUME WTypeOK, NEW t \in Task, DidWaitpid(t) \/ ResumeExecution(t)
  PROVE  WTypeOK'
<1>1. {"none", "exit"} \subseteq Stops \cup {"none"}
  BY DEF Stops
<1>2. CASE DidWaitpid(t)
  BY Zenon, <1>1, <1>2 DEF DidWaitpid, WTypeOK
<1>3. CASE ResumeExecution(t)
  BY ZenonT(60), <1>1, <1>3 DEF ResumeExecution, WTypeOK
<1> QED BY <1>2, <1>3

(* SIGKILL reaches tasks only *)
LEMMA KillTypes ==
  ASSUME registered \subseteq Task, killed \subseteq Task, NEW t, Kill(Group(t))
  PROVE  killed' \subseteq Task
BY Zenon DEF Kill, Group

(* Tracees and kernel *)
LEMMA KernelTypes ==
  ASSUME TInv, LInv, NEW t \in registered, KernelStep(t)
  PROVE  TInv'
<1> USE StopValues DEF Report, Kill, TInv
<1>0. t \in Task /\ registered \subseteq Task /\ Tgid[t] \in Task
  BY TgidAssumption DEF LInv, QInv, QTypeOK
<1>1. CASE RunUser(t)
  <2>1. \A w \in {"entry", "slice"} \cup (Inputs \cap {"sigstop", "sigfatal"}) :
           w \in Stops \cup {"none"}
    BY ZenonT(60) DEF Stops, Signals
  <2>2. WTypeOK'
    BY ZenonT(60), <1>1, <2>1 DEF RunUser, WTypeOK
  <2>3. STypeOK' /\ TTypeOK' /\ RTypeOK'
    BY ZenonT(60), <1>1 DEF RunUser, OtherSvars, tvars, rvars, STypeOK, TTypeOK, RTypeOK
  <2> QED BY <2>2, <2>3
<1>2. CASE TakeSigcont(t)
  <2>1. WTypeOK'
    BY Zenon, <1>2 DEF TakeSigcont, WTypeOK, Stops, Signals
  <2>2. STypeOK' /\ TTypeOK' /\ RTypeOK'
    BY <1>2 DEF TakeSigcont, svars, rvars, STypeOK, TTypeOK, RTypeOK
  <2> QED BY <2>1, <2>2
<1>3. CASE RunSyscall(t)
  <2>1. WTypeOK'
    BY ZenonT(60), <1>3 DEF RunSyscall, KernelFrame, WTypeOK, Stops
  <2>a. killed \subseteq Task
    BY Zenon DEF RTypeOK
  <2>b. killed' = killed \/ Kill(Group(t))
    BY Zenon, <1>3 DEF RunSyscall
  <2>2. killed' \subseteq Task
    BY Zenon, <1>0, <2>a, <2>b, KillTypes
  <2>3. STypeOK' /\ TTypeOK' /\ RTypeOK'
    BY ZenonT(60), <1>3, <2>2 DEF RunSyscall, KernelFrame, svars, tvars, STypeOK, TTypeOK, RTypeOK
  <2> QED BY <2>1, <2>3
<1>4. CASE DeThread(t)
  <2>1. killed' \subseteq Task
    BY Zenon, <1>0, <1>4 DEF DeThread, RTypeOK, Group
  <2> QED BY Zenon, <1>4, <2>1 DEF DeThread, svars, wvars, STypeOK, WTypeOK, TTypeOK, RTypeOK
<1>5. CASE ReportExec(t)
  <2>1. WTypeOK'
    BY ZenonT(60), <1>5 DEF ReportExec, WTypeOK, Stops
  <2>a. "execve_moved" \in Details
    BY Zenon
  <2>b. /\ detail' = detail \/ detail' = [detail EXCEPT ![t] = "execve_moved"]
        /\ killed' \subseteq killed
    BY Zenon, <1>5 DEF ReportExec
  <2>c. detail' \in [Task -> Details]
    BY Zenon, <2>a, <2>b DEF TTypeOK
  <2>d. UNCHANGED <<unstable, stable_exit, emulated_stop, event, sigcont,
                    last_task_switchable, unborn, leader>>
    BY Zenon, <1>5 DEF ReportExec
  <2>2. TTypeOK' /\ RTypeOK'
    BY Zenon, <2>b, <2>c, <2>d DEF TTypeOK, RTypeOK
  <2>3. STypeOK'
    BY ZenonT(60), <1>5 DEF ReportExec, svars, STypeOK
  <2> QED BY <2>1, <2>2, <2>3
<1>6. CASE ReportExit(t)
  <2>1. WTypeOK'
    BY ZenonT(60), <1>6 DEF ReportExit, KernelFrame, WTypeOK, Stops
  <2> QED BY ZenonT(60), <1>6, <2>1
          DEF ReportExit, KernelFrame, svars, tvars, STypeOK, TTypeOK, RTypeOK
<1>7. CASE KillGroup(t)
  <2>a. killed \subseteq Task /\ Kill(Group(t))
    BY Zenon, <1>7 DEF KillGroup, RTypeOK
  <2>1. killed' \subseteq Task
    BY Zenon, <1>0, <2>a, KillTypes
  <2> QED BY ZenonT(60), <1>7, <2>1
          DEF KillGroup, KernelFrame, svars, tvars, STypeOK, WTypeOK, TTypeOK, RTypeOK
<1>8. CASE SendSigcont(t)
  BY ZenonT(60), <1>0, <1>8 DEF SendSigcont, svars, wvars, rvars, STypeOK, WTypeOK, TTypeOK, RTypeOK
<1> QED BY ZenonT(60), <1>1, <1>2, <1>3, <1>4, <1>5, <1>6, <1>7, <1>8 DEF KernelStep

(* What the ends of reschedule determine: see PollTask. *)
EndTypes ==
    /\ current_ \in Task \cup {NoTask}
    /\ timeslice_left \in BOOLEAN
    /\ event \in [Task -> Events]
    /\ pc \in PcValues
    /\ scan \subseteq Priority \X Task

(* The ends of reschedule assign values of the right types. *)
LEMMA EndsTyped ==
  ASSUME TInv, NEW t \in Task, NEW must,
         CarryOn(must) \/ SwitchTo(t, must) \/ EnterWait \/ Select(t, must)
            \/ SelectUnlessLowPriority(t, must) \/ RejectCurrent
  PROVE  EndTypes'
<1>1. ASSUME PopSched PROVE event' \in [Task -> Events]
  BY ZenonT(60), <1>1 DEF PopSched, TInv, TTypeOK, Events
<1>2. CASE CarryOn(must)
  BY ZenonT(60), <1>1, <1>2 DEF CarryOn, Return, Fail, EndTypes, TInv, STypeOK, PcValues
<1>3. ASSUME SwitchTo(t, must) PROVE EndTypes'
  BY ZenonT(60), <1>1, <1>3 DEF SwitchTo, Return, Fail, EndTypes, TInv, STypeOK, PcValues
<1>4. ASSUME EnterWait PROVE EndTypes'
  BY <1>4 DEF EnterWait, EndTypes, TInv, STypeOK, TTypeOK, PcValues
<1>5. ASSUME Select(t, must) PROVE EndTypes'
  BY ZenonT(60), <1>3, <1>4, <1>5 DEF Select
<1>6. CASE SelectUnlessLowPriority(t, must)
  BY ZenonT(60), <1>5, <1>6 DEF SelectUnlessLowPriority, EndTypes, TInv, STypeOK, TTypeOK, PcValues
<1>7. CASE RejectCurrent
  BY ZenonT(60), <1>7 DEF RejectCurrent, EndTypes, TInv, STypeOK, TTypeOK, PcValues
<1> QED BY <1>2, <1>3, <1>4, <1>5, <1>6, <1>7

(* is_task_runnable, for any of its callers *)
LEMMA PollTyped ==
  ASSUME TInv, EndTypes', UNCHANGED rvars, UNCHANGED high_priority_only,
         NEW t \in Task,
         UNCHANGED wvars \/ DidWaitpid(t),
         must_run_task' \in {must_run_task, t},
         enable_poll' \in BOOLEAN, by_waitpid' \in BOOLEAN,
         UNCHANGED <<unstable, stable_exit, emulated_stop, detail, sigcont,
                     in_exec_tgid, target>>
  PROVE  TInv'
<1>1. WTypeOK'
  BY WaitTypes DEF TInv, WTypeOK, wvars
<1> QED BY ZenonT(60), <1>1 DEF TInv, STypeOK, TTypeOK, RTypeOK, rvars, EndTypes

(* What is_task_runnable(t) may change. *)
LEMMA PollEffects ==
  ASSUME NEW t \in Task, PollTask(t)
  PROVE  /\ UNCHANGED wvars \/ DidWaitpid(t)
         /\ must_run_task' \in {must_run_task, t}
         /\ enable_poll' \in {enable_poll, TRUE} /\ by_waitpid' \in {by_waitpid, TRUE}
         /\ UNCHANGED <<unstable, stable_exit, emulated_stop, detail, sigcont,
                        in_exec_tgid, target>>
<1>1. UNCHANGED wvars \/ DidWaitpid(t)
  BY Zenon DEF PollTask
<1>2. must_run_task' \in {must_run_task, t}
  BY Zenon DEF PollTask, MustRun
<1>3. enable_poll' \in {enable_poll, TRUE} /\ by_waitpid' \in {by_waitpid, TRUE}
  BY Zenon DEF PollTask
<1> QED BY Zenon, <1>1, <1>2, <1>3 DEF PollTask

(* The steps of reschedule *)
LEMMA SchedulerTypes ==
  ASSUME TInv, LInv, SchedulerStep
  PROVE  TInv'
<1>0. /\ UNCHANGED rvars
      /\ registered \subseteq Task /\ task_priority_set \subseteq Priority \X Task
  BY DEF SchedulerStep, LInv, QInv, QTypeOK
<1>a. {by_waitpid, enable_poll, TRUE} \subseteq BOOLEAN
  BY ZenonT(60) DEF TInv, STypeOK
<1>1. CASE WaitForCurrent
  <2>1. current_ \in Task /\ DidWaitpid(current_) /\ CarryOn(NoTask)
    BY Zenon, <1>0, <1>1 DEF WaitForCurrent, LInv, NoDanglingTask
  <2>2. EndTypes'
    BY ZenonT(60), <2>1, EndsTyped
  <2> QED BY <1>0, <1>a, <1>1, <2>1, <2>2, PollTyped DEF WaitForCurrent
<1>2. CASE LoopBegin
  <2>1. high_priority_only' \in BOOLEAN
    BY Zenon, <1>2 DEF LoopBegin, MayPreempt, InExecve, TInv, STypeOK
  <2>2. EndTypes'
    <3>1. CASE EnterWait
      BY <3>1, EndsTyped, RootIsTask
    <3>2. CASE ~EnterWait
      BY Zenon, <1>0, <1>2, <3>2 DEF LoopBegin, MayPreempt, InExecve, EndTypes, TInv, STypeOK, TTypeOK, PcValues
    <3> QED BY <3>1, <3>2
  <2> QED BY ZenonT(60), <1>0, <1>2, <2>1, <2>2
          DEF LoopBegin, MayPreempt, InExecve, TInv, STypeOK, WTypeOK, TTypeOK, RTypeOK, rvars, wvars, EndTypes
<1>3. CASE PollHigherPriority
  <2>1. PICK e \in scan :
           /\ PollTask(e[2])
           /\ \/ Select(e[2], MustRun(e[2]))
              \/ scan' = scan \ {e} /\ UNCHANGED <<current_, timeslice_left, event, pc>>
    BY Zenon, <1>3 DEF PollHigherPriority
  <2>2. e[2] \in Task
    BY ZenonT(60), <2>1 DEF TInv, STypeOK
  <2>3. \/ \E must : Select(e[2], must)
        \/ scan' = scan \ {e} /\ UNCHANGED <<current_, timeslice_left, event, pc>>
    BY Zenon, <2>1
  <2>4. EndTypes'
    <3>1. CASE \E must : Select(e[2], must)
      BY ZenonT(60), <2>2, <3>1, EndsTyped
    <3>2. CASE scan' = scan \ {e} /\ UNCHANGED <<current_, timeslice_left, event, pc>>
      BY ZenonT(60), <3>2 DEF EndTypes, TInv, STypeOK, TTypeOK
    <3> QED BY <2>3, <3>1, <3>2
  <2>5. /\ UNCHANGED wvars \/ DidWaitpid(e[2])
        /\ must_run_task' \in {must_run_task, e[2]}
        /\ enable_poll' \in {enable_poll, TRUE} /\ by_waitpid' \in {by_waitpid, TRUE}
        /\ UNCHANGED <<unstable, stable_exit, emulated_stop, detail, sigcont,
                       in_exec_tgid, target>>
    BY Zenon, <2>1, <2>2, PollEffects
  <2>6. UNCHANGED high_priority_only
    BY ZenonT(60), <1>3 DEF PollHigherPriority
  <2> QED BY Zenon, <1>0, <1>a, <2>2, <2>4, <2>5, <2>6, PollTyped
<1>4. CASE NoHigherPriority
  BY ZenonT(60), <1>0, <1>4 DEF NoHigherPriority, wvars, tvars, rvars, TInv, STypeOK, WTypeOK,
                    TTypeOK, RTypeOK, PcValues
<1>5. CASE PollCurrent
  <2>1. current_ \in Task
    BY Zenon, <1>0, <1>5 DEF PollCurrent, LInv, NoDanglingTask
  <2>2. RejectCurrent \/ \E must : CarryOn(must)
    BY Zenon, <1>5 DEF PollCurrent
  <2>3. EndTypes'
    BY <2>1, <2>2, EndsTyped
  <2>4. /\ UNCHANGED wvars \/ DidWaitpid(current_)
        /\ must_run_task' \in {must_run_task, current_}
        /\ enable_poll' \in {enable_poll, TRUE} /\ by_waitpid' \in {by_waitpid, TRUE}
        /\ UNCHANGED <<unstable, stable_exit, emulated_stop, detail, sigcont,
                       in_exec_tgid, target>>
        /\ UNCHANGED high_priority_only
    BY ZenonT(60), <1>5, <2>1, PollEffects DEF PollCurrent
  <2> QED BY Zenon, <1>0, <1>a, <2>1, <2>3, <2>4, PollTyped
<1>6. CASE PollFront
  <2> DEFINE t == Head(task_round_robin_queue)
  <2>1. t \in Task
    BY SMTT(60), <1>6 DEF PollFront, LInv, QInv, QTypeOK
  <2>2. \/ \E must : Select(t, must)
        \/ pc' = "loop" /\ UNCHANGED <<current_, timeslice_left, event, scan>>
    BY Zenon, <1>6 DEF PollFront
  <2>3. /\ UNCHANGED wvars \/ DidWaitpid(t)
        /\ must_run_task' \in {must_run_task, t}
        /\ enable_poll' \in {enable_poll, TRUE} /\ by_waitpid' \in {by_waitpid, TRUE}
        /\ UNCHANGED <<unstable, stable_exit, emulated_stop, detail, sigcont,
                       in_exec_tgid, target>>
        /\ UNCHANGED high_priority_only
    BY Zenon, <1>6, <2>1, PollEffects DEF PollFront
  <2> HIDE DEF t
  <2>4. EndTypes'
    <3>1. CASE \E must : Select(t, must)
      BY <2>1, <3>1, EndsTyped
    <3>2. CASE pc' = "loop" /\ UNCHANGED <<current_, timeslice_left, event, scan>>
      BY ZenonT(60), <3>2 DEF EndTypes, TInv, STypeOK, TTypeOK, PcValues
    <3> QED BY <2>2, <3>1, <3>2
  <2> QED BY Zenon, <1>0, <1>a, <2>1, <2>3, <2>4, PollTyped
<1>7. CASE NoFront
  BY <1>0, <1>7 DEF NoFront, wvars, tvars, rvars, TInv, STypeOK, WTypeOK,
                    TTypeOK, RTypeOK, PcValues
<1>8. CASE PollAny
  <2>1. PICK e \in scan :
           /\ PollTask(e[2])
           /\ \/ SelectUnlessLowPriority(e[2], MustRun(e[2]))
              \/ scan' = scan \ {e} /\ UNCHANGED <<current_, timeslice_left, event, pc>>
    BY Zenon, <1>8 DEF PollAny
  <2>2. e[2] \in Task
    BY <2>1 DEF TInv, STypeOK
  <2>3. \/ \E must : SelectUnlessLowPriority(e[2], must)
        \/ scan' = scan \ {e} /\ UNCHANGED <<current_, timeslice_left, event, pc>>
    BY Zenon, <2>1
  <2>4. EndTypes'
    <3>1. CASE \E must : SelectUnlessLowPriority(e[2], must)
      BY <2>2, <3>1, EndsTyped
    <3>2. CASE scan' = scan \ {e} /\ UNCHANGED <<current_, timeslice_left, event, pc>>
      BY <3>2 DEF EndTypes, TInv, STypeOK, TTypeOK
    <3> QED BY <2>3, <3>1, <3>2
  <2>5. /\ UNCHANGED wvars \/ DidWaitpid(e[2])
        /\ must_run_task' \in {must_run_task, e[2]}
        /\ enable_poll' \in {enable_poll, TRUE} /\ by_waitpid' \in {by_waitpid, TRUE}
        /\ UNCHANGED <<unstable, stable_exit, emulated_stop, detail, sigcont,
                       in_exec_tgid, target>>
    BY Zenon, <2>1, <2>2, PollEffects
  <2>6. UNCHANGED high_priority_only
    BY ZenonT(60), <1>8 DEF PollAny
  <2> QED BY Zenon, <1>0, <1>a, <2>2, <2>4, <2>5, <2>6, PollTyped
<1>9. CASE AllBlocked
  <2>1. EndTypes'
    BY <1>9, EndsTyped, RootIsTask DEF AllBlocked
  <2> QED BY <1>0, <1>9, <2>1 DEF AllBlocked, wvars, rvars, TInv, STypeOK, WTypeOK,
                    TTypeOK, RTypeOK, EndTypes
<1>10. CASE ResumeForSigcont
  <2>1. PICK t \in Polled :
           /\ emulated_stop' = [u \in Task |-> emulated_stop[u] /\ u \notin Group(t)]
           /\ pc' \in {"panic", "sigwait", "sigwaitcur"}
           /\ \/ UNCHANGED <<wvars, target>>
              \/ ResumeExecution(t) /\ target' = t
           /\ UNCHANGED <<unstable, stable_exit, event, detail, sigcont, current_,
                          must_run_task, in_exec_tgid, timeslice_left,
                          high_priority_only, enable_poll, by_waitpid, scan>>
    BY Zenon, <1>10 DEF ResumeForSigcont, EmulateSigcont, Fail
  <2>2. t \in Task
    <3>1. CASE pc \in {"higher", "any"}
      BY <3>1 DEF Polled, TInv, STypeOK
    <3>2. CASE pc = "carry"
      BY <1>0, <3>2 DEF Polled, LInv, NoDanglingTask
    <3>3. CASE pc = "front" /\ task_round_robin_queue # <<>>
      BY <3>3 DEF Polled, LInv, QInv, QTypeOK
    <3>4. CASE ~(pc \in {"higher", "any"} \/ pc = "carry"
                  \/ (pc = "front" /\ task_round_robin_queue # <<>>))
      BY ZenonT(60), <3>4 DEF Polled
    <3> QED BY <3>1, <3>2, <3>3, <3>4
  <2>3. WTypeOK'
    BY ZenonT(60), <2>1, <2>2, WaitTypes DEF TInv, WTypeOK, wvars
  <2>4. TTypeOK'
    BY ZenonT(60), <2>1 DEF TInv, TTypeOK
  <2>5. STypeOK' /\ RTypeOK'
    BY ZenonT(60), <1>0, <2>1, <2>2 DEF TInv, STypeOK, RTypeOK, wvars, rvars, PcValues
  <2> QED BY <2>3, <2>4, <2>5 DEF TInv
<1>11. CASE SigcontWait
  <2>1. target \in Task
    BY Zenon, <1>0, <1>11 DEF SigcontWait, LInv, NoDanglingTask
  <2>2. CarryOn(target) \/ SwitchTo(target, target)
    BY <1>11 DEF SigcontWait
  <2>3. EndTypes'
    BY ZenonT(60), <2>1, <2>2, EndsTyped
  <2>4. WTypeOK'
    BY <1>11, <2>1, WaitTypes DEF SigcontWait, TInv
  <2> QED BY <1>0, <1>11, <2>1, <2>3, <2>4
          DEF SigcontWait, EndTypes, TInv, STypeOK, TTypeOK, RTypeOK, rvars
<1> QED BY <1>1, <1>2, <1>3, <1>4, <1>5, <1>6, <1>7, <1>8, <1>9, <1>10, <1>11
        DEF SchedulerStep

(* Entry of reschedule *)
LEMMA RescheduleTypes ==
  ASSUME TInv, Reschedule
  PROVE  TInv'
<1>1. event' \in [Task -> Events]
  BY Zenon DEF Reschedule, RescheduleBegin, PopSched, TInv, TTypeOK, Events
<1>2. WTypeOK' /\ TTypeOK' /\ RTypeOK'
  BY Zenon, <1>1 DEF Reschedule, RescheduleBegin, TInv, WTypeOK, TTypeOK, RTypeOK, wvars, rvars
<1>3. pc' \in PcValues
  BY Zenon DEF Reschedule, RescheduleBegin, Return, Fail, PcValues
<1>4. STypeOK'
  BY Zenon, <1>3 DEF Reschedule, RescheduleBegin, TInv, STypeOK
<1> QED BY <1>2, <1>4 DEF TInv

(* waitpid(-1) *)
LEMMA WaitAnyTypes ==
  ASSUME TInv, LInv, NEW t \in registered, WaitAny(t)
  PROVE  TInv'
<1>1. t \in Task
  BY DEF LInv, QInv, QTypeOK
<1>2. WTypeOK'
  BY Zenon, <1>1 DEF WaitAny, NoteStatus, TInv, WTypeOK
<1>3. EndTypes'
  <2>1. CASE SwitchTo(t, t)
    BY <1>1, <2>1, EndsTyped
  <2>2. CASE ~SwitchTo(t, t)
    BY Zenon, <2>2 DEF WaitAny, NoteStatus, Fail, EndTypes, TInv, STypeOK, TTypeOK, PcValues
  <2> QED BY ZenonT(60), <2>1, <2>2
<1>4. unstable' \in [Task -> BOOLEAN]
  BY Zenon DEF WaitAny, NoteStatus, TInv, TTypeOK
<1>5. leader' \in [Task -> Task]
  BY Zenon, <1>1 DEF WaitAny, NoteStatus, TInv, RTypeOK
<1>6. TTypeOK' /\ RTypeOK'
  BY Zenon, <1>3, <1>4, <1>5 DEF WaitAny, NoteStatus, TInv, TTypeOK, RTypeOK, EndTypes
<1>7. STypeOK'
  BY ZenonT(60), <1>1, <1>3 DEF WaitAny, NoteStatus, TInv, STypeOK, EndTypes
<1> QED BY <1>2, <1>6, <1>7 DEF TInv

(***************************************************************************)
(* The handlers, from what each may change: the scheduler's variables      *)
(* other than these four are in StepFrame.                                 *)
(***************************************************************************)
LEMMA HandlerTypes ==
  ASSUME TInv, StepFrame,
         current_' \in Task \cup {NoTask}, in_exec_tgid' \in Task \cup {NoTask},
         timeslice_left' \in BOOLEAN, pc' \in {"step", "panic"},
         WTypeOK', TTypeOK', RTypeOK'
  PROVE  TInv'
BY ZenonT(60) DEF TInv, StepFrame, STypeOK, PcValues

(* A consumed wait status *)
LEMMA DontContinueTypes ==
  ASSUME WTypeOK, NEW t \in Task, DontContinue(t)
  PROVE  WTypeOK'
BY DEF WTypeOK, DontContinue

(* The exit and the exec event *)
LEMMA ExitExecTypes ==
  ASSUME TInv, LInv, NEW t \in registered, HandlePtraceExitEvent \/ HandleExecEvent(t)
  PROVE  TInv'
<1>0. registered \subseteq Task /\ t \in Task
  BY ZenonT(60) DEF LInv, QInv, QTypeOK
<1>1. CASE HandlePtraceExitEvent
  <2>1. WTypeOK' /\ TTypeOK' /\ RTypeOK'
    BY Zenon, <1>1 DEF HandlePtraceExitEvent, DestroyedLast, OnDestroyTask, TInv, WTypeOK, TTypeOK, RTypeOK
  <2>2. /\ StepFrame /\ current_' \in Task \cup {NoTask}
        /\ in_exec_tgid' \in Task \cup {NoTask} /\ timeslice_left' \in BOOLEAN
        /\ pc' \in {"step", "panic"}
    BY Zenon, <1>1 DEF HandlePtraceExitEvent, DestroyedLast, OnDestroyTask, TInv, STypeOK
  <2> QED BY <2>1, <2>2, HandlerTypes
<1>2. CASE HandleExecEvent(t)
  <2>1. PICK x \in Group(t) :
          /\ UNCHANGED <<leader, timeslice_left, killed>>
                \/ /\ leader' = [leader EXCEPT ![Tgid[t]] = x]
                   /\ timeslice_left' \in BOOLEAN
                   /\ killed' = IF t \in killed THEN (killed \ {t}) \cup {x} ELSE killed
          /\ current_' = x
          /\ unstable' = [unstable EXCEPT ![x] = FALSE]
          /\ detail' = [detail EXCEPT ![x] = "execve_done"]
          /\ is_stopped' = [is_stopped EXCEPT ![x] = FALSE]
          /\ wait_status' = [wait_status EXCEPT ![t] = "none", ![x] = "none"]
          /\ detected' = [detected EXCEPT ![x] = kernel_event[t] = "exit"]
          /\ kernel_event' = [kernel_event EXCEPT ![t] = "none", ![x] = "none"]
          /\ pc' \in {"step", "panic"}
    <3>1. t \in Group(t)
      BY ZenonT(60) DEF Group
    <3> QED BY Zenon, <1>2, <3>1 DEF HandleExecEvent, Fail
  <2>2. x \in Task
    BY ZenonT(60), <1>0, <2>1 DEF Group
  <2>3. WTypeOK'
    BY Zenon, <2>1 DEF TInv, WTypeOK
  <2>4. TTypeOK'
    BY Zenon, <1>2, <2>1, StopValues DEF HandleExecEvent, TInv, TTypeOK
  <2>5. RTypeOK'
    BY Zenon, <1>2, <2>1, <2>2 DEF HandleExecEvent, TInv, RTypeOK
  <2>6. /\ StepFrame /\ timeslice_left' \in BOOLEAN /\ in_exec_tgid' \in Task \cup {NoTask}
    BY Zenon, <1>2, <2>1 DEF HandleExecEvent, Handling, TInv, STypeOK
  <2> QED BY Zenon, <2>1, <2>2, <2>3, <2>4, <2>5, <2>6, HandlerTypes
<1> QED BY <1>1, <1>2

(* Time slices and signals *)
LEMMA SignalTypes ==
  ASSUME TInv, LInv, NEW t \in registered,
         \/ ContinueUser(t) \/ HandleTimeSlice(t) \/ DeferTimeSlice(t)
         \/ TakeSignal(t) \/ SignalStateChanged(t) \/ DeliverSignal(t)
  PROVE  TInv'
<1>0. registered \subseteq Task /\ t \in Task
  BY ZenonT(60) DEF LInv, QInv, QTypeOK
<1>1. CASE ContinueUser(t) \/ DeferTimeSlice(t)
  <2>0. ResumeExecution(t) \/ UNCHANGED wvars
    BY Zenon, <1>1 DEF ContinueUser, DeferTimeSlice, TaskContinue
  <2>1. WTypeOK'
    <3>1. CASE ResumeExecution(t)
      BY ZenonT(60), <1>0, <3>1, WaitTypes DEF TInv
    <3>2. CASE UNCHANGED wvars
      BY <3>2 DEF TInv, WTypeOK, wvars
    <3> QED BY <2>0, <3>1, <3>2
  <2>2. /\ StepFrame /\ pc' \in {"step", "panic"}
        /\ UNCHANGED <<tvars, current_, in_exec_tgid, timeslice_left, unborn, leader, killed>>
        /\ last_task_switchable' = "PreventSwitch"
    BY ZenonT(60), <1>1 DEF ContinueUser, DeferTimeSlice, TaskContinue, Handling, Fail
  <2>3. TTypeOK' /\ RTypeOK'
    BY ZenonT(60), <2>2 DEF TInv, TTypeOK, RTypeOK, tvars
  <2> QED BY <2>1, <2>2, <2>3, HandlerTypes DEF TInv, STypeOK
<1>2. CASE HandleTimeSlice(t)
  <2>1. WTypeOK'
    BY Zenon, <1>0, <1>2, DontContinueTypes DEF HandleTimeSlice, TInv
  <2>2. TTypeOK' /\ RTypeOK'
    BY Zenon, <1>2 DEF HandleTimeSlice, TInv, TTypeOK, RTypeOK, Events
  <2>3. /\ StepFrame /\ pc' \in {"step", "panic"} /\ timeslice_left' \in BOOLEAN
        /\ UNCHANGED <<current_, in_exec_tgid>>
    BY ZenonT(60), <1>2 DEF HandleTimeSlice, Handling, Fail, TInv, STypeOK
  <2> QED BY <2>1, <2>2, <2>3, HandlerTypes DEF TInv, STypeOK
<1>3. CASE TakeSignal(t) \/ SignalStateChanged(t)
  <2>1. WTypeOK'
    BY <1>0, <1>3, DontContinueTypes DEF TakeSignal, SignalStateChanged, TInv
  <2>2. detail' \in [Task -> Details]
    <3>1. CASE TakeSignal(t)
      <4>1. wait_status[t] \in Details
        BY ZenonT(60), <3>1, StopValues DEF TakeSignal, StatusIs
      <4> QED BY Zenon, <3>1, <4>1 DEF TakeSignal, TInv, TTypeOK
    <3>2. CASE SignalStateChanged(t)
      BY ZenonT(60), <3>2 DEF SignalStateChanged, TInv, TTypeOK
    <3> QED BY ZenonT(60), <1>3, <3>1, <3>2
  <2>3. TTypeOK' /\ RTypeOK'
    BY ZenonT(60), <1>3, <2>2 DEF TakeSignal, SignalStateChanged, SignalFrame, TInv, TTypeOK, RTypeOK,
                      Events
  <2>4. /\ StepFrame /\ pc' \in {"step", "panic"}
        /\ UNCHANGED <<current_, in_exec_tgid, timeslice_left>>
    BY ZenonT(60), <1>3 DEF TakeSignal, SignalStateChanged, SignalFrame, Handling
  <2> QED BY ZenonT(60), <2>1, <2>3, <2>4, HandlerTypes DEF TInv, STypeOK
<1>4. CASE DeliverSignal(t)
  <2>1. WTypeOK'
    BY ZenonT(60), <1>0, <1>4, WaitTypes, DontContinueTypes DEF DeliverSignal, EmulateSigcont, DeliverySwitchable, TInv
  <2>2. unstable' \in [Task -> BOOLEAN] /\ emulated_stop' \in [Task -> BOOLEAN]
    BY Zenon, <1>4 DEF DeliverSignal, EmulateSigcont, DeliverySwitchable, TInv, TTypeOK
  <2>3. killed' \subseteq Task
    BY Zenon, <1>0, <1>4 DEF DeliverSignal, EmulateSigcont, DeliverySwitchable, Kill, Group, TInv, RTypeOK
  <2>4. TTypeOK' /\ RTypeOK'
    BY ZenonT(60), <1>4, <2>2, <2>3 DEF DeliverSignal, EmulateSigcont, DeliverySwitchable, SignalFrame, TInv, TTypeOK, RTypeOK, Events
  <2>5. /\ StepFrame /\ pc' \in {"step", "panic"}
        /\ UNCHANGED <<current_, in_exec_tgid, timeslice_left>>
    BY ZenonT(60), <1>4 DEF DeliverSignal, EmulateSigcont, DeliverySwitchable, SignalFrame, Handling
  <2> QED BY <2>1, <2>4, <2>5, HandlerTypes DEF TInv, STypeOK
<1> QED BY ZenonT(60), <1>1, <1>2, <1>3, <1>4

(* The common part of system call entry *)
LEMMA EnterTypes ==
  ASSUME TInv, LInv, NEW t \in registered, NEW s \in Syscalls,
         NEW sw \in {"AllowSwitch", "PreventSwitch"}, Enter(t, s, sw),
         TaskContinue(t) \/ (UNCHANGED wvars /\ pc' = "panic"),
         in_exec_tgid' \in Task \cup {NoTask}, timeslice_left' \in BOOLEAN,
         stable_exit' \in [Task -> BOOLEAN], unborn' \subseteq Task
  PROVE  TInv'
<1>1. t \in Task
  BY DEF LInv, QInv, QTypeOK
<1>2. WTypeOK' /\ pc' \in {"step", "panic"}
  BY Zenon, <1>1, WaitTypes DEF TaskContinue, TInv, WTypeOK, wvars, Fail
<1>3. s \in Details
  BY ZenonT(60), StopValues
<1>4. TTypeOK' /\ RTypeOK'
  BY Zenon, <1>3 DEF Enter, TInv, TTypeOK, RTypeOK, Events
<1> QED BY ZenonT(60), <1>2, <1>4, HandlerTypes DEF Enter, Handling, TInv, STypeOK

(* System calls *)
LEMMA SyscallTypes ==
  ASSUME TInv, LInv, NEW t \in registered,
         \/ EnterPlain(t) \/ EnterSchedYield(t) \/ EnterExecve(t) \/ EnterExit(t)
         \/ EnterClone(t) \/ EnterSetpriority(t)
         \/ SyscallProcessed(t) \/ SyscallExited(t)
  PROVE  TInv'
<1>0. t \in Task /\ Tgid[t] \in Task
  BY ZenonT(60), TgidAssumption DEF LInv, QInv, QTypeOK
<1>a. /\ in_exec_tgid \in Task \cup {NoTask} /\ timeslice_left \in BOOLEAN
      /\ stable_exit \in [Task -> BOOLEAN] /\ unborn \subseteq Task
  BY ZenonT(60) DEF TInv, STypeOK, TTypeOK, RTypeOK
<1>1. CASE \/ EnterPlain(t) \/ EnterSchedYield(t) \/ EnterExecve(t) \/ EnterExit(t)
           \/ EnterClone(t) \/ EnterSetpriority(t)
  <2>1. PICK s \in Syscalls, sw \in {"AllowSwitch", "PreventSwitch"} : Enter(t, s, sw)
    BY Zenon, <1>1 DEF EnterPlain, EnterSchedYield, EnterExecve, EnterExit, EnterClone,
                EnterSetpriority, Enter
  <2>2. TaskContinue(t) \/ (UNCHANGED wvars /\ pc' = "panic")
    BY Zenon, <1>1 DEF EnterPlain, EnterSchedYield, EnterExecve, EnterExit, EnterClone,
                EnterSetpriority, Fail
  <2>3. /\ in_exec_tgid' \in Task \cup {NoTask} /\ timeslice_left' \in BOOLEAN
        /\ unborn' \subseteq Task
    BY Zenon, <1>0, <1>a, <1>1 DEF EnterPlain, EnterSchedYield, EnterExecve, EnterExit, EnterClone,
                EnterSetpriority
  <2>4. stable_exit' \in [Task -> BOOLEAN]
    BY ZenonT(60), <1>a, <1>1 DEF EnterPlain, EnterSchedYield, EnterExecve, EnterExit, EnterClone,
                EnterSetpriority, StableExit
  <2> QED BY <2>1, <2>2, <2>3, <2>4, EnterTypes
<1>2. CASE SyscallProcessed(t) \/ SyscallExited(t)
  <2>1. WTypeOK'
    BY Zenon, <1>0, <1>2, DontContinueTypes DEF SyscallProcessed, SyscallExited, DidExitExecve, TInv
  <2>2. TTypeOK' /\ RTypeOK'
    BY Zenon, <1>2, StopValues DEF SyscallProcessed, SyscallExited, DidExitExecve, TInv, TTypeOK, RTypeOK, Events
  <2>3. /\ StepFrame /\ pc' \in {"step", "panic"}
        /\ UNCHANGED <<current_, timeslice_left>> /\ in_exec_tgid' \in Task \cup {NoTask}
    BY ZenonT(60), <1>a, <1>2 DEF SyscallProcessed, SyscallExited, DidExitExecve, Handling, Fail
  <2> QED BY <2>1, <2>2, <2>3, HandlerTypes DEF TInv, STypeOK
<1> QED BY ZenonT(60), <1>1, <1>2

(* Every step is well typed. *)
LEMMA NextTypes ==
  ASSUME TInv, LInv, [Next]_vars
  PROVE  TInv'
<1>1. CASE UNCHANGED vars
  BY ZenonT(60), <1>1 DEF vars, svars, wvars, tvars, rvars, TInv, STypeOK, WTypeOK, TTypeOK, RTypeOK
<1>2. CASE Reschedule
  BY <1>2, RescheduleTypes
<1>3. CASE StepExited \/ WaitInterrupted
  BY ZenonT(60), <1>3 DEF StepExited, WaitInterrupted, Fail, wvars, tvars, rvars,
              TInv, STypeOK, WTypeOK, TTypeOK, RTypeOK, PcValues
<1>4. CASE SchedulerStep
  BY <1>4, SchedulerTypes
<1>5. CASE \E t \in registered : WaitAny(t)
  BY <1>5, WaitAnyTypes
<1>6. CASE HandlePtraceExitEvent
  <2>1. current_ \in registered
    BY ZenonT(60), <1>6 DEF HandlePtraceExitEvent, DestroyedLast, OnDestroyTask, LInv, NoDanglingTask
  <2> QED BY <1>6, <2>1, ExitExecTypes
<1>7. CASE IgnoreUnstable
  <2>1. current_ \in Task
    BY ZenonT(60), <1>7 DEF IgnoreUnstable, LInv, NoDanglingTask, QInv, QTypeOK
  <2>2. WTypeOK'
    BY ZenonT(60), <1>7, <2>1, DontContinueTypes DEF IgnoreUnstable, TInv
  <2>3. TTypeOK' /\ RTypeOK'
    BY ZenonT(60), <1>7 DEF IgnoreUnstable, TInv, TTypeOK, RTypeOK, tvars
  <2> QED BY Zenon, <1>7, <2>2, <2>3, HandlerTypes DEF IgnoreUnstable, TInv, STypeOK
<1>8. CASE \E t \in registered : Handle(t)
  BY <1>8, ExitExecTypes, SignalTypes, SyscallTypes DEF Handle
<1>9. CASE \E t \in registered : KernelStep(t)
  BY <1>9, KernelTypes
<1> QED BY ZenonT(60), <1>1, <1>2, <1>3, <1>4, <1>5, <1>6, <1>7, <1>8, <1>9
        DEF Next, RecorderStep, Stopped

(* The initial values have the types of the variables. *)
LEMMA InitTypes ==
  ASSUME Init
  PROVE  TInv
<1>1. STypeOK
  BY Zenon DEF Init, STypeOK, PcValues
<1>2. WTypeOK
  BY ZenonT(60) DEF Init, WTypeOK
<1>3. TTypeOK
  BY ZenonT(60), StopValues DEF Init, TTypeOK, Events
<1>4. RTypeOK
  BY TgidAssumption DEF Init, RTypeOK
<1> QED BY <1>1, <1>2, <1>3, <1>4 DEF TInv

(***************************************************************************)
(* Type correctness of the recorder for every number of tasks.             *)
(***************************************************************************)
THEOREM RecorderTypeOK == Spec => []TypeOK
<1>1. Init => LInv /\ TInv
  BY ZenonT(60), InitLinked, InitTypes
<1>2. LInv /\ TInv /\ [Next]_vars => (LInv /\ TInv)'
  BY NextLinked, NextTypes
<1>3. LInv /\ TInv => TypeOK
  BY TypeOKGroups DEF LInv, QInv
<1> QED BY <1>1, <1>2, <1>3, PTL DEF Spec

-----------------------------------------------------------------------------
(***************************************************************************)
(* While a group is in execve the selection loop is not entered, and the   *)
(* current task, if any, belongs to the group.                             *)
(***************************************************************************)
Selecting == {"higher", "carry", "front", "any", "sigwait", "sigwaitcur"}

EInv ==
    in_exec_tgid # NoTask =>
       /\ pc \notin Selecting
       /\ current_ = NoTask \/ Tgid[current_] = in_exec_tgid

(* The selection loop runs only without an execve, and leaves that alone. *)
LEMMA SchedulerExec ==
  ASSUME EInv, SchedulerStep
  PROVE  /\ EInv' /\ in_exec_tgid' = in_exec_tgid
         /\ in_exec_tgid # NoTask => current_' = current_
<1>1. in_exec_tgid' = in_exec_tgid
  BY ZenonT(60) DEF SchedulerStep, WaitForCurrent, LoopBegin, MayPreempt, InExecve, PollHigherPriority, NoHigherPriority,
         PollCurrent, PollFront, NoFront, PollAny, AllBlocked, ResumeForSigcont, EmulateSigcont,
         SigcontWait, PollTask
<1>2. CASE in_exec_tgid = NoTask
  BY ZenonT(60), <1>1, <1>2 DEF EInv
<1>3. CASE in_exec_tgid # NoTask
  <2>1. pc \notin Selecting
    BY ZenonT(60), <1>3 DEF EInv
  <2>2. CASE WaitForCurrent
    BY ZenonT(60), <1>1, <2>2 DEF WaitForCurrent, CarryOn, Return, Fail, EInv, Selecting
  <2>3. CASE LoopBegin
    BY <1>1, <1>3, <2>3 DEF LoopBegin, MayPreempt, InExecve, EnterWait, EInv, Selecting
  <2>4. ~ResumeForSigcont
    BY Zenon, <2>1 DEF ResumeForSigcont, EmulateSigcont, Polled, Selecting
  <2> QED BY ZenonT(60), <2>1, <2>2, <2>3, <2>4
          DEF SchedulerStep, PollHigherPriority, NoHigherPriority,
              PollCurrent, PollFront, NoFront, PollAny, AllBlocked, SigcontWait, Selecting
<1> QED BY <1>2, <1>3, <1>1

(* A step of any kind switches to a task of the group in execve only. *)
LEMMA NextExec ==
  ASSUME EInv, LInv, [Next]_vars
  PROVE  /\ EInv'
         /\ in_exec_tgid # NoTask /\ current_' \notin {current_, NoTask}
               => Tgid[current_'] = in_exec_tgid
<1> USE DEF EInv
<1>1. CASE UNCHANGED vars
  BY Zenon, <1>1 DEF vars, svars
<1>2. CASE Reschedule
  BY Zenon, <1>2 DEF Reschedule, RescheduleBegin, Return, Fail, Selecting
<1>3. CASE StepExited \/ WaitInterrupted
  BY ZenonT(60), <1>3 DEF StepExited, WaitInterrupted, Fail, Selecting
<1>4. CASE SchedulerStep
  BY <1>4, SchedulerExec
<1>5. ASSUME NEW t \in registered, WaitAny(t)
      PROVE  /\ EInv'
             /\ in_exec_tgid # NoTask /\ current_' \notin {current_, NoTask}
                   => Tgid[current_'] = in_exec_tgid
  BY Zenon, <1>5 DEF WaitAny, NoteStatus, SwitchTo, Return, Fail, Selecting
<1>6. CASE HandlePtraceExitEvent
  BY Zenon, <1>6 DEF HandlePtraceExitEvent, DestroyedLast, OnDestroyTask, Selecting
<1>7. CASE IgnoreUnstable
  BY Zenon, <1>7 DEF IgnoreUnstable, Selecting
<1>8. ASSUME NEW t \in registered, Handle(t)
      PROVE  /\ EInv'
             /\ in_exec_tgid # NoTask /\ current_' \notin {current_, NoTask}
                   => Tgid[current_'] = in_exec_tgid
  <2>0. t # NoTask
    BY ZenonT(60), TaskAssumption DEF LInv, QInv, QTypeOK, NoTask
  <2> USE DEF Handling, Fail, TaskContinue, Selecting
  <2>1. CASE HandleExecEvent(t)
    <3>1. PICK x \in Group(t) : current_' = x
      <4>1. t \in Group(t)
        BY DEF Group
      <4> QED BY ZenonT(60), <2>1, <4>1 DEF HandleExecEvent
    <3>2. /\ Tgid[x] = Tgid[t] /\ t = current_ /\ in_exec_tgid' = in_exec_tgid
          /\ pc' \in {"step", "panic"}
      BY Zenon, <2>1 DEF Group, HandleExecEvent
    <3> QED BY <2>0, <3>1, <3>2
  <2>2. CASE EnterExecve(t)
    BY Zenon, <2>2 DEF EnterExecve, Enter
  <2>3. CASE SyscallExited(t)
    BY Zenon, <2>3 DEF SyscallExited, DidExitExecve
  <2>4. CASE \/ ContinueUser(t) \/ HandleTimeSlice(t) \/ DeferTimeSlice(t)
             \/ TakeSignal(t) \/ SignalStateChanged(t) \/ DeliverSignal(t)
             \/ SyscallProcessed(t)
    BY Zenon, <2>4 DEF ContinueUser, HandleTimeSlice, DeferTimeSlice, TakeSignal,
                SignalStateChanged, DeliverSignal, EmulateSigcont, DeliverySwitchable, SignalFrame, SyscallProcessed
  <2>5. CASE \/ EnterPlain(t) \/ EnterSchedYield(t) \/ EnterExit(t) \/ EnterClone(t)
             \/ EnterSetpriority(t)
    BY Zenon, <2>5 DEF EnterPlain, EnterSchedYield, EnterExit, EnterClone, EnterSetpriority, Enter
  <2> QED BY Zenon, <1>8, <2>1, <2>2, <2>3, <2>4, <2>5 DEF Handle
<1>9. ASSUME NEW t \in registered, KernelStep(t)
      PROVE  UNCHANGED <<in_exec_tgid, current_, pc>>
  BY Zenon, <1>9 DEF KernelStep, RunUser, TakeSigcont, RunSyscall, DeThread, ReportExec, ReportExit,
              KillGroup, SendSigcont, KernelFrame, OtherSvars, svars
<1> QED BY Zenon, <1>1, <1>2, <1>3, <1>4, <1>5, <1>6, <1>7, <1>8, <1>9
        DEF Next, RecorderStep, Stopped

(***************************************************************************)
(* While a thread group is in execve, no task of another group becomes     *)
(* current, for any number of groups and threads.                          *)
(***************************************************************************)
THEOREM RecorderOnlyExecGroup == Spec => OnlyExecGroupScheduled
<1>1. Init => LInv /\ EInv
  BY ZenonT(60), InitLinked DEF Init, EInv
<1>2. LInv /\ EInv /\ [Next]_vars => (LInv /\ EInv)'
  BY ZenonT(60), NextLinked, NextExec
<1>3. LInv /\ EInv /\ [Next]_vars =>
         [in_exec_tgid # NoTask /\ current_' \notin {current_, NoTask}
             => Tgid[current_'] = in_exec_tgid]_vars
  BY NextExec
<1> QED BY <1>1, <1>2, <1>3, PTL DEF Spec, OnlyExecGroupScheduled

=============================================================================
