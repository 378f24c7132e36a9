--------------------------- MODULE SchedulerQueues ---------------------------
(***************************************************************************)
(* The task containers of the recorder's scheduler (src/src/scheduler.rs): *)
(* the ordered set task_priority_set of (priority, task) pairs and the     *)
(* FIFO task_round_robin_queue, with the two per-task fields               *)
(* RecordTask::priority and RecordTask::in_round_robin_queue that say      *)
(* where a task is filed.                                                  *)
(*                                                                         *)
(* A task is represented by its stable_serial, which orders tasks of equal *)
(* priority (priority_tup.rs) and never changes while the task exists.     *)
(*                                                                         *)
(* The pair stored in the set is a copy of the priority at the time of the *)
(* insertion: nothing but the discipline of these operations keeps it      *)
(* equal to the task's priority field, and a removal with a stale pair     *)
(* silently removes nothing.  The operations below therefore work on the   *)
(* pairs exactly as the code does.                                         *)
(***************************************************************************)
EXTENDS Integers, Sequences, FiniteSets

CONSTANTS
    Task,           \* stable serials of all tasks the session may ever have
    Priority,       \* values RecordTask::priority may take
    EnableChaos     \* Scheduler::enable_chaos

NoTask == 0

ASSUME TaskAssumption == Task \subseteq Nat \ {0} /\ IsFiniteSet(Task) /\ Task # {}
ASSUME PriorityAssumption == Priority \subseteq Int /\ {-9999, 0, 1} \subseteq Priority
ASSUME ChaosAssumption == EnableChaos \in BOOLEAN

VARIABLES
    task_priority_set,      \* subset of Priority \X Task
    task_round_robin_queue, \* sequence of tasks
    in_round_robin_queue,   \* [Task -> BOOLEAN]
    priority,               \* [Task -> Priority]
    registered              \* tasks between on_create_task and on_destroy_task

qvars == <<task_priority_set, task_round_robin_queue, in_round_robin_queue,
           priority, registered>>

QTypeOK ==
    /\ task_priority_set \subseteq Priority \X Task
    /\ task_round_robin_queue \in Seq(Task)
    /\ in_round_robin_queue \in [Task -> BOOLEAN]
    /\ priority \in [Task -> Priority]
    /\ registered \subseteq Task

(* The session's constructor has registered the first task. *)
QInit ==
    /\ \E t \in Task, p \in Priority :
          /\ registered = {t}
          /\ priority = [u \in Task |-> IF u = t THEN p ELSE 0]
          /\ task_priority_set = {<<p, t>>}
    /\ task_round_robin_queue = <<>>
    /\ in_round_robin_queue = [t \in Task |-> FALSE]

Entry(t) == <<priority[t], t>>

Queued == {task_round_robin_queue[i] : i \in 1..Len(task_round_robin_queue)}

IsFront(t) ==
    /\ task_round_robin_queue # <<>>
    /\ Head(task_round_robin_queue) = t

(* Mutant: the popped task is filed nowhere. *)
PopFront_Forgets ==
    /\ task_round_robin_queue # <<>>
    /\ task_round_robin_queue' = Tail(task_round_robin_queue)
    /\ in_round_robin_queue' =
          [in_round_robin_queue EXCEPT ![Head(task_round_robin_queue)] = FALSE]
    /\ UNCHANGED <<task_priority_set, priority, registered>>

(***************************************************************************)
(* maybe_pop_round_robin_task: nothing unless t is at the front.           *)
(***************************************************************************)
PopFront ==
    /\ task_round_robin_queue # <<>>
    /\ LET t == Head(task_round_robin_queue) IN
       /\ task_round_robin_queue' = Tail(task_round_robin_queue)
       /\ in_round_robin_queue' = [in_round_robin_queue EXCEPT ![t] = FALSE]
       /\ task_priority_set' = task_priority_set \cup {Entry(t)}
    /\ UNCHANGED <<priority, registered>>

MaybePopRoundRobinTask(t) ==
    IF IsFront(t) THEN PopFront ELSE UNCHANGED qvars

(***************************************************************************)
(* The loop of reschedule that empties the queue before waitpid(-1).       *)
(***************************************************************************)
ClearRoundRobinQueue ==
    /\ task_round_robin_queue' = <<>>
    /\ in_round_robin_queue' =
          [t \in Task |-> in_round_robin_queue[t] /\ t \notin Queued]
    /\ task_priority_set' = task_priority_set \cup {Entry(t) : t \in Queued}
    /\ UNCHANGED <<priority, registered>>

(***************************************************************************)
(* The order of PriorityTup.                                               *)
(***************************************************************************)
PairLess(e, f) == e[1] < f[1] \/ (e[1] = f[1] /\ e[2] < f[2])

IsEnumeration(s, E) ==
    /\ s \in [1..Cardinality(E) -> E]
    /\ \A e \in E : \E i \in 1..Cardinality(E) : s[i] = e
    /\ \A i, j \in 1..Cardinality(E) : i < j => PairLess(s[i], s[j])

(***************************************************************************)
(* schedule_one_round_robin(t), for t not in the queue or at its front:    *)
(* after popping t, every other task of the set is appended in priority    *)
(* order, the set is emptied and t goes last.                              *)
(***************************************************************************)
ScheduleOneRoundRobin(t) ==
    LET front  == IsFront(t)
        rest   == IF front THEN Tail(task_round_robin_queue)
                           ELSE task_round_robin_queue
        others == {e \in task_priority_set :
                      e[2] # t /\ ~in_round_robin_queue[e[2]]}
    IN  /\ front \/ ~in_round_robin_queue[t]
        /\ \E s \in [1..Cardinality(others) -> others] :
              /\ IsEnumeration(s, others)
              /\ task_round_robin_queue' =
                    rest \o [i \in 1..Cardinality(others) |-> s[i][2]] \o <<t>>
        /\ in_round_robin_queue' =
              [u \in Task |-> \/ in_round_robin_queue[u]
                              \/ u = t
                              \/ \E e \in others : e[2] = u]
        /\ task_priority_set' = {}
        /\ UNCHANGED <<priority, registered>>

(***************************************************************************)
(* on_create_task(t), after post_wait_clone copied the parent's priority p *)
(* (in chaos mode choose_random_priority replaces it).                     *)
(***************************************************************************)
CreateTask(t, p) ==
    /\ t \notin registered
    /\ \E v \in IF EnableChaos THEN {0, 1} ELSE {p} :
          /\ priority' = [priority EXCEPT ![t] = v]
          /\ task_priority_set' = task_priority_set \cup {<<v, t>>}
    /\ registered' = registered \cup {t}
    /\ UNCHANGED <<task_round_robin_queue, in_round_robin_queue>>

(***************************************************************************)
(* The container part of on_destroy_task(t).  in_round_robin_queue is left *)
(* as it is: the task object is about to be dropped.                       *)
(***************************************************************************)
RemoveTask(t) ==
    /\ IF in_round_robin_queue[t]
       THEN /\ UNCHANGED task_priority_set
            /\ IF t \in Queued
               THEN \E k \in 1..Len(task_round_robin_queue) :
                      /\ task_round_robin_queue[k] = t
                      /\ \A j \in 1..(k-1) : task_round_robin_queue[j] # t
                      /\ task_round_robin_queue' =
                            [i \in 1..(Len(task_round_robin_queue) - 1) |->
                                IF i < k THEN task_round_robin_queue[i]
                                         ELSE task_round_robin_queue[i+1]]
               ELSE UNCHANGED task_round_robin_queue
       ELSE /\ task_priority_set' = task_priority_set \ {Entry(t)}
            /\ UNCHANGED task_round_robin_queue
    /\ registered' = registered \ {t}
    /\ UNCHANGED <<in_round_robin_queue, priority>>

(***************************************************************************)
(* update_task_priority_internal for every task of T at once, T a          *)
(* singleton except in maybe_reset_priorities; p[t] is the new value.      *)
(* Values of distinct tasks do not interfere, so the loop of               *)
(* maybe_reset_priorities is one simultaneous update.                      *)
(***************************************************************************)
SetPriorities(T, p) ==
    LET moved == {t \in T : ~in_round_robin_queue[t] /\ p[t] # priority[t]}
    IN  /\ priority' = [t \in Task |-> IF t \in T THEN p[t] ELSE priority[t]]
        /\ task_priority_set' =
              (task_priority_set \ {Entry(t) : t \in moved})
                 \cup {<<p[t], t>> : t \in moved}
        /\ UNCHANGED <<task_round_robin_queue, in_round_robin_queue, registered>>

(***************************************************************************)
(* maybe_reset_priorities, when the refresh time has come: every task that *)
(* is filed anywhere draws a new priority.                                 *)
(***************************************************************************)
Filed == {e[2] : e \in task_priority_set} \cup Queued

ResetPriorities ==
    /\ EnableChaos
    /\ \E p \in [Filed -> {0, 1}] : SetPriorities(Filed, p)

(***************************************************************************)
(* The containers on their own: any sequence of operations their callers   *)
(* may issue.  QSpec is the abstract specification that Recorder           *)
(* implements.                                                             *)
(***************************************************************************)
QNext ==
    \/ PopFront
    \/ ClearRoundRobinQueue
    \/ ResetPriorities
    \/ \E t \in registered : ScheduleOneRoundRobin(t) \/ RemoveTask(t)
    \/ \E t \in registered, v \in Priority :
          SetPriorities({t}, [u \in {t} |-> v])
    \/ \E t \in Task \ registered, v \in Priority :
          ~in_round_robin_queue[t] /\ CreateTask(t, v)

QSpec == QInit /\ [][QNext]_qvars

-----------------------------------------------------------------------------
(***************************************************************************)
(* Every registered task is in exactly one container, the one its          *)
(* in_round_robin_queue flag names, once, and the pair in the set carries  *)
(* its current priority (the comment on Scheduler::task_priority_set,      *)
(* scheduler.rs:135-141).  If it fails, a task is never scheduled again,   *)
(* or a destroyed task is upgraded from a dead weak pointer.               *)
(***************************************************************************)
FiledOnce ==
    /\ \A p \in Priority, t \in Task :
          <<p, t>> \in task_priority_set <=>
             t \in registered /\ ~in_round_robin_queue[t] /\ p = priority[t]
    /\ \A t \in Task :
          t \in Queued <=> t \in registered /\ in_round_robin_queue[t]
    /\ \A i, j \in 1..Len(task_round_robin_queue) :
          task_round_robin_queue[i] = task_round_robin_queue[j] => i = j

=============================================================================
