------------------------ MODULE SchedulerQueuesProofs ------------------------
(***************************************************************************)
(* FiledOnce is an inductive invariant of the scheduler's containers, for  *)
(* every finite set of tasks, every set of priorities and both modes.      *)
(* There is one lemma for each operation.                                  *)
(***************************************************************************)
EXTENDS SchedulerQueues, FiniteSetTheorems, TLAPS

QInv == QTypeOK /\ FiledOnce

(* The containers are well filed after the session's constructor. *)
LEMMA QInitFiled == QInit => QInv
<1> SUFFICES ASSUME QInit PROVE QInv
  OBVIOUS
<1>1. PICK t \in Task, p \in Priority :
         /\ registered = {t}
         /\ priority = [u \in Task |-> IF u = t THEN p ELSE 0]
         /\ task_priority_set = {<<p, t>>}
  BY DEF QInit
<1>2. /\ task_round_robin_queue = <<>>
      /\ in_round_robin_queue = [u \in Task |-> FALSE]
  BY DEF QInit
<1>3. QTypeOK
  BY <1>1, <1>2, PriorityAssumption DEF QTypeOK
<1>4. FiledOnce
  BY <1>1, <1>2 DEF FiledOnce, Queued
<1> QED BY <1>3, <1>4 DEF QInv

(* maybe_pop_round_robin_task of the front task. *)
LEMMA PopFrontFiled == QInv /\ PopFront => QInv'
<1> SUFFICES ASSUME QInv, PopFront PROVE QInv'
  OBVIOUS
<1> DEFINE q == task_round_robin_queue
           t == Head(q)
<1>1. /\ q \in Seq(Task) /\ q # <<>> /\ Len(q) \in Nat /\ Len(q) > 0
      /\ t \in Task /\ t = q[1]
  BY DEF QInv, QTypeOK, PopFront
<1>2. /\ q' \in Seq(Task) /\ Len(q') = Len(q) - 1
      /\ \A i \in 1..Len(q') : q'[i] = q[i+1]
  BY <1>1 DEF PopFront
<1>3. /\ in_round_robin_queue' = [in_round_robin_queue EXCEPT ![t] = FALSE]
      /\ task_priority_set' = task_priority_set \cup {<<priority[t], t>>}
      /\ priority' = priority /\ registered' = registered
  BY DEF PopFront, Entry
<1>4. t \in registered /\ in_round_robin_queue[t]
  BY <1>1 DEF QInv, FiledOnce, Queued
<1>5. QTypeOK'
  BY <1>1, <1>2, <1>3 DEF QInv, QTypeOK
<1>6. \A p \in Priority, u \in Task :
         <<p, u>> \in task_priority_set' <=>
            u \in registered' /\ ~in_round_robin_queue'[u] /\ p = priority'[u]
  BY ZenonT(60), <1>1, <1>3, <1>4 DEF QInv, FiledOnce, QTypeOK
<1>7. \A i, j \in 1..Len(q') : q'[i] = q'[j] => i = j
  BY <1>1, <1>2 DEF QInv, FiledOnce
<1>8. \A u \in Task : u \in Queued' <=> u \in Queued /\ u # t
  <2> TAKE u \in Task
  <2>1. ASSUME u \in Queued' PROVE u \in Queued /\ u # t
    <3>1. PICK i \in 1..Len(q') : u = q'[i]
      BY <2>1 DEF Queued
    <3>2. i + 1 \in 1..Len(q) /\ 1 \in 1..Len(q) /\ i + 1 # 1 /\ u = q[i+1]
      BY <3>1, <1>1, <1>2
    <3> QED BY <3>2, <1>1 DEF Queued, QInv, FiledOnce
  <2>2. ASSUME u \in Queued, u # t PROVE u \in Queued'
    <3>1. PICK i \in 1..Len(q) : u = q[i]
      BY <2>2 DEF Queued
    <3>2. i - 1 \in 1..Len(q') /\ u = q'[i-1]
      BY <3>1, <2>2, <1>1, <1>2
    <3> QED BY <3>2 DEF Queued
  <2> QED BY <2>1, <2>2
<1>9. \A u \in Task : u \in Queued' <=> u \in registered' /\ in_round_robin_queue'[u]
  BY <1>8, <1>3, <1>1 DEF QInv, FiledOnce, QTypeOK
<1> QED BY <1>5, <1>6, <1>7, <1>9 DEF QInv, FiledOnce

(* The loop that empties the round-robin queue. *)
LEMMA ClearFiled == QInv /\ ClearRoundRobinQueue => QInv'
<1> SUFFICES ASSUME QInv, ClearRoundRobinQueue PROVE QInv'
  OBVIOUS
<1>1. Queued \subseteq Task
  BY DEF Queued, QInv, QTypeOK
<1>2. Queued' = {}
  BY DEF ClearRoundRobinQueue, Queued
<1>3. QTypeOK'
  BY <1>1 DEF QInv, QTypeOK, ClearRoundRobinQueue, Entry
<1>4. \A u \in Task : ~in_round_robin_queue'[u] \/ u \notin registered
  BY Zenon DEF QInv, FiledOnce, ClearRoundRobinQueue
<1>5. ASSUME NEW p \in Priority, NEW u \in Task
      PROVE  <<p, u>> \in task_priority_set' <=>
                u \in registered' /\ ~in_round_robin_queue'[u] /\ p = priority'[u]
  <2>1. <<p, u>> \in task_priority_set' <=>
           <<p, u>> \in task_priority_set \/ (u \in Queued /\ p = priority[u])
    BY <1>1 DEF ClearRoundRobinQueue, Entry
  <2> QED BY <2>1, <1>4 DEF QInv, FiledOnce, ClearRoundRobinQueue
<1> QED BY <1>2, <1>3, <1>4, <1>5 DEF QInv, FiledOnce, ClearRoundRobinQueue

(* on_create_task of a task that is not registered. *)
LEMMA CreateTaskFiled ==
  ASSUME QInv, NEW t \in Task, NEW v \in Priority,
         ~in_round_robin_queue[t], CreateTask(t, v)
  PROVE  QInv'
<1> DEFINE draws == IF EnableChaos THEN {0, 1} ELSE {v}
<1>0. draws \subseteq Priority
  BY PriorityAssumption
<1>1. PICK w \in draws :
         /\ priority' = [priority EXCEPT ![t] = w]
         /\ task_priority_set' = task_priority_set \cup {<<w, t>>}
  BY Zenon DEF CreateTask
<1>2. /\ registered' = registered \cup {t}
      /\ UNCHANGED <<task_round_robin_queue, in_round_robin_queue>>
      /\ t \notin registered
  BY DEF CreateTask
<1>3. Queued' = Queued
  BY <1>2 DEF Queued
<1>4. QTypeOK'
  BY <1>0, <1>1, <1>2 DEF QInv, QTypeOK
<1>5. FiledOnce'
  BY <1>0, <1>1, <1>2, <1>3 DEF QInv, QTypeOK, FiledOnce
<1> QED BY <1>4, <1>5 DEF QInv

(***************************************************************************)
(* on_destroy_task: the pair removed from the set is the one that was      *)
(* inserted, and removing one index of the queue removes the task.         *)
(***************************************************************************)
LEMMA RemoveTaskFiled ==
  ASSUME QInv, NEW t \in registered, RemoveTask(t)
  PROVE  QInv'
<1> DEFINE q == task_round_robin_queue
<1>1. /\ t \in Task /\ q \in Seq(Task) /\ Len(q) \in Nat
      /\ registered' = registered \ {t}
      /\ UNCHANGED <<in_round_robin_queue, priority>>
  BY DEF QInv, QTypeOK, RemoveTask
<1>2. CASE ~in_round_robin_queue[t]
  <2>1. /\ task_priority_set' = task_priority_set \ {<<priority[t], t>>}
        /\ q' = q
    BY <1>2 DEF RemoveTask, Entry
  <2>2. Queued' = Queued
    BY <2>1 DEF Queued
  <2>3. QTypeOK'
    BY <2>1, <1>1 DEF QInv, QTypeOK
  <2>4. FiledOnce'
    BY <2>1, <2>2, <1>1, <1>2 DEF QInv, QTypeOK, FiledOnce
  <2> QED BY <2>3, <2>4 DEF QInv
<1>3. CASE in_round_robin_queue[t]
  <2>1. t \in Queued
    BY <1>1, <1>3 DEF QInv, FiledOnce
  <2>2. task_priority_set' = task_priority_set
    BY <1>3 DEF RemoveTask
  <2>3. PICK k \in 1..Len(q) :
           /\ q[k] = t
           /\ q' = [i \in 1..(Len(q) - 1) |-> IF i < k THEN q[i] ELSE q[i+1]]
    BY <1>3, <2>1 DEF RemoveTask
  <2>4. \A i \in 1..(Len(q) - 1) : (IF i < k THEN q[i] ELSE q[i+1]) \in Task
    BY <1>1, <2>3
  <2>5. /\ q' \in Seq(Task) /\ Len(q') = Len(q) - 1
        /\ \A i \in 1..Len(q') : q'[i] = IF i < k THEN q[i] ELSE q[i+1]
    BY <1>1, <2>3, <2>4
  <2>6. \A i, j \in 1..Len(q') : q'[i] = q'[j] => i = j
    BY <1>1, <2>3, <2>5 DEF QInv, FiledOnce
  <2>7. \A u \in Task : u \in Queued' <=> u \in Queued /\ u # t
    <3> TAKE u \in Task
    <3>1. ASSUME u \in Queued' PROVE u \in Queued /\ u # t
      <4>1. PICK i \in 1..Len(q') : u = q'[i]
        BY <3>1 DEF Queued
      <4>2. PICK j \in 1..Len(q) : j # k /\ u = q[j]
        BY <4>1, <2>3, <2>5, <1>1
      <4> QED BY <4>2, <2>3 DEF Queued, QInv, FiledOnce
    <3>2. ASSUME u \in Queued, u # t PROVE u \in Queued'
      <4>1. PICK j \in 1..Len(q) : u = q[j]
        BY <3>2 DEF Queued
      <4>2. j # k
        BY <4>1, <3>2, <2>3
      <4>3. PICK i \in 1..Len(q') : u = q'[i]
        <5>0. j \in Int /\ k \in Int
          BY <1>1
        <5>1. CASE j < k
          <6>1. j \in 1..Len(q')
            BY <5>1, <5>0, <2>5, <1>1
          <6> QED BY <6>1, <5>1, <4>1, <2>5
        <5>2. CASE j > k
          <6>1. j - 1 \in 1..Len(q') /\ ~(j - 1 < k) /\ (j - 1) + 1 = j
            BY <5>2, <4>1, <2>3, <2>5, <1>1
          <6> QED BY <6>1, <4>1, <2>5
        <5> QED BY <5>0, <5>1, <5>2, <4>2
      <4> QED BY <4>3 DEF Queued
    <3> QED BY <3>1, <3>2
  <2>8. QTypeOK'
    BY <2>2, <2>5, <1>1 DEF QInv, QTypeOK
  <2>9. FiledOnce'
    BY <2>2, <2>6, <2>7, <1>1, <1>3 DEF QInv, QTypeOK, FiledOnce
  <2> QED BY <2>8, <2>9 DEF QInv
<1> QED BY <1>2, <1>3

(* update_task_priority_internal keeps the pairs of the set fresh. *)
LEMMA SetPrioritiesFiled ==
  ASSUME QInv, NEW T \in SUBSET registered, NEW p \in [T -> Priority],
         SetPriorities(T, p)
  PROVE  QInv'
<1> DEFINE moved == {t \in T : ~in_round_robin_queue[t] /\ p[t] # priority[t]}
<1>1. /\ T \subseteq Task /\ moved \subseteq Task
      /\ priority' = [t \in Task |-> IF t \in T THEN p[t] ELSE priority[t]]
      /\ UNCHANGED <<task_round_robin_queue, in_round_robin_queue, registered>>
      /\ task_priority_set' = (task_priority_set \ {<<priority[t], t>> : t \in moved})
                                 \cup {<<p[t], t>> : t \in moved}
  BY DEF QInv, QTypeOK, SetPriorities, Entry
<1>2. Queued' = Queued
  BY <1>1 DEF Queued
<1>3. QTypeOK'
  <2>1. priority' \in [Task -> Priority]
    BY <1>1 DEF QInv, QTypeOK
  <2>2. task_priority_set' \subseteq Priority \X Task
    BY <1>1 DEF QInv, QTypeOK
  <2> QED BY <2>1, <2>2, <1>1 DEF QInv, QTypeOK
<1>4. ASSUME NEW v \in Priority, NEW u \in Task
      PROVE  <<v, u>> \in task_priority_set' <=>
                u \in registered' /\ ~in_round_robin_queue'[u] /\ v = priority'[u]
  <2>1. <<v, u>> \in task_priority_set' <=>
           \/ <<v, u>> \in task_priority_set /\ ~(u \in moved /\ v = priority[u])
           \/ u \in moved /\ v = p[u]
    BY <1>1
  <2>2. <<v, u>> \in task_priority_set <=>
           u \in registered /\ ~in_round_robin_queue[u] /\ v = priority[u]
    BY DEF QInv, FiledOnce
  <2>3. CASE u \in moved
    BY <2>1, <2>2, <2>3, <1>1
  <2>4. CASE u \notin moved
    BY <2>1, <2>2, <2>4, <1>1
  <2> QED BY <2>3, <2>4
<1> QED BY <1>1, <1>2, <1>3, <1>4 DEF QInv, FiledOnce

(***************************************************************************)
(* schedule_one_round_robin.  rest is what the queue keeps, added the      *)
(* tasks taken from the set: the three parts of the new queue are          *)
(* disjoint, so the queue stays without repetition.                        *)
(***************************************************************************)
LEMMA ScheduleOneRoundRobinFiled ==
  ASSUME QInv, NEW t \in registered, ScheduleOneRoundRobin(t)
  PROVE  QInv'
<1> DEFINE q      == task_round_robin_queue
           rest   == IF IsFront(t) THEN Tail(q) ELSE q
           others == {e \in task_priority_set :
                         e[2] # t /\ ~in_round_robin_queue[e[2]]}
           n      == Cardinality(others)
<1>1. /\ t \in Task /\ q \in Seq(Task) /\ Len(q) \in Nat
      /\ task_priority_set \subseteq Priority \X Task
      /\ in_round_robin_queue \in [Task -> BOOLEAN]
      /\ priority \in [Task -> Priority]
      /\ registered \subseteq Task
  BY DEF QInv, QTypeOK
<1>2. \A e \in others : /\ e[2] \in Task /\ e[2] # t
                        /\ e[2] \in registered /\ ~in_round_robin_queue[e[2]]
                        /\ e = <<priority[e[2]], e[2]>>
  <2> TAKE e \in others
  <2>1. PICK p \in Priority, u \in Task : e = <<p, u>>
    BY <1>1
  <2>2. u \in registered /\ ~in_round_robin_queue[u] /\ p = priority[u]
    BY <2>1 DEF QInv, FiledOnce
  <2> QED BY <2>1, <2>2
<1>3. n \in Nat
  <2> DEFINE f == [e \in others |-> e[2]]
  <2>1. f \in Injection(others, Task)
    BY <1>2 DEF Injection, IsInjective
  <2>2. IsFiniteSet(others)
    BY <2>1, FS_Injection, TaskAssumption
  <2> HIDE DEF others
  <2> QED BY <2>2, FS_CardinalityType
<1>4. PICK s \in [1..n -> others] :
         /\ IsEnumeration(s, others)
         /\ q' = rest \o [i \in 1..n |-> s[i][2]] \o <<t>>
  BY ZenonT(60) DEF ScheduleOneRoundRobin
<1> DEFINE added == [i \in 1..n |-> s[i][2]]
           m     == Len(rest)
<1>5. /\ IsFront(t) \/ ~in_round_robin_queue[t]
      /\ task_priority_set' = {}
      /\ in_round_robin_queue' =
            [u \in Task |-> \/ in_round_robin_queue[u]
                            \/ u = t
                            \/ \E e \in others : e[2] = u]
      /\ priority' = priority /\ registered' = registered
  BY SMTT(60) DEF ScheduleOneRoundRobin
(* Every task of the set other than t is registered and added once. *)
<1>6. /\ \A i \in 1..n : /\ s[i] \in others
                         /\ added[i] = s[i][2]
                         /\ added[i] \in Task /\ added[i] # t
                         /\ added[i] \in registered
                         /\ ~in_round_robin_queue[added[i]]
      /\ \A e \in others : \E i \in 1..n : s[i] = e
      /\ \A i, j \in 1..n : added[i] = added[j] => i = j
  <2>1. \A i \in 1..n : s[i] \in others /\ added[i] = s[i][2]
    BY SMTT(60), <1>4
  <2>2. /\ \A e \in others : \E i \in 1..n : s[i] = e
        /\ \A i, j \in 1..n : i < j => PairLess(s[i], s[j])
    BY <1>4 DEF IsEnumeration
  <2>3. \A e \in others : ~PairLess(e, e)
    <3> TAKE e \in others
    <3>1. priority[e[2]] \in Int /\ e[2] \in Nat
      <4>1. e[2] \in Task /\ priority[e[2]] \in Priority
        BY <1>1, <1>2
      <4>2. \A v \in Priority : v \in Int
        BY PriorityAssumption
      <4>3. \A u \in Task : u \in Nat
        BY TaskAssumption
      <4> QED BY <4>1, <4>2, <4>3
    <3>2. e[1] = priority[e[2]]
      BY <1>2
    <3> QED BY <3>1, <3>2 DEF PairLess
  <2>4. ASSUME NEW i \in 1..n, NEW j \in 1..n, added[i] = added[j] PROVE i = j
    <3>1. s[i] = s[j]
      BY <2>1, <2>4, <1>2
    <3>2. ~(i < j) /\ ~(j < i)
      BY <3>1, <2>1, <2>2, <2>3
    <3> QED BY <3>2, <1>3
  <2>5. \A i \in 1..n : /\ added[i] \in Task /\ added[i] # t
                        /\ added[i] \in registered
                        /\ ~in_round_robin_queue[added[i]]
    BY <2>1, <1>2
  <2> QED BY SMTT(60), <2>1, <2>2, <2>4, <2>5
(* What the queue keeps is what it held, t excepted. *)
<1>7. /\ rest \in Seq(Task) /\ m \in Nat
      /\ \A i \in 1..m : rest[i] \in Queued /\ rest[i] # t
      /\ \A i, j \in 1..m : rest[i] = rest[j] => i = j
      /\ \A u \in Queued : u # t => \E i \in 1..m : rest[i] = u
  <2>0. /\ \A i, j \in 1..Len(q) : q[i] = q[j] => i = j
        /\ \A u \in Task : u \in Queued <=> u \in registered /\ in_round_robin_queue[u]
        /\ \A u : u \in Queued <=> \E i \in 1..Len(q) : q[i] = u
    BY DEF QInv, FiledOnce, Queued
  <2>1. CASE IsFront(t)
    <3>1. /\ q # <<>> /\ t = q[1] /\ rest = Tail(q)
      BY <2>1, <1>1 DEF IsFront
    <3>2. /\ rest \in Seq(Task) /\ m = Len(q) - 1 /\ m \in Nat
          /\ \A i \in 1..m : rest[i] = q[i+1] /\ i + 1 \in 1..Len(q)
      BY <3>1, <1>1
    <3>3. \A i \in 1..m : rest[i] \in Queued /\ rest[i] # t
      <4> TAKE i \in 1..m
      <4>1. rest[i] = q[i+1] /\ i + 1 \in 1..Len(q) /\ i + 1 # 1 /\ 1 \in 1..Len(q)
        BY <3>2
      <4> QED BY <4>1, <2>0, <3>1
    <3>4. \A i, j \in 1..m : rest[i] = rest[j] => i = j
      <4> TAKE i, j \in 1..m
      <4> HAVE rest[i] = rest[j]
      <4>1. i + 1 = j + 1
        BY <3>2, <2>0
      <4> QED BY <4>1
    <3>5. ASSUME NEW u \in Queued, u # t PROVE \E i \in 1..m : rest[i] = u
      <4>1. PICK j \in 1..Len(q) : q[j] = u
        BY <2>0
      <4>2. j # 1
        BY <4>1, <3>1, <3>5
      <4>3. j - 1 \in 1..m /\ (j - 1) + 1 = j
        BY <4>1, <4>2, <3>2
      <4> QED BY Zenon, <4>1, <4>3, <3>2
    <3> QED BY Zenon, <3>2, <3>3, <3>4, <3>5
  <2>2. CASE ~IsFront(t)
    <3>1. rest = q
      BY <2>2
    <3>2. t \notin Queued
      BY <2>2, <1>5, <2>0, <1>1
    <3> HIDE DEF rest
    <3> QED BY <3>1, <3>2, <2>0, <1>1
  <2> QED BY Zenon, <2>1, <2>2
(* The new queue, position by position. *)
<1>8. /\ q' \in Seq(Task) /\ Len(q') = m + n + 1
      /\ \A i \in 1..m : q'[i] = rest[i]
      /\ \A i \in 1..n : q'[m + i] = added[i]
      /\ q'[m + n + 1] = t
  <2>1. added \in Seq(Task) /\ Len(added) = n
    BY SMTT(60), <1>3, <1>6
  <2> HIDE DEF rest, added, others
  <2>2. /\ rest \o added \in Seq(Task)
        /\ Len(rest \o added) = m + n
        /\ \A i \in 1..m : (rest \o added)[i] = rest[i]
        /\ \A i \in 1..n : (rest \o added)[m + i] = added[i]
    BY <2>1, <1>7, <1>3
  <2>3. q' = (rest \o added) \o <<t>>
    BY <1>4 DEF added
  <2> QED BY SMTT(60), <2>1, <2>2, <2>3, <1>1, <1>3, <1>7

<1>9. \A u \in Task : u \in Queued' <=> u \in registered /\ in_round_robin_queue'[u]
  <2> TAKE u \in Task
  <2>0. /\ u \in Queued <=> u \in registered /\ in_round_robin_queue[u]
        /\ u \in Queued' <=> \E i \in 1..Len(q') : q'[i] = u
    BY DEF QInv, FiledOnce, Queued
  <2>1. ASSUME u \in Queued' PROVE u \in registered /\ in_round_robin_queue'[u]
    <3>1. PICK i \in 1..Len(q') : q'[i] = u
      BY SMTT(60), <2>0, <2>1
    <3>2. CASE i \in 1..m
      BY SMTT(60), <3>1, <3>2, <1>8, <1>7, <2>0, <1>5
    <3>3. CASE i - m \in 1..n
      <4>1. m + (i - m) = i
        BY SMTT(60), <3>1, <1>7, <1>8, <1>3
      <4>2. u = added[i - m]
        BY SMTT(60), <3>3, <4>1, <3>1, <1>8
      <4>3. u \in registered /\ s[i - m] \in others /\ s[i - m][2] = u
        BY SMTT(60), <4>2, <3>3, <1>6
      <4> HIDE DEF added, others
      <4> QED BY <4>3, <1>5
    <3>4. CASE i = m + n + 1
      BY <3>1, <3>4, <1>8, <1>5
    <3>5. i \in 1..m \/ i - m \in 1..n \/ i = m + n + 1
      BY <1>3, <1>7, <1>8, <3>1
    <3> QED BY <3>2, <3>3, <3>4, <3>5
  <2>2. ASSUME u \in registered, in_round_robin_queue'[u] PROVE u \in Queued'
    <3>1. CASE u = t
      <4>1. m + n + 1 \in 1..Len(q')
        BY SMTT(60), <1>3, <1>7, <1>8
      <4> QED BY Zenon, <4>1, <3>1, <1>8, <2>0
    <3>2. CASE u # t /\ in_round_robin_queue[u]
      <4>1. PICK i \in 1..m : rest[i] = u
        BY ZenonT(60), <2>0, <2>2, <3>2, <1>7
      <4>2. i \in 1..Len(q')
        BY SMTT(60), <1>3, <1>7, <1>8
      <4> QED BY Zenon, <4>1, <4>2, <1>8, <2>0
    <3>3. CASE u # t /\ ~in_round_robin_queue[u]
      <4>1. PICK e \in others : e[2] = u
        BY <3>3, <2>2, <1>5
      <4>2. PICK i \in 1..n : s[i] = e
        BY <1>6
      <4>3. added[i] = u
        BY SMTT(60), <4>1, <4>2, <1>6
      <4>4. i \in 1..n /\ n \in Nat /\ m \in Nat /\ Len(q') = m + n + 1
            /\ q'[m + i] = added[i]
        BY Zenon, <4>2, <1>3, <1>7, <1>8
      <4> HIDE DEF added, others, rest, m, n
      <4>5. m + i \in 1..Len(q')
        BY <4>4
      <4> QED BY <4>3, <4>4, <4>5, <2>0
    <3> QED BY <3>1, <3>2, <3>3
  <2> QED BY <2>1, <2>2
<1>10. \A i, j \in 1..Len(q') : q'[i] = q'[j] => i = j
  <2>1. \A i \in 1..Len(q') :
           \/ i \in 1..m /\ q'[i] = rest[i]
           \/ i - m \in 1..n /\ q'[i] = added[i - m]
           \/ i = m + n + 1 /\ q'[i] = t
    <3> TAKE i \in 1..Len(q')
    <3>1. i \in 1..m \/ i - m \in 1..n \/ i = m + n + 1
      BY <1>3, <1>7, <1>8
    <3>2. m + (i - m) = i
      BY <1>3, <1>7, <1>8
    <3> HIDE DEF added, others, rest
    <3> QED BY <3>1, <3>2, <1>8
  <2>2. \A i \in 1..m : rest[i] # t /\ in_round_robin_queue[rest[i]]
    <3> TAKE i \in 1..m
    <3>1. rest[i] \in Queued /\ rest[i] # t
      BY ZenonT(60), <1>7
    <3>2. Queued \subseteq Task
      BY <1>1 DEF Queued
    <3> HIDE DEF rest
    <3> QED BY <3>1, <3>2 DEF QInv, FiledOnce
  <2>3. \A i \in 1..n : added[i] # t /\ ~in_round_robin_queue[added[i]]
    BY <1>6
  <2>4. /\ \A i, j \in 1..n : added[i] = added[j] => i = j
        /\ \A i, j \in 1..m : rest[i] = rest[j] => i = j
    BY Zenon, <1>6, <1>7
  <2>5. m \in Nat /\ n \in Nat /\ Len(q') = m + n + 1
    BY SMTT(60), <1>3, <1>7, <1>8
  <2> HIDE DEF added, others, rest, m, n
  <2> TAKE i, j \in 1..Len(q')
  <2> HAVE q'[i] = q'[j]
  <2>6. \/ i \in 1..m /\ j \in 1..m /\ rest[i] = rest[j]
        \/ i - m \in 1..n /\ j - m \in 1..n /\ added[i - m] = added[j - m]
        \/ i = j
    BY <2>1, <2>2, <2>3
  <2> QED BY <2>4, <2>5, <2>6
<1>11. QTypeOK'
  BY <1>1, <1>5, <1>8 DEF QTypeOK
<1>12. FiledOnce'
  <2>1. \A p \in Priority, u \in Task :
           <<p, u>> \in task_priority_set' <=>
              u \in registered' /\ ~in_round_robin_queue'[u] /\ p = priority'[u]
    <3> TAKE p \in Priority, u \in Task
    <3>1. ~(u \in registered /\ ~in_round_robin_queue'[u] /\ p = priority[u])
      <4> SUFFICES ASSUME u \in registered, ~in_round_robin_queue'[u], p = priority[u]
                   PROVE  FALSE
        OBVIOUS
      <4>1. ~in_round_robin_queue[u] /\ u # t
        BY <1>5
      <4>2. <<p, u>> \in task_priority_set
        BY <4>1 DEF QInv, FiledOnce
      <4>3. <<p, u>> \in others
        BY <4>1, <4>2
      <4> QED BY <4>3, <1>5
    <3> QED BY <3>1, <1>5
  <2> QED BY <2>1, <1>5, <1>9, <1>10 DEF FiledOnce
<1> QED BY <1>11, <1>12 DEF QInv

(* maybe_reset_priorities and setpriority only reprioritise filed tasks. *)
LEMMA QNextFiled ==
  ASSUME QInv, [QNext]_qvars
  PROVE  QInv'
<1>1. CASE UNCHANGED qvars
  BY <1>1 DEF qvars, QInv, QTypeOK, FiledOnce, Queued
<1>2. CASE PopFront
  BY <1>2, PopFrontFiled
<1>3. CASE ClearRoundRobinQueue
  BY <1>3, ClearFiled
<1>4. CASE ResetPriorities
  <2>1. Filed \subseteq registered
    <3> SUFFICES ASSUME NEW u \in Filed PROVE u \in registered
      OBVIOUS
    <3>1. CASE u \in Queued
      <4>1. u \in Task
        BY <3>1 DEF Queued, QInv, QTypeOK
      <4> QED BY <3>1, <4>1 DEF QInv, FiledOnce
    <3>2. CASE \E e \in task_priority_set : e[2] = u
      BY <3>2 DEF QInv, QTypeOK, FiledOnce
    <3> QED BY <3>1, <3>2 DEF Filed
  <2>2. PICK p \in [Filed -> {0, 1}] : SetPriorities(Filed, p)
    BY <1>4 DEF ResetPriorities
  <2>3. p \in [Filed -> Priority]
    BY <2>2, PriorityAssumption
  <2> QED BY <2>1, <2>2, <2>3, SetPrioritiesFiled
<1>5. ASSUME NEW t \in registered, ScheduleOneRoundRobin(t) \/ RemoveTask(t)
      PROVE  QInv'
  BY <1>5, ScheduleOneRoundRobinFiled, RemoveTaskFiled
<1>6. ASSUME NEW t \in registered, NEW v \in Priority,
             SetPriorities({t}, [u \in {t} |-> v])
      PROVE  QInv'
  BY <1>6, SetPrioritiesFiled
<1>7. ASSUME NEW t \in Task \ registered, NEW v \in Priority,
             ~in_round_robin_queue[t], CreateTask(t, v)
      PROVE  QInv'
  BY <1>7, CreateTaskFiled
<1> QED BY Zenon, <1>1, <1>2, <1>3, <1>4, <1>5, <1>6, <1>7 DEF QNext

(***************************************************************************)
(* Whatever sequence of operations the recorder issues, every registered   *)
(* task stays in exactly one of task_priority_set and                      *)
(* task_round_robin_queue, filed under its current priority.               *)
(***************************************************************************)
THEOREM QueuesFiledOnce == QSpec => []FiledOnce
<1>1. QInit => QInv
  BY QInitFiled
<1>2. QInv /\ [QNext]_qvars => QInv'
  BY QNextFiled
<1>3. QInv => FiledOnce
  BY DEF QInv
<1> QED BY <1>1, <1>2, <1>3, PTL DEF QSpec

=============================================================================
