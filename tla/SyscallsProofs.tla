--------------------------- MODULE SyscallsProofs ---------------------------
(***************************************************************************)
(* Proofs about the system calls a recorded program makes, for every set   *)
(* of values and any number of calls: the ptrace requests of a recorded    *)
(* debugger replay as they were recorded.                                  *)
(***************************************************************************)
EXTENDS MCSyscalls, SequenceTheorems, TLAPS

-----------------------------------------------------------------------------
(* Requests on a tracee.                                                   *)

AnyValue == Values \cup {PD!Zero}
\* The two tasks, and a frame of the trace.
TwoTasks == [tracee : [PD!Parts -> AnyValue], locked : BOOLEAN, tracer_extra : AnyValue, buffer : AnyValue]
Frames == [q : PD!Requests, ok : BOOLEAN, buffer : AnyValue, poke : BOOLEAN]

\* What a recorded request makes of the tasks, and what its frame makes of them.
RecordedAs(s, q) == PD!on_syscall_exit(PD!prepare_ptrace(s, q), q, PD!Granted(q))
ReplayedAs(s, f) ==
    PD!on_syscall_exit(PD!apply_all_data_records_from_trace(PD!rep_after_enter_syscall(s, f), f), f.q, f.ok)

\* The tasks after frame i of a recording that took them through the states sn.
TasksAfter(sn, i) == IF i = 0 THEN PD!NewTasks ELSE sn[i]

\* Every frame, replayed from where the one before it left the tasks, leads to
\* where it led the recording; the replay is where its last frame left it.
FramesReplay ==
    /\ live \in TwoTasks /\ frames \in Seq(Frames) /\ snaps \in Seq(TwoTasks)
    /\ Len(snaps) = Len(frames) /\ pos \in 0 .. Len(frames)
    /\ live = TasksAfter(snaps, Len(frames)) /\ rep = TasksAfter(snaps, pos)
    /\ \A i \in 1 .. Len(frames) : TasksAfter(snaps, i) = ReplayedAs(TasksAfter(snaps, i - 1), frames[i])
WantedOK == DOMAIN wanted = PD!Parts

DataInv == FramesReplay /\ WantedOK /\ PD!SetTakesEffect

\* The requests, by what they do.
GetCommands == {"GETREGS", "GETFPREGS", "GETREGSET", "PEEKDATA", "PEEKUSER", "GET_THREAD_AREA", "ARCH_GET"}
SetCommands == {"SETREGS", "SETFPREGS", "SETREGSET", "POKEDATA", "POKEUSER", "SET_THREAD_AREA", "ARCH_SET"}
ExitCommands == {"SETREGS", "SETREGSET", "POKEUSER", "ARCH_SET"}

\* The requests are those that read, those that set and those that resume.
LEMMA RequestForms ==
    ASSUME NEW q \in PD!Requests
    PROVE  \/ \E g \in PD!Getters : q = PD!Request(g[1], g[2], PD!Zero, TRUE)
           \/ \E g \in PD!Setters, v \in Values, fit \in BOOLEAN : q = PD!Request(g[1], g[2], v, fit)
           \/ \E c \in PD!Resumers : q = PD!Request(c, "word", PD!Zero, TRUE)
BY SMT DEF PD!Requests, PD!Request

\* What a request may hold, by its command.
LEMMA Kinds ==
    ASSUME NEW q \in PD!Requests
    PROVE  /\ q.cmd \in GetCommands \cup SetCommands \cup PD!Resumers
           /\ PD!IsGet(q) <=> q.cmd \in GetCommands
           /\ PD!IsSet(q) <=> q.cmd \in SetCommands
           /\ q.part \in PD!Parts /\ q.val \in AnyValue /\ q.fit \in BOOLEAN
           /\ q.cmd = "POKEDATA" => q.part = "word"
           /\ q.cmd = "SET_THREAD_AREA" => q.part = "area"
           /\ q.cmd = "SETFPREGS" => q.part = "extra"
<1>1. PD!IsGet(q) <=> q.cmd \in GetCommands
  BY DEF PD!IsGet, PD!Getters, GetCommands
<1>2. PD!IsSet(q) <=> q.cmd \in SetCommands
  BY DEF PD!IsSet, PD!Setters, SetCommands
<1>3. CASE \E g \in PD!Getters : q = PD!Request(g[1], g[2], PD!Zero, TRUE)
  <2>1. PICK g \in PD!Getters : q = PD!Request(g[1], g[2], PD!Zero, TRUE)
    BY Zenon, <1>3
  <2>2. q.cmd = g[1] /\ q.part = g[2] /\ q.val \in AnyValue /\ q.fit = TRUE
    BY <2>1 DEF PD!Request, AnyValue
  <2>3. g[1] \in GetCommands /\ g[2] \in PD!Parts
    BY DEF PD!Getters, GetCommands, PD!Parts
  <2>4. "POKEDATA" \notin GetCommands /\ "SET_THREAD_AREA" \notin GetCommands /\ "SETFPREGS" \notin GetCommands
    BY DEF GetCommands
  <2> QED BY Zenon, <1>1, <1>2, <2>2, <2>3, <2>4
<1>4. CASE \E g \in PD!Setters, v \in Values, fit \in BOOLEAN : q = PD!Request(g[1], g[2], v, fit)
  <2>1. PICK g \in PD!Setters, v \in Values, fit \in BOOLEAN : q = PD!Request(g[1], g[2], v, fit)
    BY <1>4
  <2>2. q.cmd = g[1] /\ q.part = g[2] /\ q.val \in AnyValue /\ q.fit \in BOOLEAN
    BY <2>1 DEF PD!Request, AnyValue
  <2>3. /\ g[1] \in SetCommands /\ g[2] \in PD!Parts
        /\ g[1] = "POKEDATA" => g[2] = "word"
        /\ g[1] = "SET_THREAD_AREA" => g[2] = "area"
        /\ g[1] = "SETFPREGS" => g[2] = "extra"
    BY DEF PD!Setters, SetCommands, PD!Parts
  <2> QED BY Zenon, <1>1, <1>2, <2>2, <2>3
<1>5. CASE \E c \in PD!Resumers : q = PD!Request(c, "word", PD!Zero, TRUE)
  <2>1. PICK c \in PD!Resumers : q = PD!Request(c, "word", PD!Zero, TRUE)
    BY Zenon, <1>5
  <2>2. q.cmd = c /\ q.part = "word" /\ q.val \in AnyValue /\ q.fit = TRUE
    BY <2>1 DEF PD!Request, AnyValue
  <2>3. "word" \in PD!Parts /\ "POKEDATA" # c /\ "SET_THREAD_AREA" # c /\ "SETFPREGS" # c
    BY DEF PD!Parts, PD!Resumers
  <2> QED BY Zenon, <1>1, <1>2, <2>2, <2>3
<1> QED BY Zenon, <1>3, <1>4, <1>5, RequestForms

\* A request that is granted, and one that is refused for its arguments, is
\* recorded and replayed alike.
LEMMA RequestReplays ==
    ASSUME NEW q \in PD!Requests, NEW s \in TwoTasks, q.fit \/ q.cmd \in PD!MayBeUnfit,
           PD!IsTarget, PD!ArchAllows(q.part)
    PROVE  /\ RecordedAs(s, q) \in TwoTasks /\ PD!Frame(q, PD!prepare_ptrace(s, q)) \in Frames
           /\ ReplayedAs(s, PD!Frame(q, PD!prepare_ptrace(s, q))) = RecordedAs(s, q)
           /\ RecordedAs(s, q).tracee =
                 IF PD!IsSet(q) /\ PD!Granted(q) /\ q.cmd # "SETFPREGS"
                 THEN [s.tracee EXCEPT ![q.part] = q.val] ELSE s.tracee
<1> DEFINE p == PD!prepare_ptrace(s, q)
           f == PD!Frame(q, p)
<1>1. PD!Granted(q) <=> q.fit
  BY Zenon, Kinds DEF PD!Granted
<1>2. f.q = q /\ f.ok = PD!Granted(q) /\ f.buffer = p.buffer /\ f.poke = (q.cmd = "POKEDATA" /\ PD!Granted(q))
  BY DEF PD!Frame
<1>3. /\ \A b \in AnyValue : [s EXCEPT !.buffer = b] \in TwoTasks /\ [s EXCEPT !.buffer = b].buffer = b
      /\ [s EXCEPT !.buffer = s.buffer] = s
  BY DEF TwoTasks
<1>t. /\ s.buffer \in AnyValue /\ s.tracee \in [PD!Parts -> AnyValue] /\ s.tracee[q.part] \in AnyValue
      /\ q.part \in PD!Parts /\ q.val \in AnyValue /\ DOMAIN s = {"tracee", "locked", "tracer_extra", "buffer"}
  BY Kinds DEF TwoTasks
<1> DEFINE part_set == PD!SetPart(s, q.part, q.val)
           lock_set == PD!SetLocked(s, q.cmd)
           extra_set == [s EXCEPT !.tracer_extra = q.val]
           got == [s EXCEPT !.buffer = s.tracee[q.part]]
<1>4. part_set \in TwoTasks /\ part_set.buffer = s.buffer
      /\ part_set.tracee = [s.tracee EXCEPT ![q.part] = q.val]
      /\ [part_set EXCEPT !.buffer = s.buffer] = part_set
  BY Zenon, <1>t DEF TwoTasks, PD!SetPart
<1>a. lock_set \in TwoTasks /\ lock_set.buffer = s.buffer /\ lock_set.tracee = s.tracee
      /\ [lock_set EXCEPT !.buffer = s.buffer] = lock_set
  BY Zenon, <1>t DEF TwoTasks, PD!SetLocked
<1>b. extra_set \in TwoTasks /\ extra_set.tracee = s.tracee
  BY <1>t DEF TwoTasks
<1>c. got \in TwoTasks /\ got.tracee = s.tracee /\ got.buffer = s.tracee[q.part]
  BY <1>t DEF TwoTasks
<1>d. PD!SetPart(s, q.part, q.val) = part_set /\ PD!SetLocked(s, q.cmd) = lock_set
      /\ [s EXCEPT !.tracer_extra = q.val] = extra_set /\ [s EXCEPT !.buffer = s.tracee[q.part]] = got
  BY Zenon
<1> HIDE DEF part_set, lock_set, extra_set, got
<1>5. SUFFICES /\ RecordedAs(s, q) \in TwoTasks /\ p.buffer \in AnyValue
               /\ ReplayedAs(s, f) = RecordedAs(s, q)
               /\ RecordedAs(s, q).tracee = IF PD!IsSet(q) /\ PD!Granted(q) /\ q.cmd # "SETFPREGS"
                                           THEN [s.tracee EXCEPT ![q.part] = q.val] ELSE s.tracee
  <2>1. p.buffer \in AnyValue => f \in Frames
    <3>1. PD!Granted(q) \in BOOLEAN /\ (q.cmd = "POKEDATA" /\ PD!Granted(q)) \in BOOLEAN
      BY Zenon DEF PD!Granted
    <3> QED BY <3>1 DEF PD!Frame, Frames
  <2> QED BY Zenon, <1>5, <2>1
<1> HIDE DEF f
<1>6. CASE ~q.fit
  <2>1. q.cmd \in PD!MayBeUnfit
    BY Zenon, <1>6
  <2>2. p = s
    BY Zenon, <1>1, <1>6 DEF PD!prepare_ptrace
  <2>3. RecordedAs(s, q) = s
    BY Zenon, <1>1, <1>6, <2>2 DEF RecordedAs, PD!on_syscall_exit
  <2>4. PD!rep_after_enter_syscall(s, f) = s
    BY Zenon, <1>1, <1>2, <1>6, <2>1 DEF PD!rep_after_enter_syscall, PD!MayBeUnfit, PD!Resumers
  <2>5. ReplayedAs(s, f) = s
    BY Zenon, <1>1, <1>2, <1>3, <1>6, <2>2, <2>4
    DEF ReplayedAs, PD!on_syscall_exit, PD!apply_all_data_records_from_trace
  <2> QED BY Zenon, <1>1, <1>t, <1>6, <2>2, <2>3, <2>5
<1>7. ASSUME q.fit PROVE PD!Granted(q) = TRUE
  BY Zenon, <1>1, <1>7 DEF PD!Granted
<1>8. ASSUME q.fit, q.cmd \in GetCommands PROVE <1>5!1
  <2>1. PD!IsGet(q) /\ ~PD!IsSet(q)
    BY <1>8, Kinds DEF GetCommands, SetCommands
  <2>2. p = got
    BY Zenon, <1>d, <1>7, <1>8, <2>1 DEF PD!prepare_ptrace
  <2>3. \A x : PD!process_ptrace(x, q) = x
    BY <1>8 DEF PD!process_ptrace, GetCommands
  <2>4. PD!rep_after_enter_syscall(s, f) = s
    BY <1>2, <1>8 DEF PD!rep_after_enter_syscall, GetCommands, PD!Resumers
  <2>5. RecordedAs(s, q) = p
    BY Zenon, <1>7, <1>8, <2>3 DEF RecordedAs, PD!on_syscall_exit
  <2>6. ReplayedAs(s, f) = p
    BY Zenon, <1>2, <1>c, <1>d, <2>2, <2>3, <2>4 DEF ReplayedAs, PD!on_syscall_exit, PD!apply_all_data_records_from_trace
  <2> QED BY Zenon, <1>c, <1>t, <2>1, <2>2, <2>5, <2>6
<1>9. ASSUME q.fit, q.cmd \in {"POKEDATA", "SET_THREAD_AREA"} PROVE <1>5!1
  <2>1. ~PD!IsGet(q) /\ PD!IsSet(q) /\ q.cmd # "SETFPREGS"
    BY <1>9, Kinds DEF GetCommands, SetCommands
  <2>2. p = part_set
    BY Zenon, <1>d, <1>7, <1>9, <2>1 DEF PD!prepare_ptrace
  <2>3. \A x : PD!process_ptrace(x, q) = x
    BY <1>9 DEF PD!process_ptrace
  <2>4. PD!rep_after_enter_syscall(s, f) = p
    BY <1>2, <1>7, <1>9, <1>d, <2>2, Kinds DEF PD!rep_after_enter_syscall, PD!Resumers
  <2>5. RecordedAs(s, q) = p
    BY Zenon, <1>7, <1>9, <2>3 DEF RecordedAs, PD!on_syscall_exit
  <2>6. [p EXCEPT !.buffer = p.buffer] = p /\ p.buffer = s.buffer /\ p \in TwoTasks
        /\ p.tracee = [s.tracee EXCEPT ![q.part] = q.val]
    BY Zenon, <1>4, <2>2
  <2>7. ReplayedAs(s, f) = p
    BY Zenon, <1>2, <2>3, <2>4, <2>6 DEF ReplayedAs, PD!on_syscall_exit, PD!apply_all_data_records_from_trace
  <2> QED BY Zenon, <1>t, <1>7, <1>9, <2>1, <2>5, <2>6, <2>7
<1>10. ASSUME q.fit, q.cmd \in PD!Resumers PROVE <1>5!1
  <2>1. ~PD!IsGet(q) /\ ~PD!IsSet(q) /\ q.cmd \notin {"POKEDATA", "SET_THREAD_AREA"}
    BY <1>10, Kinds DEF GetCommands, SetCommands, PD!Resumers
  <2>2. p = lock_set
    BY Zenon, <1>d, <1>7, <1>10, <2>1 DEF PD!prepare_ptrace
  <2>3. \A x : PD!process_ptrace(x, q) = x
    BY <1>10 DEF PD!process_ptrace, PD!Resumers
  <2>4. PD!rep_after_enter_syscall(s, f) = p
    BY <1>2, <1>10, <1>d, <2>2 DEF PD!rep_after_enter_syscall, PD!Resumers
  <2>5. RecordedAs(s, q) = p
    BY Zenon, <1>7, <1>10, <2>3 DEF RecordedAs, PD!on_syscall_exit
  <2>6. [p EXCEPT !.buffer = p.buffer] = p /\ p.buffer = s.buffer /\ p \in TwoTasks /\ p.tracee = s.tracee
    BY Zenon, <1>a, <2>2
  <2>7. ReplayedAs(s, f) = p
    BY Zenon, <1>2, <2>3, <2>4, <2>6 DEF ReplayedAs, PD!on_syscall_exit, PD!apply_all_data_records_from_trace
  <2> QED BY Zenon, <1>t, <2>1, <2>5, <2>6, <2>7
<1>11. ASSUME q.fit, q.cmd \in ExitCommands \cup {"SETFPREGS"} PROVE <1>5!1
  <2>1. ~PD!IsGet(q) /\ PD!IsSet(q) /\ q.cmd \notin {"POKEDATA", "SET_THREAD_AREA"} /\ q.cmd \notin PD!Resumers
    BY <1>11, Kinds DEF GetCommands, SetCommands, ExitCommands, PD!Resumers
  <2>2. p = s
    BY Zenon, <1>7, <2>1 DEF PD!prepare_ptrace
  <2>3. PD!rep_after_enter_syscall(s, f) = s
    BY <1>2, <2>1 DEF PD!rep_after_enter_syscall
  <2>4. RecordedAs(s, q) = PD!process_ptrace(s, q)
    BY Zenon, <1>7, <1>11, <2>2 DEF RecordedAs, PD!on_syscall_exit
  <2>5. ReplayedAs(s, f) = PD!process_ptrace(s, q)
    BY Zenon, <1>2, <1>3, <1>7, <1>11, <2>2, <2>3
    DEF ReplayedAs, PD!on_syscall_exit, PD!apply_all_data_records_from_trace
  <2>6. CASE q.cmd = "SETFPREGS"
    <3>1. PD!process_ptrace(s, q) = extra_set
      BY <1>d, <2>6 DEF PD!process_ptrace
    <3> QED BY Zenon, <1>b, <1>t, <2>2, <2>4, <2>5, <2>6, <3>1
  <2>7. CASE q.cmd \in ExitCommands
    <3>1. PD!process_ptrace(s, q) = part_set /\ q.cmd # "SETFPREGS"
      BY <1>d, <2>7 DEF PD!process_ptrace, ExitCommands
    <3> QED BY Zenon, <1>4, <1>t, <1>7, <1>11, <2>1, <2>2, <2>4, <2>5, <3>1
  <2> QED BY Zenon, <1>11, <2>6, <2>7
<1>12. q.cmd \in GetCommands \cup {"POKEDATA", "SET_THREAD_AREA"} \cup PD!Resumers
                \cup ExitCommands \cup {"SETFPREGS"}
  BY Kinds DEF SetCommands, ExitCommands
<1> QED BY Zenon, <1>6, <1>8, <1>9, <1>10, <1>11, <1>12

-----------------------------------------------------------------------------
(* Steps.                                                                  *)

LEMMA NewTasksOK == PD!NewTasks \in TwoTasks
BY DEF PD!NewTasks, TwoTasks, AnyValue

\* Before the first request, and in the other parts of the composition, the
\* trace is empty and the tracer has set nothing.
LEMMA DataInitOK ==
    ASSUME live = PD!NewTasks, rep = PD!NewTasks, frames = <<>>, snaps = <<>>, pos = 0,
           wanted = [p \in PD!Parts |-> NoValue]
    PROVE  DataInv
<1>1. frames \in Seq(Frames) /\ snaps \in Seq(TwoTasks) /\ Len(frames) = 0 /\ Len(snaps) = 0
  BY EmptySeq
<1>2. FramesReplay
  BY <1>1, NewTasksOK DEF FramesReplay, TasksAfter
<1>3. WantedOK /\ PD!SetTakesEffect
  BY DEF WantedOK, PD!SetTakesEffect
<1> QED BY Zenon, <1>2, <1>3 DEF DataInv

\* A request adds a frame that replays to the tasks it led to, and what it sets
\* is what the tracee then has.
LEMMA PtraceStep ==
    ASSUME Refused = FALSE, DataInv, NEW q \in PD!Requests, PD!Ptrace(q)
    PROVE  DataInv'
<1> DEFINE n == Len(frames)
           f == PD!Frame(q, PD!prepare_ptrace(live, q))
<1>1. /\ live' = RecordedAs(live, q) /\ frames' = Append(frames, f) /\ snaps' = Append(snaps, live')
      /\ rep' = rep /\ pos' = pos
      /\ wanted' = IF PD!IsSet(q) /\ PD!Granted(q) THEN [wanted EXCEPT ![q.part] = q.val] ELSE wanted
      /\ (q.fit \/ q.cmd \in PD!MayBeUnfit) /\ PD!IsTarget /\ PD!ArchAllows(q.part)
  BY Zenon DEF PD!Ptrace, RecordedAs
<1>2. /\ live \in TwoTasks /\ frames \in Seq(Frames) /\ snaps \in Seq(TwoTasks)
      /\ Len(snaps) = n /\ pos \in 0 .. n /\ live = TasksAfter(snaps, n) /\ rep = TasksAfter(snaps, pos)
      /\ \A i \in 1 .. n : TasksAfter(snaps, i) = ReplayedAs(TasksAfter(snaps, i - 1), frames[i])
      /\ DOMAIN wanted = PD!Parts /\ PD!SetTakesEffect
  BY Zenon DEF DataInv, FramesReplay, WantedOK
<1>3. /\ live' \in TwoTasks /\ f \in Frames /\ live' = ReplayedAs(live, f)
      /\ live'.tracee = IF PD!IsSet(q) /\ PD!Granted(q) /\ q.cmd # "SETFPREGS"
                        THEN [live.tracee EXCEPT ![q.part] = q.val] ELSE live.tracee
  BY Zenon, <1>1, <1>2, RequestReplays
<1> HIDE DEF f
<1>4. n \in Nat /\ frames' \in Seq(Frames) /\ snaps' \in Seq(TwoTasks) /\ Len(frames') = n + 1 /\ Len(snaps') = n + 1
      /\ frames'[n + 1] = f /\ snaps'[n + 1] = live'
      /\ \A i \in 1 .. n : frames'[i] = frames[i] /\ snaps'[i] = snaps[i]
  BY <1>1, <1>2, <1>3
<1>5. (\A i \in 0 .. n : TasksAfter(snaps', i) = TasksAfter(snaps, i)) /\ TasksAfter(snaps', n + 1) = live'
  BY <1>4 DEF TasksAfter
<1>6. \A i \in 1 .. n + 1 : TasksAfter(snaps', i) = ReplayedAs(TasksAfter(snaps', i - 1), frames'[i])
  <2> TAKE i \in 1 .. n + 1
  <2>1. CASE i = n + 1
    BY <1>2, <1>3, <1>4, <1>5, <2>1
  <2>2. CASE i \in 1 .. n
    <3>1. i \in 0 .. n /\ i - 1 \in 0 .. n
      BY <1>4, <2>2
    <3> QED BY Zenon, <1>2, <1>4, <1>5, <2>2, <3>1
  <2> QED BY <1>4, <2>1, <2>2
<1>7. pos' \in 0 .. n + 1 /\ TasksAfter(snaps', pos) = TasksAfter(snaps, pos)
  BY <1>1, <1>2, <1>4, <1>5
<1>8. FramesReplay'
  <2>1. live' = TasksAfter(snaps', Len(frames')) /\ rep' = TasksAfter(snaps', pos')
    BY Zenon, <1>1, <1>2, <1>4, <1>5, <1>7
  <2> QED BY Zenon, <1>3, <1>4, <1>6, <1>7, <2>1 DEF FramesReplay
<1>9. WantedOK'
  BY <1>1, <1>2 DEF WantedOK
<1>10. PD!SetTakesEffect'
  <2> SUFFICES ASSUME NEW p \in PD!Parts \ {"extra"}, wanted'[p] # NoValue
               PROVE  live'.tracee[p] = wanted'[p]
    BY Zenon DEF PD!SetTakesEffect
  <2>1. wanted[p] # NoValue => live.tracee[p] = wanted[p]
    BY Zenon, <1>2 DEF PD!SetTakesEffect
  <2>2. DOMAIN live.tracee = PD!Parts
    BY <1>2 DEF TwoTasks
  <2>3. q.cmd = "SETFPREGS" => q.part = "extra"
    BY Zenon, Kinds
  <2>4. CASE PD!IsSet(q) /\ PD!Granted(q)
    <3>1. wanted' = [wanted EXCEPT ![q.part] = q.val]
      BY Zenon, <1>1, <2>4
    <3>2. CASE q.cmd = "SETFPREGS"
      <4>1. live'.tracee = live.tracee
        BY Zenon, <1>3, <3>2
      <4> QED BY <1>2, <2>1, <2>3, <3>1, <3>2, <4>1
    <3>3. CASE q.cmd # "SETFPREGS"
      <4>1. live'.tracee = [live.tracee EXCEPT ![q.part] = q.val]
        BY Zenon, <1>3, <2>4, <3>3
      <4> QED BY <1>2, <2>1, <2>2, <3>1, <4>1
    <3> QED BY Zenon, <3>2, <3>3
  <2>5. CASE ~(PD!IsSet(q) /\ PD!Granted(q))
    <3>1. wanted' = wanted /\ live'.tracee = live.tracee
      BY Zenon, <1>1, <1>3, <2>5
    <3> QED BY Zenon, <2>1, <3>1
  <2> QED BY Zenon, <2>4, <2>5
<1> QED BY Zenon, <1>8, <1>9, <1>10 DEF DataInv

\* A replayed frame takes the replay from one recorded state of the tasks to the next.
LEMMA ReplayStep ==
    ASSUME DataInv, PD!ReplayPtrace
    PROVE  DataInv'
<1>1. /\ pos < Len(frames) /\ rep' = ReplayedAs(rep, frames[pos + 1]) /\ pos' = pos + 1
      /\ live' = live /\ frames' = frames /\ snaps' = snaps /\ wanted' = wanted
  BY Zenon DEF PD!ReplayPtrace, ReplayedAs
<1>2. Len(frames) \in Nat /\ pos \in 0 .. Len(frames) /\ rep = TasksAfter(snaps, pos)
      /\ \A i \in 1 .. Len(frames) : TasksAfter(snaps, i) = ReplayedAs(TasksAfter(snaps, i - 1), frames[i])
  <2>1. frames \in Seq(Frames)
    BY Zenon DEF DataInv, FramesReplay
  <2>2. Len(frames) \in Nat
    BY <2>1
  <2> QED BY Zenon, <2>2 DEF DataInv, FramesReplay
<1>3. pos + 1 \in 1 .. Len(frames) /\ (pos + 1) - 1 = pos /\ pos + 1 \in 0 .. Len(frames)
  BY <1>1, <1>2
<1>4. TasksAfter(snaps, pos + 1) = rep'
  BY Zenon, <1>1, <1>2, <1>3
<1>5. (rep = TasksAfter(snaps, pos))' /\ (live = TasksAfter(snaps, Len(frames)))'
      /\ (\A i \in 1 .. Len(frames) : TasksAfter(snaps, i) = ReplayedAs(TasksAfter(snaps, i - 1), frames[i]))'
  BY Zenon, <1>1, <1>4 DEF TasksAfter, DataInv, FramesReplay
<1>6. FramesReplay'
  BY Zenon, <1>1, <1>3, <1>5 DEF FramesReplay, DataInv
<1> QED BY Zenon, <1>1, <1>6 DEF DataInv, WantedOK, PD!SetTakesEffect

\* What the two other steps leave alone is all the invariant speaks of.
LEMMA DataStutter ==
    ASSUME DataInv, UNCHANGED <<live, frames, snaps, wanted, rep, pos>>
    PROVE  DataInv'
BY Zenon DEF DataInv, FramesReplay, WantedOK, PD!SetTakesEffect, TasksAfter

-----------------------------------------------------------------------------
\* A recorded debugger replays: whatever requests it makes on its tracee
\* (prepare_ptrace, on_syscall_exit), replaying their frames
\* (rep_after_enter_syscall, apply_all_data_records_from_trace) takes both tasks
\* through the states the recording went through, and what it set is what the
\* tracee has.  Requests on a task that is not stopped, which replay treats
\* differently, are left out.
THEOREM TracerRequestsReplayed == Refused = FALSE => (MCSpec => []TracerRequestsReplay)
<1> SUFFICES ASSUME Refused = FALSE PROVE MCSpec => []TracerRequestsReplay
  BY Zenon
<1>1. MCInit => DataInv
  <2>1. PD!DataInit \/ NoData => DataInv
    BY Zenon, DataInitOK DEF PD!DataInit, NoData
  <2> QED BY Zenon, <2>1 DEF MCInit
<1>2. DataInv /\ [MCNext]_<<part, stop_vars, data_vars, vars>> => DataInv'
  <2> SUFFICES ASSUME DataInv, [MCNext]_<<part, stop_vars, data_vars, vars>> PROVE DataInv'
    OBVIOUS
  <2>1. CASE PD!DataNext
    <3>1. CASE \E q \in PD!Requests : PD!Ptrace(q)
      BY Zenon, <3>1, PtraceStep
    <3>2. CASE PD!TraceeStops
      BY Zenon, <3>2, DataStutter DEF PD!TraceeStops
    <3>3. CASE PD!ReplayPtrace
      BY Zenon, <3>3, ReplayStep
    <3> QED BY Zenon, <2>1, <3>1, <3>2, <3>3 DEF PD!DataNext
  <2>2. CASE UNCHANGED data_vars
    BY Zenon, <2>2, DataStutter DEF data_vars
  <2> QED BY Zenon, <2>1, <2>2 DEF MCNext
<1>3. DataInv => TracerRequestsReplay
  BY DEF DataInv, FramesReplay, TasksAfter, TracerRequestsReplay, PD!ReplayFollows
<1> QED BY <1>1, <1>2, <1>3, PTL DEF MCSpec

==============================================================================
