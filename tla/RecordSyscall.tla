--------------------------- MODULE RecordSyscall ---------------------------
(***************************************************************************)
(* The memory side of one recorded system call: TaskSyscallState.  The     *)
(* parameters that SyscallTable registers are moved to scratch memory when *)
(* other tasks may run during the call, so that nothing the kernel writes  *)
(* becomes visible before it is recorded; when the call ends the outputs   *)
(* are copied back and recorded, and registers and pointers are restored.  *)
(*                                                                         *)
(* A buffer has three words.  `user' is the tracee's memory while          *)
(* recording, `replay' what the trace makes of it in a replay; scratch     *)
(* memory does not exist in a replay.                                      *)
(***************************************************************************)
EXTENDS SyscallTable, Integers, FiniteSets

CONSTANTS
    Selected,          \* the calls considered, a subset of Calls
    MaxRestarts        \* how often a call is interrupted

VARIABLES
    pc,        \* "user", "entered", "prepared", "returned", "done", "restart", "aborted"
    call,      \* the call, the case and its plan
    nulls,     \* parameters that are null pointers
    room,      \* of the scratch area: "enough", "small", "none"
    regs,      \* argument registers: "arg", "scratch", "invalid"
    number,    \* original_syscallno: "call" or "other"
    sstate,    \* TaskSyscallState
    user, scratch, replay,
    aside,     \* memory that is no parameter but that the kernel writes
    result,    \* -1: failed, -2: ERESTART*
    others,    \* other tasks have written
    restarts

vars == <<pc, call, nulls, room, regs, number, sstate, user, scratch, replay,
          aside, result, others, restarts>>

Words == 1..3
Capacity == 2        \* size of a buffer whose size is not fixed
Old == 10            \* before the call
Output == 11         \* written by the kernel or by rd for it
Other == 12          \* written by another task
Junk == 13           \* never written
RdMask == 15         \* a signal mask that blocks a signal rd needs
SafeMask == 14       \* the same without it

params == call.plan.params
Ids == DOMAIN params

\* Parameters that are registered: pointers that are not null.
Registered(ns) == {i \in Ids : i \notin ns /\ (params[i].at # 0 => params[i].at \notin ns)}

NoMemory == [data |-> <<>>, ptr |-> <<>>]
NoState == [list |-> {}, sw |-> "PreventSwitch", scratch_enabled |-> FALSE, saved |-> <<>>]

-----------------------------------------------------------------------------
(* done_preparing.                                                         *)

needs_scratch(list) == \E i \in list : params[i].mode # "InOutNoScratch"

Switchable(sw, list) ==
    IF room = "small" /\ sw = "AllowSwitch" /\ needs_scratch(list) THEN "PreventSwitch" ELSE sw

ScratchEnabled(sw, list) ==
    room # "none" /\ Switchable(sw, list) = "AllowSwitch" /\ list # {}

CopyIn_OnlyInOut(list) == [i \in Ids |-> IF i \in list /\ params[i].mode = "InOut"
                                         THEN user.data[i] ELSE [w \in Words |-> Junk]]
\* Step 1: In and InOut parameters are copied to scratch memory.
CopyIn(list) == [i \in Ids |-> IF i \in list /\ params[i].mode \in {"In", "InOut"}
                               THEN user.data[i] ELSE [w \in Words |-> Junk]]

\* Step 2: registers, and pointers in the scratch copies, are redirected.
RedirectRegs_OnlyInputs(list, r) ==
    [a \in 1..6 |-> IF \E i \in list : params[i].reg = a /\ params[i].mode \in {"In", "InOut"}
                    THEN "scratch" ELSE r[a]]
RedirectRegs(list, r) ==
    [a \in 1..6 |-> IF \E i \in list : params[i].reg = a /\ params[i].mode # "InOutNoScratch"
                    THEN "scratch" ELSE r[a]]
RedirectPtrs(list) ==
    [i \in Ids |-> IF i \in list /\ params[i].at # 0 THEN "scratch" ELSE user.ptr[i]]

\* Step 3: mutators, on the scratch copy or in place.
Mutated(list, data) ==
    {i \in list : params[i].mutator /\ data[i][1] = RdMask}
Mutate(list, data) ==
    [i \in Ids |-> IF i \in Mutated(list, data) THEN [data[i] EXCEPT ![1] = SafeMask]
                                                ELSE data[i]]

-----------------------------------------------------------------------------
(* process_syscall_results.                                                *)

\* ParamSize::eval, in the order of registration: a size that comes from
\* the result is shared out among the parameters that have it.
Limit(i) == IF params[i].size.src = "fixed" THEN Cardinality(Words) ELSE Capacity
Least(a, b) == IF a < b THEN a ELSE b
LimitSize(n) == Least(Capacity, n)
Sizes(list, lengths) ==
    LET consumed[i \in 0..Len(params)] ==
            IF i = 0 THEN 0
            ELSE consumed[i - 1]
                 + IF i \in list /\ params[i].size.src = "result"
                   THEN Least(Capacity, (IF result < 0 THEN 0 ELSE result) - consumed[i - 1])
                   ELSE 0
    IN [i \in list |->
          LET s == params[i].size
          IN  CASE s.src = "fixed" -> Limit(i)
                [] s.src = "result" -> consumed[i] - consumed[i - 1]
                [] s.src = "mem" -> IF s.at \in list THEN LimitSize(lengths[s.at][s.word])
                                    ELSE 0]

\* The first n words of buffer i, and the pointers in it, taken from `from'.
Copied(mem, from, sizes) ==
    [data |-> [i \in Ids |-> IF i \in DOMAIN sizes
                 THEN [w \in Words |-> IF w <= sizes[i] THEN from.data[i][w] ELSE mem.data[i][w]]
                 ELSE mem.data[i]],
     ptr |-> [c \in Ids |-> IF params[c].at \in DOMAIN sizes
                 THEN from.ptr[c] ELSE mem.ptr[c]]]

Only(sizes, is) == [i \in is \cap DOMAIN sizes |-> sizes[i]]
Outputs(list) == {i \in list : params[i].mode \in {"InOut", "Out"}}
InMemory(list) == {i \in list : params[i].at # 0 /\ params[i].mode # "InOutNoScratch"}

\* The tracee's memory when the call has been processed.
WriteBack(list, sizes) == Copied(user, scratch, Only(sizes, Outputs(list)))
RestorePtrs(list, mem) ==
    [mem EXCEPT !.ptr = [c \in Ids |-> IF c \in InMemory(list) THEN "user" ELSE mem.ptr[c]]]
RestoreMasks(mem) ==
    [mem EXCEPT !.data = [i \in Ids |-> IF i \in DOMAIN sstate.saved THEN sstate.saved[i]
                                                                     ELSE mem.data[i]]]
UserAfter(list, sizes, write_back) ==
    IF sstate.scratch_enabled
    THEN RestorePtrs(list, IF write_back THEN WriteBack(list, sizes) ELSE user)
    ELSE RestoreMasks(user)

\* What is recorded: the outputs, or without scratch memory every parameter.
\* With pointers in memory the data is read back from the tracee.
RecordedParams_OnlyOutputs(list, write_back) ==
    IF ~sstate.scratch_enabled \/ write_back THEN Outputs(list) ELSE {}
RecordedParams(list, write_back) ==
    IF ~sstate.scratch_enabled THEN list
    ELSE IF write_back
         THEN Outputs(list) \cup {i \in list : params[i].mode = "InOutNoScratch"}
         ELSE {}
ReplayAfter(list, sizes, write_back, mem) ==
    LET is == RecordedParams(list, write_back)
        from == IF sstate.scratch_enabled /\ InMemory(list) = {} THEN WriteBack(list, sizes)
                                                                  ELSE mem
    IN  Copied(replay, from, Only(sizes, is))

RegsAfter(list, r) ==
    IF sstate.scratch_enabled
    THEN [a \in 1..6 |-> IF \E i \in list : params[i].reg = a /\ params[i].mode # "InOutNoScratch"
                         THEN "arg" ELSE r[a]]
    ELSE r

process_syscall_results(write_back, mem) ==
    LET list == sstate.list
        lengths == IF sstate.scratch_enabled THEN scratch.data ELSE mem.data
        sizes == Sizes(list, lengths)
        after == IF sstate.scratch_enabled THEN UserAfter(list, sizes, write_back)
                 ELSE RestoreMasks(mem)
    IN  /\ user' = after
        /\ replay' = ReplayAfter(list, sizes, write_back, after)

abort_syscall_results ==
    user' = IF sstate.scratch_enabled THEN RestorePtrs(sstate.list, user) ELSE RestoreMasks(user)

-----------------------------------------------------------------------------
(* The tracee enters a call: any call and case, with one null pointer or   *)
(* none, and a scratch area of any size.                                   *)

AllArgs == [a \in 1..6 |-> "arg"]

LengthWords(ps, j) == {ps[i].size.word : i \in {i \in DOMAIN ps : ps[i].size.src = "mem"
                                                                /\ ps[i].size.at = j}}
InitialData(ps, mask) ==
    [i \in DOMAIN ps |-> [w \in Words |->
        IF w \in LengthWords(ps, i) THEN Capacity
        ELSE IF ps[i].mutator /\ w = 1 THEN mask ELSE Old]]

Leaves(ps) == {i \in DOMAIN ps : ps[i].reg # 0 /\ \A c \in DOMAIN ps : ps[c].at # i}

NoCall == [sys |-> "negative", op |-> "call", plan |-> PlanOf([sys |-> "negative", op |-> "call"])]

Init ==
    /\ pc = "user" /\ call = NoCall
    /\ nulls = {} /\ room = "enough" /\ regs = AllArgs /\ number = "call"
    /\ sstate = NoState /\ user = NoMemory /\ scratch = NoMemory /\ replay = NoMemory
    /\ aside = [user |-> Old, replay |-> Old]
    /\ result = 0 /\ others = FALSE /\ restarts = 0

Masks(ps) == IF \E i \in DOMAIN ps : ps[i].mutator THEN {RdMask, SafeMask} ELSE {Old}
Rooms(plan) ==
    IF plan.sw = "AllowSwitch" /\ plan.params # <<>> THEN {"enough", "small", "none"} ELSE {"enough"}

Enter(c) ==
    /\ pc = "user" /\ pc' = "entered"
    /\ \E plan \in {PlanOf(c)} :
          /\ call' = [sys |-> c.sys, op |-> c.op, plan |-> plan]
          /\ nulls' \in {{}} \cup {{i} : i \in Leaves(plan.params)}
          /\ room' \in Rooms(plan)
          /\ \E m \in Masks(plan.params) :
               user' = [data |-> InitialData(plan.params, m),
                        ptr |-> [i \in DOMAIN plan.params |-> "user"]]
    /\ replay' = user'
    /\ UNCHANGED <<regs, number, sstate, scratch, aside, result, others, restarts>>

-----------------------------------------------------------------------------
(* rec_prepare_syscall, rdcall by rdcall of the table, then done_preparing. *)

\* rd itself stores a result in the tracee's buffers.
StoreResult(mem, sizes) ==
    [mem EXCEPT !.data = [i \in Ids |->
        [w \in Words |-> IF i \in DOMAIN sizes /\ w <= sizes[i] THEN Output ELSE mem.data[i][w]]]]

Prepare ==
    LET plan == call.plan
        list == Registered(nulls)
        sw == Switchable(plan.sw, list)
        enabled == ScratchEnabled(plan.sw, list)
        mem == IF plan.rd_writes = "prepare" THEN StoreResult(user, [i \in list |-> Limit(i)]) ELSE user
        changed == IF plan.disabled = 0 THEN regs ELSE [regs EXCEPT ![plan.disabled] = "invalid"]
        masks == Mutated(list, mem.data)
    IN  /\ pc \in {"entered", "restart"}
        /\ pc' = "prepared"
        /\ number' = IF plan.hijacked THEN "other" ELSE number
        /\ sstate' = [list |-> list, sw |-> sw, scratch_enabled |-> enabled,
                      saved |-> IF enabled THEN <<>> ELSE [i \in masks |-> mem.data[i]]]
        /\ IF enabled
           THEN /\ scratch' = [data |-> Mutate(list, CopyIn(list)), ptr |-> RedirectPtrs(list)]
                /\ regs' = RedirectRegs(list, changed)
                /\ user' = mem
           ELSE /\ user' = [mem EXCEPT !.data = Mutate(list, mem.data)]
                /\ regs' = changed
                /\ UNCHANGED scratch
        /\ UNCHANGED <<call, nulls, room, replay, aside, result, others, restarts>>

-----------------------------------------------------------------------------
(* The kernel.  It finds a buffer through the registers and pointers as    *)
(* they are now.                                                           *)

Where == LET at[i \in 0..Len(params)] ==
                 IF i = 0 THEN "user"
                 ELSE IF params[i].reg # 0
                      THEN IF regs[params[i].reg] = "scratch" THEN "scratch" ELSE "user"
                 ELSE IF params[i].at = 0 THEN "user"
                 ELSE IF at[params[i].at] = "scratch" THEN scratch.ptr[i] ELSE user.ptr[i]
         IN  [i \in Ids |-> at[i]]

\* The call is executed as the tracee wrote it.
Executed == ~call.plan.expect /\ number = "call" /\ \A a \in 1..6 : regs[a] # "invalid"

\* Buffer i after the kernel has written it; lengths are set to n and
\* share[i] words come from a result that counts bytes.
KernelWrites(mem, i, n, share) ==
    [w \in Words |->
        CASE w \in LengthWords(params, i) -> n
          [] params[i].size.src = "fixed" -> Output
          [] params[i].size.src = "mem" /\ w <= Least(Capacity, n) -> Output
          [] params[i].size.src = "result" /\ w <= share[i] -> Output
          [] OTHER -> mem.data[i][w]]

\* A byte count is spread over the buffers in order.
Share(r) ==
    LET taken[i \in 0..Len(params)] ==
            IF i = 0 THEN 0
            ELSE taken[i - 1] + IF params[i].size.src = "result" /\ i \notin nulls
                                THEN Least(Capacity, r - taken[i - 1]) ELSE 0
    IN  [i \in Ids |-> taken[i] - taken[i - 1]]

\* A buffer without a place for its length is not written.
Written == {i \in Registered(nulls) : params[i].mode # "In" /\ params[i].size.at \notin nulls}
Stored(mem, place, n, r) ==
    LET share == Share(r)
    IN  [mem EXCEPT !.data = [i \in Ids |->
            IF i \in Written /\ Where[i] = place THEN KernelWrites(mem, i, n, share)
                                                 ELSE mem.data[i]]]

KernelStores(n, r) ==
    /\ user' = Stored(user, "user", n, r)
    /\ scratch' = IF sstate.scratch_enabled THEN Stored(scratch, "scratch", n, r) ELSE scratch
    /\ aside' = IF call.plan.after THEN [aside EXCEPT !.user = Output] ELSE aside

Results == IF \E i \in Ids : params[i].size.src = "result"
           THEN 0..(Capacity * Cardinality({i \in Ids \ nulls : params[i].size.src = "result"}))
           ELSE {0}

Returned(r) ==
    /\ pc = "prepared"
    /\ pc' = "returned" /\ result' = r
    /\ UNCHANGED <<call, nulls, room, regs, number, sstate, replay, others, restarts>>

Succeeds ==
    /\ Executed /\ call.sys \notin Sleeps
    /\ \E r \in Results, n \in {1, Capacity + 1} : Returned(r) /\ KernelStores(n, r)

\* A completed sleep leaves the remaining time alone.
SleepCompletes ==
    /\ Executed /\ call.sys \in Sleeps
    /\ Returned(0) /\ UNCHANGED <<user, scratch, aside>>

\* A refused, replaced or failing call; a failing one may have stored
\* something first.
Fails ==
    \/ Returned(-1) /\ UNCHANGED <<user, scratch, aside>>
    \/ Executed /\ Returned(-1) /\ KernelStores(1, 0)

\* pause() in place of a wait, inotify_init() in place of perf_event_open
\* and gettid() in place of connect return something, too.
OtherCallReturns == number = "other" /\ Returned(0) /\ UNCHANGED <<user, scratch, aside>>

\* Calls whose mask was changed in place are left out: that mask is not set
\* back before a restart.
Interrupted ==
    /\ call.plan.sw = "AllowSwitch" /\ ~call.plan.expect
    /\ restarts < MaxRestarts /\ sstate.saved = <<>>
    /\ Returned(-2)
    /\ IF call.sys \in Sleeps THEN KernelStores(1, 0) ELSE UNCHANGED <<user, scratch, aside>>

\* Another task writes memory of the caller, in the recording and at the
\* same place of the replay.
OtherTask ==
    LET set(mem) == [mem EXCEPT !.data = [i \in Ids |-> [mem.data[i] EXCEPT ![3] = Other]]]
    IN  /\ pc = "prepared" /\ sstate.sw = "AllowSwitch" /\ room # "none"
        /\ Ids # {} /\ ~others
        /\ others' = TRUE
        /\ user' = set(user) /\ replay' = set(replay)
        /\ UNCHANGED <<pc, call, nulls, room, regs, number, sstate, scratch, aside, result, restarts>>

-----------------------------------------------------------------------------
(* The end of the call: rec_process_syscall, rec_prepare_restart_syscall   *)
(* or rec_abort_prepared_syscall.                                          *)

DropState ==
    /\ sstate' = NoState /\ scratch' = NoMemory
    /\ UNCHANGED <<call, nulls, room, others>>

WriteBackWanted == ~(call.sys \in NoWriteBackOnSuccess /\ result = 0)

Process ==
    LET plan == call.plan
        restored == [a \in 1..6 |-> IF a \in RestoredArgs(call.sys) /\ ~plan.expect
                                    THEN "arg" ELSE regs[a]]
        stored == IF plan.rd_writes = "process"
                  THEN StoreResult(user, Only(Sizes(sstate.list, user.data), {1})) ELSE user
    IN  /\ pc = "returned" /\ result # -2
        /\ pc' = "done"
        /\ number' = IF RestoresNumber(call.sys) THEN "call" ELSE number
        /\ process_syscall_results(WriteBackWanted, stored)
        /\ regs' = RegsAfter(sstate.list, restored)
        /\ aside' = IF plan.after THEN [aside EXCEPT !.replay = aside.user] ELSE aside
        /\ result' = IF plan.emulated THEN 0 ELSE result
        /\ DropState /\ UNCHANGED restarts

\* After an ERESTART result: the argument registers are all set back.
PrepareRestart ==
    /\ pc = "returned" /\ result = -2
    /\ pc' = "restart"
    /\ number' = IF call.sys \in Waits THEN "call" ELSE number
    /\ regs' = AllArgs
    /\ IF call.sys \in Sleeps
       THEN process_syscall_results(TRUE, user)
       ELSE UNCHANGED <<user, replay>>
    /\ result' = 0 /\ restarts' = restarts + 1
    /\ DropState /\ UNCHANGED aside

\* A filter of the tracee traps a call that is already prepared, which needs
\* PTRACE_SYSCALL to have been used because the call may be a restart.  The
\* registers read before abort_syscall_results are set again after it.
Abort ==
    /\ pc = "prepared" /\ restarts > 0
    /\ pc' = "aborted"
    /\ abort_syscall_results
    /\ number' = "other"
    /\ DropState /\ UNCHANGED <<regs, replay, aside, result, restarts>>

\* The tracee goes on (a call that may restart returns EINTR to it).
Leave ==
    /\ pc \in {"done", "restart", "aborted"}
    /\ pc' = "user" /\ call' = NoCall
    /\ nulls' = {} /\ room' = "enough" /\ regs' = AllArgs /\ number' = "call"
    /\ sstate' = NoState /\ user' = NoMemory /\ scratch' = NoMemory /\ replay' = NoMemory
    /\ aside' = [user |-> Old, replay |-> Old]
    /\ result' = 0 /\ others' = FALSE /\ restarts' = 0

Next ==
    \/ \E c \in Selected : Enter(c)
    \/ Prepare
    \/ Succeeds \/ SleepCompletes \/ Fails \/ OtherCallReturns \/ Interrupted
    \/ OtherTask
    \/ Process \/ PrepareRestart \/ Abort \/ Leave

Spec == Init /\ [][Next]_vars

-----------------------------------------------------------------------------
(* Properties.                                                             *)

(* When a call is over, every byte of the caller's memory is what the      *)
(* trace makes of it: whatever the kernel or rd stored was recorded, from  *)
(* where it was stored, and all temporary changes are gone.                *)
ReplayAgrees ==
    pc \in {"done", "restart", "aborted"} => user = replay /\ aside.user = aside.replay

(* While another task may run during a call, the caller's memory shows no  *)
(* output that is not recorded yet: a task that read it would diverge.     *)
NothingVisibleUnrecorded ==
    pc \in {"prepared", "returned"} /\ sstate.sw = "AllowSwitch" /\ room # "none"
        => user = replay

(* Arguments invalidated, redirected to scratch memory or replaced, and    *)
(* a replaced system-call number, are set back when the call ends or is    *)
(* about to restart.                                                       *)
RegistersRestored ==
    pc \in {"done", "restart"} => regs = AllArgs /\ number = "call"

(* The kernel reads the inputs the tracee passed, wherever they have been  *)
(* copied, through whatever chain of pointers.                             *)
KernelSeesInput ==
    pc = "prepared" /\ Executed /\ ~others
        => \A i \in Registered(nulls) :
             params[i].mode \in {"In", "InOut"} /\ ~params[i].mutator
               => IF Where[i] = "scratch" THEN scratch.data[i] = user.data[i]
                                          ELSE user.data[i] = replay.data[i]

(* No mask that blocks a signal rd relies on reaches the kernel.           *)
RdSignalsUnblocked ==
    pc = "prepared" /\ Executed
        => \A i \in Registered(nulls) : params[i].mutator
             => (IF Where[i] = "scratch" THEN scratch ELSE user).data[i][1] # RdMask

(* A length returned by the kernel may exceed the buffer; copying the      *)
(* output back never writes past the buffer's end.                         *)
NothingPastBuffer ==
    \A i \in DOMAIN user.data : params[i].size.src # "fixed" => user.data[i][3] \in {Old, Other}
=============================================================================
