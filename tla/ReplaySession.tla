--------------------------- MODULE ReplaySession ---------------------------
(***************************************************************************)
(* The replayer: session/replay_session.rs.  A recording is a sequence of  *)
(* trace frames; replaying it drives every tracee to the execution point   *)
(* each of its frames was recorded at, while a debugger between two calls  *)
(* of replay_step_with_constraints sets breakpoints and watchpoints,       *)
(* steps, asks to stop short of a tick count and makes or restores         *)
(* checkpoints.  Interrupts of the tick counter are imprecise: they come   *)
(* up to MaxSkid ticks late, and stray ones arrive at any time.            *)
(*                                                                         *)
(* A recording is [code, frames, ro].  code[t] is the execution of task t: *)
(* a sequence of points [ip, x, ticks, k, w] (address, remaining           *)
(* registers, tick count, kind of the instruction there, effect of the     *)
(* instruction on the watched bytes).  A frame is [t, ev, at, to, ticks]:  *)
(* the event happened at point `at' and its replay leaves the task at      *)
(* point `to'.  ro says that code is in private read-only memory.          *)
(***************************************************************************)
EXTENDS Integers, Sequences, FiniteSets, FiniteSetsExt, TLC

CONSTANTS Recordings,       \* the recordings to replay
          SkidSize,         \* PerfCounters::skid_size()
          MaxSkid,          \* how late a counter interrupt really is
          MaxTicksRequest,  \* MAX_TICKS_REQUEST
          MaxStrays         \* stray time-slice signals in one behaviour

ASSUME SkidAssumption == MaxSkid \in Nat /\ SkidSize \in Nat /\ MaxSkid < SkidSize

VARIABLES rec,        \* the recording being replayed
          frame,      \* index of the current trace frame
          step,       \* current_step.action
          task,       \* per task: point, $ip past a breakpoint?, stop, trap reasons
          alive,      \* tids of the live tasks
          bps,        \* [user: addresses, internal: reference counts]
          sysbp,      \* syscall_bp_addr, 0 for none
          cons,       \* StepConstraints of the call under way
          pc,         \* where the call is
          async,      \* locals of emulate_async_signal
          result,     \* the ReplayResult of the last call
          watch,      \* [on, changed]
          ckpt,       \* a checkpoint, or {}
          strays,     \* stray signals left
          quiet       \* the debugger has gone

vars == <<rec, frame, step, task, alive, bps, sysbp, cons, pc, async, result, watch, ckpt,
          strays, quiet>>

-----------------------------------------------------------------------------
R == rec
Frames == R.frames
Cur == Frames[frame]
t == Cur.t
Code == R.code[t]
me == task[t]
Here == Code[me.at]
Target == Code[Cur.at]
Regs(p) == <<p.ip, p.x>>

NoBreak == [status |-> "continue", bp |-> FALSE, stepped |-> FALSE, signal |-> FALSE,
            watch |-> FALSE, approaching |-> FALSE, exit |-> FALSE]

NoCons == [cmd |-> "cont", target |-> 0, states |-> {}, from |-> 1]

NoAsync == [pending |-> FALSE, cmd |-> "cont", bp |-> FALSE]

is_singlestep(cmd) == cmd \in {"step", "stepff"}

(* Breakpoint::bp_type: a user reference makes it a user breakpoint.       *)
BreakpointType(ip) ==
    IF ip \in bps.user THEN "user"
    ELSE IF bps.internal[ip] > 0 THEN "internal" ELSE "none"

add_internal(b, ip) == [b EXCEPT !.internal[ip] = @ + 1]

remove_internal(b, ip) == [b EXCEPT !.internal[ip] = IF @ > 0 THEN @ - 1 ELSE 0]

has_ticks_slop(ev) == ev \in {"abort", "flush", "reset", "growmap"}

treat_signal_event_as_deterministic(ev) == ev = "sigdet"

-----------------------------------------------------------------------------
(* The tracee, the kernel and the tick counter: external.  An outcome of a *)
(* resumption is the point reached, whether $ip is one byte past a         *)
(* breakpoint there, the stop, the debug status register, how the task was *)
(* resumed and, for a singlestep, the instruction it was resumed at.       *)
Stop(at, past, stop, dr6) ==
    [at |-> at, past |-> past, stop |-> stop, dr6 |-> dr6, how |-> "cont", over |-> "none"]

Stepped(at, past, stop, dr6) ==
    [at |-> at, past |-> past, stop |-> stop, dr6 |-> dr6, how |-> "step",
     over |-> IF past THEN "int3" ELSE Here.k]

Fires(i) == watch.on /\ Code[i].w # "no"

(* What is met on arriving at point i with breakpoints b.                  *)
Meets(b, how, i) ==
    LET c == Code[i] IN
    CASE c.ip \in b.user \/ b.internal[c.ip] > 0 -> Stop(i, TRUE, "trap", {})
      [] c.k = "fault" -> Stop(i, FALSE, "sig", {})
      [] c.k = "cpuid" -> Stop(i, FALSE, "segv", {})
      [] c.k = "sys" /\ how = "sysemu" -> Stop(i + 1, FALSE, "sys", {})
      [] c.k = "usys" /\ how = "sysemu" -> Stop(i + 1, FALSE, "usys", {})
      [] OTHER -> Stop(i, FALSE, "lost", {})

Halts(b, how, i) ==
    \/ i = Len(Code)
    \/ Code[i].ip \in b.user
    \/ b.internal[Code[i].ip] > 0
    \/ Code[i].k \in {"fault", "cpuid", "sys"}
    \/ Code[i].k = "usys" /\ how = "sysemu"

Unlimited == -1

Run(b, how, request) ==
    LET p       == me.at
        ends    == {i \in p .. Len(Code) : Halts(b, how, i) \/ (i > p /\ Fires(i - 1))}
        e       == Min(ends)
        ticks(i) == Code[i].ticks - Here.ticks
        atEnd   == IF e > p /\ Fires(e - 1) THEN Stop(e, FALSE, "trap", {"watch"})
                   ELSE Meets(b, how, e)
        req     == Max({1, request})
        counted == request # Unlimited
    IN (IF counted /\ ticks(e) > req + MaxSkid THEN {} ELSE {atEnd})
         \cup {Stop(i, FALSE, "tslice", {}) :
                  i \in {j \in p .. e : counted /\ ticks(j) \in req .. req + MaxSkid}}
         \cup {Stop(i, FALSE, "stray", {}) : 
                  i \in {j \in p .. e : strays > 0 /\ (counted => ticks(j) <= req + MaxSkid)}}

Step1(b, how) ==
    LET p == me.at
        c == Here
    IN (CASE c.ip \in b.user \/ b.internal[c.ip] > 0 -> {Stepped(p, TRUE, "trap", {})}
          [] c.k = "fault" -> {Stepped(p, FALSE, "sig", {})}
          [] c.k = "cpuid" -> {Stepped(p, FALSE, "segv", {})}
          [] c.k = "sys" -> {Stepped(p + 1, FALSE, IF how = "sysemu" THEN "sys" ELSE "lost", {})}
          [] c.k = "usys" /\ how = "sysemu" -> {Stepped(p + 1, FALSE, "usys", {})}
          [] c.k = "usys" -> {Stepped(p + 1, FALSE, "trap", {})}
          [] p = Len(Code) -> {Stepped(p, FALSE, "lost", {})}
          [] OTHER -> {Stepped(p + 1, FALSE, "trap",
                            {"bs"} \cup (IF Fires(p) THEN {"watch"} ELSE {}))})
         \cup (IF strays > 0 THEN {Stepped(p, FALSE, "stray", {})} ELSE {})

(* fast_forward_through_instruction as FastForward specifies it: one       *)
(* singlestep and, inside a repeated instruction, perhaps more of them.    *)
FastForward(b, how, states) ==
    LET p    == me.at
        Free(i) == /\ Code[i].ip = Here.ip
                   /\ Here.ip \notin b.user /\ b.internal[Here.ip] = 0
                   /\ ~Fires(i - 1) /\ Regs(Code[i]) \notin states
        More(q) == Code[q].ip = Here.ip /\ \A i \in p + 1 .. q - 1 : Free(i)
    IN Step1(b, how)
         \cup (IF Here.k # "rep" THEN {}
               ELSE {Stepped(q, FALSE, "trap", {"bs"} \cup (IF Fires(q - 1) THEN {"watch"} ELSE {})) :
                        q \in {i \in p + 2 .. Len(Code) : More(i)}})

-----------------------------------------------------------------------------
(* compute_trap_reasons_common: the debug status does not show a           *)
(* singlestep over a breakpoint, an executed syscall or an emulated CPUID. *)
compute_trap_reasons_DebugStatusOnly(o) ==
    [singlestep |-> "bs" \in o.dr6,
     watchpoint |-> "watch" \in o.dr6 \/ watch.changed,
     breakpoint |-> o.past]

compute_trap_reasons(o) ==
    LET single == \/ "bs" \in o.dr6
                  \/ o.how = "step" /\ o.over \in {"usys", "cpuid", "int3"}
        fired  == "watch" \in o.dr6 \/ watch.changed
    IN [singlestep |-> single,
        watchpoint |-> fired,
        breakpoint |-> IF single THEN o.over = "int3" ELSE ~fired /\ o.past]

(* continue_or_step: the outcomes after an untraced syscall was performed  *)
(* or a CPUID emulated; ~ok means Incomplete, i.e. "try again".            *)
Emulated_SameIp(o, cmd) ==
    [o EXCEPT !.stop = IF is_singlestep(cmd) THEN "trap" ELSE "none"]

Emulated(o, cmd) ==
    [o EXCEPT !.at = @ + 1, !.stop = IF is_singlestep(cmd) THEN "trap" ELSE "none"]

Resumed(b, how, request, cmd, states) ==
    CASE cmd = "cont" -> Run(b, how, request)
      [] cmd = "step" -> Step1(b, "step")
      [] cmd = "stepff" -> FastForward(b, "step", states)

(* handle_unrecorded_cpuid_fault and perform_interrupted_syscall.          *)
Handled(o, cmd) ==
    CASE o.stop = "segv" -> Emulated(o, cmd)
      [] o.stop = "usys" -> [o EXCEPT !.stop = "none"]
      [] OTHER -> o

Incompletely(o, cmd) == o.stop \in {"segv", "usys"} /\ ~is_singlestep(cmd)

(* The tracee stopped for something other than a signal.                   *)
check_pending_sig(o) == o.stop \in {"sys", "lost", "none"}

continue_or_step(b, how, request) ==
    {[o |-> Handled(o, cons.cmd), ok |-> ~Incompletely(o, cons.cmd)] :
        o \in Resumed(b, how, request, cons.cmd, cons.states)}

(* compute_ticks_request: Unlimited, a period, or 0 when the target is too *)
(* close to run any further.                                               *)
compute_ticks_request ==
    IF cons.target = 0 THEN Unlimited
    ELSE Max({0, Min({MaxTicksRequest, cons.target - SkidSize - Here.ticks})})

Took(o) ==
    /\ task' = [task EXCEPT ![t] = [o EXCEPT !.stop = IF @ = "stray" THEN "tslice" ELSE @]]
    /\ strays' = IF o.stop = "stray" THEN strays - 1 ELSE strays
    /\ watch' = [watch EXCEPT !.changed = @ \/ \E i \in me.at .. o.at - 1 :
                                                   watch.on /\ Code[i].w = "changes"]

is_ignored_signal(stop) == stop = "tslice" \/ stop = "stray"

(* The wait status is not looked at again before the next resumption.      *)
Idle(at, past) == Stop(at, past, "none", {})

ClearedStatus ==
    /\ task' = [task EXCEPT ![t] = Idle(me.at, me.past)]
    /\ UNCHANGED <<strays, watch>>

AtTarget_AddressOnly(o) == ~o.past /\ Code[o.at].ip = Target.ip

AtTarget(o) == ~o.past /\ Regs(Code[o.at]) = Regs(Target) /\ Code[o.at].ticks = Cur.ticks

-----------------------------------------------------------------------------
(* setup_replay_one_trace_frame: the step that retires a frame of each     *)
(* type.  An "exit" is a syscall exit that rep_process_syscall leaves to   *)
(* exit_syscall, "exitnow" one whose effects it has already applied.       *)
StepFor(ev) ==
    CASE ev \in {"enter", "enterptrace"} -> "enter_syscall"
      [] ev = "exit" -> "exit_syscall"
      [] ev \in {"exitnow", "reset", "abort", "growmap", "exec"} -> "retire"
      [] ev = "flush" -> "flush_syscallbuf"
      [] ev = "patch" -> "patch_syscall"
      [] ev \in {"sched", "sigasync"} -> "program_async"
      [] ev = "trap" \/ treat_signal_event_as_deterministic(ev) -> "deterministic_signal"
      [] ev \in {"delivery", "handler"} -> "deliver_signal"
      [] ev = "taskexit" -> "exit_task"

(* revive_task_for_exec: the leader's tid is dead in the trace and goes to *)
(* the one task that survives the exec.                                    *)
Reviving == t \notin alive

(* rep_process_syscall sets the registers of the exit it retires.          *)
SetupRegs ==
    CASE Cur.ev \in {"exitnow"} /\ ~Reviving ->
            /\ task' = [task EXCEPT ![t].at = Cur.to]
            /\ UNCHANGED alive
      [] Cur.ev = "exec" ->
            /\ alive' = {t}
            /\ task' = [task EXCEPT ![t] = [task[IF Reviving THEN CHOOSE u \in alive : TRUE ELSE t]
                                               EXCEPT !.at = Cur.to]]
      [] OTHER -> UNCHANGED <<alive, task>>

setup_replay_one_trace_frame ==
    /\ pc = "call" /\ Cur.ev # "end" /\ step = "none"
    /\ step' = StepFor(Cur.ev)
    /\ SetupRegs
    /\ result' = [NoBreak EXCEPT !.exit = Cur.ev = "taskexit"]
    /\ pc' = "idle" /\ cons' = NoCons
    /\ UNCHANGED <<rec, frame, bps, sysbp, async, watch, ckpt, strays, quiet>>

TraceEnded ==
    /\ pc = "call" /\ Cur.ev = "end"
    /\ result' = [NoBreak EXCEPT !.status = "exited"]
    /\ pc' = "idle" /\ cons' = NoCons
    /\ UNCHANGED <<rec, frame, step, task, alive, bps, sysbp, async, watch, ckpt, strays,
                   quiet>>

(* try_one_trace_step: the loop that carries out each step, unless the     *)
(* tick target comes first.                                                *)
TicksTargetFirst == cons.target > 0 /\ ~has_ticks_slop(Cur.ev) /\ Cur.ticks > cons.target

Loops == [retire |-> "complete", exit_syscall |-> "exit", deliver_signal |-> "deliver",
          exit_task |-> "end", enter_syscall |-> "syscall", patch_syscall |-> "patch",
          flush_syscallbuf |-> "flush", deterministic_signal |-> "det", program_async |-> "async1"]

try_one_trace_step ==
    /\ pc = "call" /\ Cur.ev # "end" /\ step # "none"
    /\ pc' = IF TicksTargetFirst THEN "ticks" ELSE Loops[step]
    /\ UNCHANGED <<rec, frame, step, task, alive, bps, sysbp, cons, async, result, watch, ckpt,
                   strays, quiet>>

(* exit_syscall: the recorded results and registers.                       *)
exit_syscall ==
    /\ pc = "exit" /\ pc' = "complete"
    /\ task' = [task EXCEPT ![t].at = Cur.to]
    /\ UNCHANGED <<rec, frame, step, alive, bps, sysbp, cons, async, result, watch, ckpt, strays,
                   quiet>>

(* emulate_signal_delivery: the recorded registers and handler frame.      *)
emulate_signal_delivery ==
    /\ pc = "deliver" /\ pc' = "complete"
    /\ task' = [task EXCEPT ![t].at = Cur.to]
    /\ UNCHANGED <<rec, frame, step, alive, bps, sysbp, cons, async, result, watch, ckpt, strays,
                   quiet>>

(* exit_task and end_task.                                                 *)
exit_task ==
    /\ pc = "end" /\ pc' = "complete"
    /\ alive' = alive \ {t}
    /\ UNCHANGED <<rec, frame, step, task, bps, sysbp, cons, async, result, watch, ckpt, strays,
                   quiet>>

-----------------------------------------------------------------------------
(* advance_to_ticks_target                                                 *)
advance_to_ticks_target ==
    /\ pc = "ticks"
    /\ IF compute_ticks_request = 0
       THEN ClearedStatus /\ pc' = "incomplete"
       ELSE \E r \in continue_or_step(bps, "sysemu", compute_ticks_request) :
              /\ Took(r.o)
              /\ pc' = IF r.ok /\ check_pending_sig(r.o) THEN "failed"
                       ELSE IF r.o.stop = "trap" THEN "incomplete" ELSE "ticks"
    /\ UNCHANGED <<rec, frame, step, alive, bps, sysbp, cons, async, result, ckpt, quiet>>

(* emulate_deterministic_signal; an instruction trap gets its recorded     *)
(* result registers.                                                       *)
SignalReached(o) ==
    CASE o.stop = "trap" -> "incomplete"
      [] o.stop = "sig" /\ Code[o.at].ticks = Cur.ticks -> "complete"
      [] OTHER -> "failed"

emulate_deterministic_signal ==
    /\ pc = "det"
    /\ IF AtTarget(me)
       THEN /\ pc' = "complete"
            /\ UNCHANGED <<task, strays, watch>>
       ELSE \E r \in continue_or_step(bps, "sysemu", Unlimited) :
              LET o == r.o
                  again == o.stop # "lost" /\ (~r.ok \/ is_ignored_signal(o.stop))
              IN /\ pc' = IF again THEN "det" ELSE SignalReached(o)
                 /\ Took(IF Cur.ev = "trap" /\ ~again /\ SignalReached(o) = "complete"
                         THEN [o EXCEPT !.at = Cur.to] ELSE o)
    /\ UNCHANGED <<rec, frame, step, alive, bps, sysbp, cons, async, result, ckpt, quiet>>

-----------------------------------------------------------------------------
(* emulate_async_signal, step 1: counter interrupts up to the slack.       *)
ticks_left == Cur.ticks - Here.ticks

guard_unexpected_signal(o) == o.stop \in {"sig", "segv", "sys", "lost"}

guard_overshoot(o) == Code[o.at].ticks > Cur.ticks

InterruptPeriod_Exact(left) == Min({MaxTicksRequest, left})

InterruptPeriod(left) == Min({MaxTicksRequest, left}) - SkidSize

AsyncCountDown ==
    /\ pc = "async1"
    /\ IF ticks_left > 2 * SkidSize
       THEN \E r \in continue_or_step(bps, "sysemu", InterruptPeriod(ticks_left)) :
              /\ Took(r.o)
              /\ pc' = IF guard_unexpected_signal(r.o) THEN "failed"
                       ELSE IF r.o.stop = "trap" THEN "incomplete" ELSE "async1"
       ELSE /\ pc' = IF guard_overshoot(me) THEN "failed" ELSE "async2"
            /\ UNCHANGED <<task, strays, watch>>
    /\ UNCHANGED <<rec, frame, step, alive, bps, sysbp, cons, async, result, ckpt, quiet>>

(* Step 2, a SIGTRAP to be explained: the debugger's, or our breakpoint on *)
(* the target address.                                                     *)
DebuggerTrap ==
    \/ is_singlestep(cons.cmd)
    \/ compute_trap_reasons(me).watchpoint /\ watch.changed
    \/ compute_trap_reasons(me).breakpoint /\ BreakpointType(Here.ip) = "user"

WithoutTargetBreakpoint == IF async.bp THEN remove_internal(bps, Target.ip) ELSE bps

AsyncTrapForDebugger ==
    /\ pc = "async2" /\ async.pending /\ DebuggerTrap
    /\ pc' = IF is_singlestep(cons.cmd) /\ ~compute_trap_reasons(me).singlestep
             THEN "failed" ELSE "incomplete"
    /\ bps' = WithoutTargetBreakpoint
    /\ UNCHANGED <<rec, frame, step, task, alive, sysbp, cons, async, result, watch, ckpt, strays,
                   quiet>>

AsyncTrapAtTarget ==
    /\ pc = "async2" /\ async.pending /\ ~DebuggerTrap /\ compute_trap_reasons(me).breakpoint
    /\ pc' = IF async.bp /\ Here.ip = Target.ip /\ ~compute_trap_reasons(me).singlestep
             THEN "async2" ELSE "failed"
    /\ async' = [async EXCEPT !.pending = FALSE]
    /\ task' = [task EXCEPT ![t].past = FALSE]
    /\ UNCHANGED <<rec, frame, step, alive, bps, sysbp, cons, result, watch, ckpt, strays, quiet>>

(* Step 2, otherwise: done, or on with a breakpoint on the target address, *)
(* or over an instruction at the target address that is not the target.    *)
TrapExplained ==
    \/ ~async.pending
    \/ ~DebuggerTrap /\ ~compute_trap_reasons(me).breakpoint

AsyncDone ==
    /\ pc = "async2" /\ TrapExplained /\ AtTarget(me)
    /\ pc' = "complete"
    /\ bps' = WithoutTargetBreakpoint
    /\ async' = NoAsync
    /\ UNCHANGED <<rec, frame, step, task, alive, sysbp, cons, result, watch, ckpt, strays, quiet>>

AsyncAfter(o) ==
    IF (~AtTarget(o) /\ guard_unexpected_signal(o)) \/ guard_overshoot(o)
    THEN "failed" ELSE "async2"

AsyncToTargetAddress ==
    /\ pc = "async2" /\ TrapExplained /\ ~AtTarget(me) /\ Here.ip # Target.ip
    /\ bps' = add_internal(WithoutTargetBreakpoint, Target.ip)
    /\ \E r \in continue_or_step(bps', "sysemu", Unlimited) :
         /\ Took(r.o)
         /\ async' = [pending |-> r.o.stop = "trap", cmd |-> cons.cmd, bp |-> TRUE]
         /\ pc' = AsyncAfter(r.o)
    /\ UNCHANGED <<rec, frame, step, alive, sysbp, cons, result, ckpt, quiet>>

LetDebuggerStep == cons.cmd = "step" \/ BreakpointType(Here.ip) = "user"

AsyncOverTargetAddress ==
    /\ pc = "async2" /\ TrapExplained /\ ~AtTarget(me) /\ Here.ip = Target.ip
    /\ bps' = WithoutTargetBreakpoint
    /\ IF LetDebuggerStep
       THEN \E r \in continue_or_step(bps', "sysemu", Unlimited) :
              /\ Took(r.o)
              /\ async' = [pending |-> r.o.stop = "trap", cmd |-> cons.cmd, bp |-> FALSE]
              /\ pc' = AsyncAfter(r.o)
       ELSE \E o \in FastForward(bps', "step", cons.states \cup {Regs(Target)}) :
              /\ Took(o)
              /\ async' = [pending |-> o.stop = "trap", cmd |-> "stepff", bp |-> FALSE]
              /\ pc' = IF check_pending_sig(o) THEN "failed" ELSE AsyncAfter(o)
    /\ UNCHANGED <<rec, frame, step, alive, sysbp, cons, result, ckpt, quiet>>

-----------------------------------------------------------------------------
(* flush_syscallbuf: run the buffered syscalls up to the stop breakpoint   *)
(* behind the last record, whose address is that of point Cur.at.          *)
stop_breakpoint_addr == Target.ip

FlushReached(o) ==
    /\ o.past /\ Code[o.at].ip = stop_breakpoint_addr
    /\ stop_breakpoint_addr \notin bps.user

flush_syscallbuf ==
    /\ pc = "flush"
    /\ IF compute_ticks_request = 0
       THEN ClearedStatus /\ pc' = "incomplete"
       ELSE \E r \in continue_or_step(add_internal(bps, stop_breakpoint_addr), "cont", compute_ticks_request) :
              LET o == r.o IN
              CASE is_ignored_signal(o.stop) -> Took(o) /\ pc' = "incomplete"
                [] o.stop \in {"sig", "lost", "sys"} -> Took(o) /\ pc' = "failed"
                [] o.stop = "none" -> Took(o) /\ pc' = "flush"
                [] FlushReached(o) -> Took([o EXCEPT !.past = FALSE]) /\ pc' = "complete"
                [] OTHER -> Took(o) /\ pc' = "incomplete"
    /\ UNCHANGED <<rec, frame, step, alive, bps, sysbp, cons, async, result, ckpt, quiet>>

-----------------------------------------------------------------------------
(* cont_syscall_boundary with breakpoints b: the outcomes, and whether the *)
(* boundary was reached.                                                   *)
BoundaryRequest == IF cons.target <= Cur.ticks THEN compute_ticks_request ELSE Unlimited

cont_syscall_boundary(b) ==
    {[o |-> Handled(o, cons.cmd), done |-> o.stop = "sys"] :
        o \in CASE cons.cmd = "cont" -> Run(b, "sysemu", BoundaryRequest)
                [] cons.cmd = "step" -> Step1(b, "sysemu")
                [] cons.cmd = "stepff" -> FastForward(b, "sysemu", cons.states)}

(* enter_syscall: an internal breakpoint on the syscall instruction, kept  *)
(* until the event completes, replaces a real syscall stop.                *)
syscall_instruction == Code[Cur.at - 1].ip

UseSyscallBreakpoint == sysbp = 0 /\ R.ro

AfterSyscallBp == IF UseSyscallBreakpoint THEN add_internal(bps, syscall_instruction) ELSE bps

ReachedTarget(o, addr) ==
    /\ addr # 0 /\ o.stop = "trap" /\ o.past
    /\ Code[o.at].ip = syscall_instruction
    /\ syscall_instruction \notin bps.user

EnterSyscallRun ==
    LET addr == IF UseSyscallBreakpoint THEN syscall_instruction ELSE sysbp IN
    IF BoundaryRequest = 0
    THEN /\ ClearedStatus /\ pc' = "incomplete"
         /\ bps' = AfterSyscallBp /\ sysbp' = addr
    ELSE \E r \in cont_syscall_boundary(AfterSyscallBp) :
           LET o == r.o IN
           CASE r.done ->
                  /\ Took(o)
                  /\ pc' = IF addr = 0 /\ AtTarget(o) THEN "complete" ELSE "failed"
                  /\ bps' = AfterSyscallBp /\ sysbp' = addr
             [] ReachedTarget(o, addr) ->
                  /\ Took([o EXCEPT !.at = @ + 1, !.past = FALSE])
                  /\ pc' = IF o.at + 1 = Cur.at THEN "complete" ELSE "failed"
                  /\ bps' = remove_internal(AfterSyscallBp, addr) /\ sysbp' = 0
             [] OTHER ->
                  /\ Took(o)
                  /\ pc' = IF o.stop \in {"sig", "lost"} THEN "failed" ELSE "incomplete"
                  /\ bps' = AfterSyscallBp /\ sysbp' = addr

enter_syscall ==
    /\ pc = "syscall"
    /\ IF AtTarget(me)
       THEN /\ pc' = IF Cur.ev = "enter" THEN "complete" ELSE "failed"
            /\ UNCHANGED <<task, strays, watch, bps, sysbp>>
       ELSE EnterSyscallRun
    /\ UNCHANGED <<rec, frame, step, alive, cons, async, result, ckpt, quiet>>

(* patch_next_syscall: reach the syscall, then go back and patch it.       *)
patch_next_syscall ==
    /\ pc = "patch"
    /\ IF BoundaryRequest = 0
       THEN ClearedStatus /\ pc' = "incomplete"
       ELSE \E r \in cont_syscall_boundary(bps) :
              IF r.done THEN Took([r.o EXCEPT !.at = Cur.to]) /\ pc' = "complete"
              ELSE /\ Took(r.o)
                   /\ pc' = IF r.o.stop \in {"sig", "lost"} THEN "failed" ELSE "incomplete"
    /\ UNCHANGED <<rec, frame, step, alive, bps, sysbp, cons, async, result, ckpt, quiet>>

-----------------------------------------------------------------------------
check_approaching_ticks_target == cons.target > 0 /\ cons.target - Here.ticks <= SkidSize

(* An incomplete step: diagnose_debugger_trap says why.                    *)
AtUserBreakpoint ==
    IF me.stop = "trap" THEN compute_trap_reasons(me).breakpoint /\ Here.ip \in bps.user
    ELSE me.stop # "none" /\ Here.ip \in bps.user

diagnose_debugger_trap ==
    LET trap  == me.stop = "trap"
        wfire == trap /\ compute_trap_reasons(me).watchpoint
    IN /\ pc = "incomplete"
       /\ result' = [NoBreak EXCEPT
                        !.bp = AtUserBreakpoint,
                        !.stepped = trap /\ compute_trap_reasons(me).singlestep /\ is_singlestep(cons.cmd),
                        !.watch = wfire /\ watch.changed,
                        !.approaching = check_approaching_ticks_target]
       /\ watch' = IF wfire THEN [watch EXCEPT !.changed = FALSE] ELSE watch
       /\ task' = [task EXCEPT ![t] = Idle(me.at, me.past /\ ~AtUserBreakpoint)]
       /\ cons' = NoCons /\ async' = NoAsync
       /\ pc' = IF me.stop \in {"sig", "segv"} /\ ~AtUserBreakpoint THEN "failed" ELSE "idle"
       /\ UNCHANGED <<rec, frame, step, alive, bps, sysbp, ckpt, strays, quiet>>

(* A completed step: what is reported, the consistency of the tick count,  *)
(* and on to the next frame.                                               *)
has_deterministic_ticks == ~has_ticks_slop(Cur.ev) /\ step # "program_async"

check_ticks_consistency == Here.ticks = Cur.ticks

advance_to_next_trace_frame == frame' = frame + 1 /\ step' = "none"

replay_step_completed ==
    /\ pc = "complete"
    /\ result' = [NoBreak EXCEPT
                    !.signal = Cur.ev \in {"sigasync", "sigdet"},
                    !.stepped = is_singlestep(cons.cmd) /\ Cur.ev \in
                                    {"sigasync", "sigdet", "trap", "handler", "exit"},
                    !.watch = step # "exit_task" /\ watch.changed,
                    !.approaching = step # "exit_task" /\ check_approaching_ticks_target]
    /\ task' = [task EXCEPT ![t] = Idle(me.at, me.past)]
    /\ cons' = NoCons /\ async' = NoAsync
    /\ watch' = IF step = "exit_task" THEN watch ELSE [watch EXCEPT !.changed = FALSE]
    /\ IF step # "exit_task" /\ has_deterministic_ticks /\ ~check_ticks_consistency
       THEN pc' = "failed" /\ UNCHANGED <<frame, step>>
       ELSE pc' = "idle" /\ advance_to_next_trace_frame
    /\ UNCHANGED <<rec, alive, bps, sysbp, ckpt, strays, quiet>>

-----------------------------------------------------------------------------
(* The debugger, between two calls: external.                              *)
CallReplayStep ==
    /\ pc = "idle" /\ result.status # "exited"
    /\ \E c \in R.cons :
         /\ quiet => c.target = 0
         /\ cons' = [cmd |-> c.cmd, target |-> c.target, states |-> c.states, from |-> me.at]
    /\ pc' = "call" /\ result' = NoBreak
    /\ UNCHANGED <<rec, frame, step, task, alive, bps, sysbp, async, watch, ckpt, strays, quiet>>

ToggleBreakpoint ==
    /\ pc = "idle" /\ ~quiet
    /\ \E ip \in R.user :
         bps' = [bps EXCEPT !.user = IF ip \in @ THEN @ \ {ip} ELSE @ \cup {ip}]
    /\ UNCHANGED <<rec, frame, step, task, alive, sysbp, cons, pc, async, result, watch, ckpt,
                   strays, quiet>>

ToggleWatchpoint ==
    /\ pc = "idle" /\ ~quiet /\ R.watch
    /\ watch' = [on |-> ~watch.on, changed |-> FALSE]
    /\ UNCHANGED <<rec, frame, step, task, alive, bps, sysbp, cons, pc, async, result, ckpt, strays,
                   quiet>>

can_checkpoint_at(ev) == ~has_ticks_slop(ev) /\ ev \notin {"taskexit", "end"}

can_clone == t \in alive /\ can_checkpoint_at(Cur.ev)

clear_syscall_bp == IF sysbp # 0 THEN remove_internal(bps, sysbp) ELSE bps

(* clone_replay; the copy has no syscall breakpoint of its own.            *)
clone_replay ==
    /\ pc = "idle" /\ ~quiet /\ can_clone /\ frame \in R.ckpts /\ ckpt = {}
    /\ bps' = clear_syscall_bp
    /\ sysbp' = 0
    /\ ckpt' = {[frame |-> frame, step |-> step, task |-> task, alive |-> alive,
                 internal |-> bps'.internal]}
    /\ UNCHANGED <<rec, frame, step, task, alive, cons, pc, async, result, watch, strays, quiet>>

RestoreCheckpoint ==
    /\ pc = "idle" /\ ~quiet
    /\ \E c \in ckpt :
         /\ frame' = c.frame /\ step' = c.step /\ task' = c.task /\ alive' = c.alive
         /\ bps' = [bps EXCEPT !.internal = c.internal]
         /\ ckpt' = {}
    /\ sysbp' = 0
    /\ watch' = [watch EXCEPT !.changed = FALSE]
    /\ result' = NoBreak
    /\ UNCHANGED <<rec, cons, pc, async, strays, quiet>>

DebuggerLeaves ==
    /\ pc = "idle" /\ ~quiet
    /\ quiet' = TRUE
    /\ bps' = [bps EXCEPT !.user = {}]
    /\ watch' = [on |-> FALSE, changed |-> FALSE]
    /\ ckpt' = {}
    /\ UNCHANGED <<rec, frame, step, task, alive, sysbp, cons, pc, async, result, strays>>

-----------------------------------------------------------------------------
Addresses(r) == UNION {{r.code[u][i].ip : i \in DOMAIN r.code[u]} : u \in DOMAIN r.code}

Init ==
    /\ rec \in Recordings
    /\ frame = 1 /\ step = "none"
    /\ task = [u \in DOMAIN R.code |-> Stop(1, FALSE, "none", {})]
    /\ alive = R.tasks
    /\ bps = [user |-> {}, internal |-> [ip \in Addresses(R) |-> 0]]
    /\ sysbp = 0
    /\ cons = NoCons
    /\ pc = "idle" /\ async = NoAsync /\ result = NoBreak
    /\ watch = [on |-> FALSE, changed |-> FALSE]
    /\ ckpt = {} /\ strays = MaxStrays /\ quiet = FALSE

Replayer ==
    \/ setup_replay_one_trace_frame \/ TraceEnded \/ try_one_trace_step
    \/ exit_syscall \/ emulate_signal_delivery \/ exit_task
    \/ advance_to_ticks_target \/ emulate_deterministic_signal
    \/ AsyncCountDown \/ AsyncTrapForDebugger \/ AsyncTrapAtTarget \/ AsyncDone
    \/ AsyncToTargetAddress \/ AsyncOverTargetAddress
    \/ flush_syscallbuf \/ enter_syscall \/ patch_next_syscall
    \/ diagnose_debugger_trap \/ replay_step_completed

Debugger ==
    \/ CallReplayStep \/ ToggleBreakpoint \/ ToggleWatchpoint
    \/ clone_replay \/ RestoreCheckpoint \/ DebuggerLeaves

Next == Replayer \/ Debugger

(* A call of replay_step runs to its end, and a debugger that has left     *)
(* nothing behind keeps calling it.                                        *)
Spec == Init /\ [][Next]_vars /\ WF_vars(Replayer) /\ WF_vars(quiet /\ CallReplayStep)

-----------------------------------------------------------------------------
TypeOK ==
    /\ frame \in DOMAIN Frames
    /\ step \in {"none"} \cup DOMAIN Loops
    /\ \A u \in DOMAIN task : task[u].at \in DOMAIN R.code[u]
    /\ alive \subseteq DOMAIN R.code
    /\ \A ip \in DOMAIN bps.internal : bps.internal[ip] \in 0 .. 1
    /\ sysbp = 0 \/ sysbp \in DOMAIN bps.internal
    /\ strays \in 0 .. MaxStrays

(* None of the assertions of the replayer fails: it never overshoots a     *)
(* target, never meets a signal or a syscall the recording does not have,  *)
(* and no tick count differs from the recorded one.                        *)
NeverDiverges == pc # "failed"

(* A frame is left only with its task at the point the recording has after *)
(* it, whatever the debugger asked for on the way and however late the     *)
(* counter interrupts were.                                                *)
EventsReplayedInPlace ==
    [][frame' > frame => (task[Cur.t].at = Cur.to /\ ~task[Cur.t].past)]_vars

(* No instruction with a user breakpoint on it is executed: neither an     *)
(* internal singlestep nor an internal breakpoint at the same address      *)
(* hides it ("an internal singlestep never triggers a user breakpoint",    *)
(* replay_session.rs; Breakpoint::bp_type, address_space.rs).              *)
Running == {"ticks", "det", "async1", "async2", "flush", "syscall"}
Moved == pc \in Running /\ me.at < task'[t].at
UserBreakpointsHit ==
    [][(Moved /\ frame' = frame)
         => \A i \in me.at .. task'[t].at - 1 : Code[i].k # "fault" => Code[i].ip \notin bps.user]_vars

(* Between two calls no internal breakpoint is set but the one on the      *)
(* syscall instruction of the event being replayed, and no task's $ip is   *)
(* left one byte past a breakpoint; a checkpoint holds no internal         *)
(* breakpoint at all.                                                      *)
NoTracesLeft ==
    /\ pc = "idle" =>
         /\ \A ip \in DOMAIN bps.internal :
                bps.internal[ip] > 0 => ip = sysbp /\ step = "enter_syscall"
         /\ \A u \in alive : ~task[u].past
    /\ \A c \in ckpt : \A ip \in DOMAIN c.internal : c.internal[ip] = 0

(* "If ticks_target is nonzero, stop before the current task's ticks       *)
(* reaches ticks_target": execution that starts short of the target does   *)
(* not run past it.                                                        *)
TicksTargetKept ==
    [][(cons.target > 0 /\ Here.ticks <= cons.target /\ Moved /\ frame' = frame)
         => Code[task'[t].at].ticks <= cons.target]_vars

(* RunSinglestep executes at most one instruction per call.                *)
OneInstruction ==
    (cons.cmd = "step" /\ pc \in Running \cup {"incomplete"}) => me.at <= cons.from + 1

(* Once the debugger is gone the replay reaches the end of the trace.      *)
ReplayFinishes == quiet ~> (result.status = "exited")
=============================================================================
