------------------------------ MODULE MCReplay ------------------------------
(***************************************************************************)
(* Replay, for TLC.  A behaviour is one of                                 *)
(*   frames    a recording replayed under a debugger (ReplaySession);      *)
(*   strings   a string instruction stepped over (FastForward);            *)
(*   timeline  a debugger going backwards and forwards (ReplayTimeline).   *)
(***************************************************************************)
EXTENDS ReplaySession, MCStrings, MCTimeline

VARIABLES part, in, out, line, tl, op, client

FF == INSTANCE FastForward WITH Inputs <- StringInputs

TL == INSTANCE ReplayTimeline WITH
          Recordings <- TimelineRecordings, SkidSize <- 1, StopCountLimit <- 2, LowOverhead <- 4,
          ShortReverse <- 2, MaxOps <- 6, MaxInterrupts <- 1, rec <- line

Pt(ip, x, ticks, k) == [ip |-> ip, x |-> x, ticks |-> ticks, k |-> k, w |-> "no"]

Wr(ip, x, ticks, w) == [ip |-> ip, x |-> x, ticks |-> ticks, k |-> "insn", w |-> w]

F(task_, ev, at, to, code) ==
    [t |-> task_, ev |-> ev, at |-> at, to |-> to, ticks |-> code[at].ticks]

C(cmd, target) == [cmd |-> cmd, target |-> target, states |-> {}]

End(u) == [t |-> u, ev |-> "end", at |-> 1, to |-> 1, ticks |-> 0]

(* A loop at addresses 1 2 with one tick per turn, interrupted twice.  The *)
(* second event is a signal at an address passed several times before.     *)
Turn(n) == <<Pt(1, n, n, "insn"), Pt(2, n, n, "insn")>>
LoopCode == Turn(0) \o Turn(1) \o Turn(2) \o Turn(3) \o Turn(4) \o Turn(5) \o Turn(6) \o Turn(7)
              \o <<Pt(7, 6, 8, "insn"), Pt(8, 6, 8, "end")>>
Loop == [code |-> (1 :> LoopCode), tasks |-> {1}, ro |-> FALSE, watch |-> FALSE,
         user |-> {2}, ckpts |-> {2},
         cons |-> {C("cont", 0), C("step", 0), C("cont", 4), C("cont", 7)},
         frames |-> <<F(1, "sched", 4, 4, LoopCode), F(1, "sigasync", 15, 15, LoopCode),
                      [F(1, "handler", 15, 17, LoopCode) EXCEPT !.ticks = 8], End(1)>>]

(* A repeated string instruction at address 2, executed twice; the first   *)
(* event falls inside its second execution.  The instruction before it     *)
(* writes the watched bytes, once without changing them.                   *)
RepCode == <<Pt(1, 0, 0, "insn"), Pt(2, 4, 0, "rep"), Pt(2, 3, 0, "rep"), Pt(2, 2, 0, "rep"),
             Wr(3, 0, 0, "changes"), Wr(1, 1, 1, "same"), Pt(2, 4, 1, "rep"), Pt(2, 3, 1, "rep"),
             Pt(2, 2, 1, "rep"), Pt(2, 1, 1, "rep"), Pt(3, 1, 1, "insn"), Pt(4, 0, 2, "end")>>
Rep == [code |-> (1 :> RepCode), tasks |-> {1}, ro |-> FALSE, watch |-> TRUE,
        user |-> {2, 3}, ckpts |-> {},
        cons |-> {C("cont", 0), C("step", 0), C("stepff", 0), [cmd |-> "stepff", target |-> 0,
                                                 states |-> {<<2, 2>>}]},
        frames |-> <<F(1, "sigasync", 9, 9, RepCode), F(1, "sched", 11, 11, RepCode), End(1)>>]

(* Traced and buffered syscalls.  4 is a syscall instruction, 6 the        *)
(* untraced one of the buffer, 7 the stop breakpoint of the flush.         *)
SysCode == <<Pt(3, 0, 0, "insn"), Pt(4, 1, 1, "sys"), Pt(5, 1, 1, "insn"), Pt(5, 2, 1, "insn"),
             Pt(6, 0, 2, "usys"), Pt(11, 0, 3, "cpuid"), Pt(7, 0, 3, "insn"), Pt(8, 0, 4, "insn"),
             Pt(4, 2, 5, "sys"), Pt(5, 3, 5, "insn"), Pt(9, 4, 5, "insn"), Pt(10, 0, 6, "end")>>
SysFrames == <<F(1, "enterptrace", 3, 3, SysCode), F(1, "enter", 3, 3, SysCode),
               F(1, "exit", 4, 4, SysCode),
               [t |-> 1, ev |-> "flush", at |-> 7, to |-> 7, ticks |-> 1],
               F(1, "reset", 7, 7, SysCode), F(1, "patch", 10, 11, SysCode), End(1)>>
Sys(ro) == [code |-> (1 :> SysCode), tasks |-> {1}, ro |-> ro, watch |-> FALSE,
            user |-> {4, 7}, ckpts |-> {1, 3},
            cons |-> {C("cont", 0), C("step", 0), C("stepff", 0), C("cont", 1), C("cont", 5)},
            frames |-> SysFrames]

(* Deterministic signals, an emulated instruction and a CPUID that was not *)
(* recorded; address 3 faults twice without executing in between.          *)
DetCode == <<Pt(1, 0, 0, "insn"), Pt(2, 0, 1, "cpuid"), Pt(3, 0, 1, "fault"), Pt(6, 0, 1, "insn"),
             Pt(2, 1, 2, "cpuid"), Pt(4, 0, 2, "fault"), Pt(5, 0, 2, "insn"),
             Pt(5, 1, 3, "insn"), Pt(6, 1, 4, "end")>>
Det == [code |-> (1 :> DetCode), tasks |-> {1}, ro |-> FALSE, watch |-> FALSE,
        user |-> {3, 6}, ckpts |-> {3},
        cons |-> {C("cont", 0), C("step", 0), C("stepff", 0), C("cont", 2), C("cont", 3)},
        frames |-> <<F(1, "sigdet", 3, 3, DetCode), F(1, "sigdet", 3, 3, DetCode),
                     F(1, "handler", 3, 4, DetCode), F(1, "growmap", 4, 4, DetCode),
                     F(1, "trap", 7, 7, DetCode), F(1, "sched", 8, 8, DetCode), End(1)>>]

(* Two threads of one address space; thread 2 execs after the leader has   *)
(* gone and takes its tid.                                                 *)
ThrA == <<Pt(1, 0, 0, "insn"), Pt(2, 0, 1, "insn"), Pt(1, 1, 1, "insn"), Pt(2, 1, 2, "insn"),
          Pt(9, 9, 2, "insn"), Pt(9, 8, 3, "insn"), Pt(8, 0, 3, "end")>>
ThrB == <<Pt(1, 5, 0, "insn"), Pt(2, 5, 1, "insn"), Pt(4, 5, 1, "sys"), Pt(5, 5, 1, "insn"),
          Pt(9, 9, 2, "end")>>
Threads == [code |-> (1 :> ThrA @@ 2 :> ThrB), tasks |-> {1, 2}, ro |-> TRUE, watch |-> FALSE,
            user |-> {2}, ckpts |-> {2, 4},
            cons |-> {C("cont", 0), C("step", 0), C("cont", 2)},
            frames |-> <<F(1, "sched", 2, 2, ThrA), F(2, "sched", 2, 2, ThrB),
                         F(1, "sched", 4, 4, ThrA), F(2, "enter", 4, 4, ThrB),
                         F(1, "taskexit", 4, 4, ThrA),
                         [t |-> 1, ev |-> "exec", at |-> 5, to |-> 5, ticks |-> 2],
                         F(1, "sched", 6, 6, ThrA), F(1, "exitnow", 6, 6, ThrA),
                         F(1, "taskexit", 6, 6, ThrA), End(1)>>]

ReplayRecordings == {Loop, Rep, Sys(TRUE), Sys(FALSE), Det, Threads}

string_vars == <<in, out>>
line_vars == <<line, tl, op, client>>

NoString == in = [op |-> "none"] /\ out = FF!NoResult
NoFrames == Init /\ rec = Loop
NoLine == TL!Init /\ line = LineLoop

MCInit ==
    \/ part = "frames" /\ Init /\ NoString /\ NoLine
    \/ part = "strings" /\ NoFrames /\ FF!Init /\ NoLine
    \/ part = "timeline" /\ NoFrames /\ NoString /\ TL!Init

MCNext ==
    \/ part = "frames" /\ Next /\ UNCHANGED <<part, string_vars, line_vars>>
    \/ part = "strings" /\ FF!Next /\ UNCHANGED <<part, vars, line_vars>>
    \/ part = "timeline" /\ TL!Next /\ UNCHANGED <<part, vars, string_vars>>

(* The fairness of ReplaySession and of ReplayTimeline.                    *)
MCSpec ==
    /\ MCInit /\ [][MCNext]_<<part, vars, string_vars, line_vars>>
    /\ WF_vars(part = "frames" /\ Replayer /\ UNCHANGED <<part, string_vars, line_vars>>)
    /\ WF_vars(part = "frames" /\ quiet /\ CallReplayStep /\ UNCHANGED <<part, string_vars, line_vars>>)
    /\ []<>(op.pc = "idle") \/ []<><<op.pc # "idle">>_line_vars

\* Between two calls of replay_step and in all of them: no assertion fails
\* (NeverDiverges), no internal breakpoint and no $ip behind one is left, also
\* not in checkpoints (NoTracesLeft), and RunSinglestep executes one
\* instruction (OneInstruction).
SessionSound == TypeOK /\ NeverDiverges /\ NoTracesLeft /\ OneInstruction

\* Each frame ends with its task where the recording had it
\* (EventsReplayedInPlace); on the way no user breakpoint is run over
\* (UserBreakpointsHit) and no ticks target (TicksTargetKept).
FramesInPlace == EventsReplayedInPlace /\ UserBreakpointsHit /\ TicksTargetKept

\* A bounded run of string iterations ends at a state that stepping one by one
\* passes, and skips no state or watched access it was asked to notice.
StringsAsStepped == part = "strings" => FF!StringRunOnPath /\ FF!NothingSkipped

\* Marks of a key are in program order, a checkpoint stands at its referenced
\* mark with nothing applied, the counts of checkpoints are right, and the
\* timeline knows where its session is and what is applied to it.
TimelineSound ==
    part = "timeline" =>
        TL!TypeOK /\ TL!MarksInOrder /\ TL!CheckpointsAtMarks /\ TL!CurrentKnown

\* reverse_continue ends at the latest stop before its origin,
\* reverse_singlestep undoes one step of the thread, and a lazy reverse step
\* leaves out only steps that report nothing.
ReverseExecutionExact ==
    part = "timeline" =>
        TL!ReverseContinueLandsOnLastStop /\ TL!ReverseStepUndoesOne /\ TL!LazyAgrees

\* Every operation of the timeline comes to an end.
OperationsEnd == TL!OperationsEnd
=============================================================================
