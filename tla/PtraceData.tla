----------------------------- MODULE PtraceData -----------------------------
(***************************************************************************)
(* The ptrace requests that read or change a tracee, recorded and          *)
(* replayed.  Recording answers a request itself (prepare_ptrace), puts    *)
(* the result and what the tracer's memory received into the frame of the  *)
(* call, and applies register changes when the call exits                  *)
(* (process_ptrace).  Replay makes no request: it applies the data of the  *)
(* frame, repeats some effects at the entry (rep_after_enter_syscall) and  *)
(* the register changes at the exit, with the same process_ptrace.         *)
(*                                                                         *)
(* The tracee is its general registers, its floating-point state, its      *)
(* debug registers, its fs base, a thread-area entry, a word of memory and *)
(* the flag that keeps it out of the syscall buffer.                       *)
(***************************************************************************)
EXTENDS Naturals, Sequences

CONSTANTS Values, NoValue, \* register and memory contents
          Refused,        \* requests on a task that is not stopped are tried
          MaxRequests     \* bound on the requests of the tracer

VARIABLES arch,      \* of the tracee (some requests exist on one only), or
                     \* "none" when nothing is traced
          stopped,   \* the tracee is in a ptrace stop of the tracer
          live,      \* recording: the two tasks
          frames,    \* the trace
          snaps,     \* ghost: the recorded tasks after each frame
          wanted,    \* ghost: the last values the tracer set
          rep,       \* replay: the two tasks
          pos        \* frames replayed

data_vars == <<arch, stopped, live, frames, snaps, wanted, rep, pos>>

Parts == {"regs", "extra", "debug", "fs_base", "area", "word"}
Zero == CHOOSE v \in Values : TRUE

NewTasks ==
    [tracee |-> [p \in Parts |-> Zero], locked |-> FALSE,
     tracer_extra |-> Zero, buffer |-> Zero]

DataInit ==
    /\ arch \in {"x86", "x64"}
    /\ stopped = TRUE /\ live = NewTasks /\ rep = NewTasks
    /\ frames = <<>> /\ snaps = <<>> /\ pos = 0
    /\ wanted = [p \in Parts |-> NoValue]

DataTypeOK ==
    /\ arch \in {"none", "x86", "x64"} /\ stopped \in BOOLEAN
    /\ \A s \in {live, rep} :
          /\ s.tracee \in [Parts -> Values] /\ s.locked \in BOOLEAN
          /\ s.tracer_extra \in Values /\ s.buffer \in Values
    /\ wanted \in [Parts -> Values \cup {NoValue}]
    /\ Len(frames) <= MaxRequests /\ Len(snaps) = Len(frames) /\ pos \in 0..Len(frames)

(***************************************************************************)
(* The requests: a command, the part of the tracee it is about, and a      *)
(* value for those that set one.  fit is FALSE when the arguments are      *)
(* refused: a misaligned offset, too short a buffer, an unmapped address.  *)
(***************************************************************************)
Request(cmd, part, val, fit) == [cmd |-> cmd, part |-> part, val |-> val, fit |-> fit]

Getters ==
    {<<"GETREGS", "regs">>, <<"GETFPREGS", "extra">>, <<"GETREGSET", "regs">>,
     <<"GETREGSET", "extra">>, <<"PEEKDATA", "word">>, <<"PEEKUSER", "regs">>,
     <<"PEEKUSER", "debug">>, <<"GET_THREAD_AREA", "area">>, <<"ARCH_GET", "fs_base">>}
Setters ==
    {<<"SETREGS", "regs">>, <<"SETFPREGS", "extra">>, <<"SETREGSET", "regs">>,
     <<"SETREGSET", "extra">>, <<"POKEDATA", "word">>, <<"POKEUSER", "regs">>,
     <<"POKEUSER", "debug">>, <<"SET_THREAD_AREA", "area">>, <<"ARCH_SET", "fs_base">>}
Resumers == {"CONT", "SYSCALL", "DETACH"}
MayBeUnfit == {"SETREGSET", "PEEKDATA", "POKEDATA", "PEEKUSER", "POKEUSER"}

Requests ==
    {Request(g[1], g[2], Zero, TRUE) : g \in Getters}
    \cup {Request(s[1], s[2], v, fit) : s \in Setters, v \in Values, fit \in BOOLEAN}
    \cup {Request(c, "word", Zero, TRUE) : c \in Resumers}

IsTarget == stopped
ArchAllows(part) == (part = "area" => arch = "x86") /\ (part = "fs_base" => arch = "x64")
Granted(q) == IsTarget /\ q.fit /\ ArchAllows(q.part)

IsGet(q) == \E g \in Getters : g[1] = q.cmd
IsSet(q) == \E s \in Setters : s[1] = q.cmd

(***************************************************************************)
(* Recording.  At the entry: a getter fills the tracer's buffer, POKEDATA  *)
(* writes the tracee's memory, SET_THREAD_AREA its descriptor, and a       *)
(* resume sets the syscall-buffer lock.                                    *)
(***************************************************************************)
SetLocked(s, cmd) == [s EXCEPT !.locked = cmd \notin {"CONT", "DETACH"}]
SetPart(s, part, val) == [s EXCEPT !.tracee[part] = val]

prepare_ptrace(s, q) ==
    IF ~Granted(q) THEN s
    ELSE IF IsGet(q) THEN [s EXCEPT !.buffer = s.tracee[q.part]]
    ELSE IF q.cmd \in {"POKEDATA", "SET_THREAD_AREA"} THEN SetPart(s, q.part, q.val)
    ELSE IF q.cmd \in Resumers THEN SetLocked(s, q.cmd)
    ELSE s

(***************************************************************************)
(* At the exit of a call that succeeded, in recording and in replay.       *)
(* SETFPREGS changes the task that made the call, not the tracee.          *)
(***************************************************************************)
process_ptrace(s, q) ==
    CASE q.cmd \in {"SETREGS", "SETREGSET", "POKEUSER", "ARCH_SET"} -> SetPart(s, q.part, q.val)
      [] q.cmd = "SETFPREGS" -> [s EXCEPT !.tracer_extra = q.val]
      [] OTHER -> s

on_syscall_exit(s, q, ok) == IF ok THEN process_ptrace(s, q) ELSE s

\* The frame: the request, its result, what the tracer's memory received and
\* the record made for the tracee's memory.
Frame(q, s) ==
    [q |-> q, ok |-> Granted(q), buffer |-> s.buffer,
     poke |-> q.cmd = "POKEDATA" /\ Granted(q)]

Ptrace(q) ==
    /\ Len(frames) < MaxRequests
    /\ q.fit \/ q.cmd \in MayBeUnfit
    /\ Refused \/ IsTarget
    /\ Refused \/ ArchAllows(q.part)
    /\ live' = on_syscall_exit(prepare_ptrace(live, q), q, Granted(q))
    /\ frames' = Append(frames, Frame(q, prepare_ptrace(live, q)))
    /\ snaps' = Append(snaps, live')
    /\ wanted' = IF IsSet(q) /\ Granted(q) THEN [wanted EXCEPT ![q.part] = q.val] ELSE wanted
    /\ stopped' = (stopped /\ ~(q.cmd \in Resumers /\ Granted(q)))
    /\ UNCHANGED <<arch, rep, pos>>

\* The resumed tracee stops again, its registers as they were.
TraceeStops ==
    ~stopped /\ stopped' = TRUE /\ UNCHANGED <<arch, live, frames, snaps, wanted, rep, pos>>

(***************************************************************************)
(* Replay.  The entry repeats what the records do not hold; the result and *)
(* the tracer's memory come from the frame.                                *)
(***************************************************************************)
\* Mutant: the syscall-buffer lock is not replayed.
rep_after_enter_no_lock(s, f) ==
    CASE f.q.cmd = "POKEDATA" -> IF f.poke THEN SetPart(s, "word", f.q.val) ELSE s
      [] f.q.cmd = "SET_THREAD_AREA" -> SetPart(s, "area", f.q.val)
      [] OTHER -> s

rep_after_enter_syscall(s, f) ==
    CASE f.q.cmd = "POKEDATA" -> IF f.poke THEN SetPart(s, "word", f.q.val) ELSE s
      [] f.q.cmd \in Resumers -> SetLocked(s, f.q.cmd)
      [] f.q.cmd = "SET_THREAD_AREA" -> SetPart(s, "area", f.q.val)
      [] OTHER -> s

apply_all_data_records_from_trace(s, f) == [s EXCEPT !.buffer = f.buffer]

ReplayPtrace ==
    /\ pos < Len(frames)
    /\ rep' = on_syscall_exit(
                 apply_all_data_records_from_trace(
                    rep_after_enter_syscall(rep, frames[pos + 1]), frames[pos + 1]),
                 frames[pos + 1].q, frames[pos + 1].ok)
    /\ pos' = pos + 1
    /\ UNCHANGED <<arch, stopped, live, frames, snaps, wanted>>

DataNext == arch # "none" /\ ((\E q \in Requests : Ptrace(q)) \/ TraceeStops \/ ReplayPtrace)

DataSpec == DataInit /\ [][DataNext]_data_vars

-----------------------------------------------------------------------------
\* After every replayed frame the two tasks are what they were in the recording.
ReplayFollows == pos > 0 => rep = snaps[pos]

\* What the tracer sets is what the tracee has, floating-point state excepted.
SetTakesEffect ==
    \A p \in Parts \ {"extra"} : wanted[p] # NoValue => live.tracee[p] = wanted[p]
=============================================================================
