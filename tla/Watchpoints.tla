---------------------------- MODULE Watchpoints ----------------------------
(***************************************************************************)
(* Breakpoints and watchpoints of one replayed address space: the int3     *)
(* bytes AddressSpace keeps in tracee memory, the watched ranges, their     *)
(* last seen contents, and the four debug registers of every task.          *)
(*                                                                         *)
(* Memory is a small row of bytes in two pages; the second page comes and   *)
(* goes.  truth is a ghost: the memory the program would have if nobody     *)
(* debugged it.  due, allowed and quiet are ghosts too: the watched ranges  *)
(* that must be reported, that may be, and that changed with nobody         *)
(* looking, since the last report.                                          *)
(***************************************************************************)
EXTENDS Integers, Sequences, FiniteSets, TLC
LOCAL INSTANCE Functions
LOCAL INSTANCE FiniteSetsExt
LOCAL INSTANCE SequencesExt

CONSTANTS Tasks,        \* the tasks that may share the address space
          BpAddrs,      \* addresses breakpoints are asked for, in the page that stays
          Watches,      \* watchpoints the debugger may ask for: [start, size, type]
          Records,      \* data records of the trace: [addr, data]
          StoreAddrs,   \* addresses the program stores to, reads or executes
          MaxRefs,      \* bound on the references to one breakpoint
          MaxSteps      \* bound on the length of a behaviour

PageBytes == 8
Addrs == 0 .. 2 * PageBytes - 1
SecondPage == PageBytes .. 2 * PageBytes - 1
INT3 == 204
Unmapped == -1
NUM_X86_WATCHPOINTS == 4

VARIABLES mem, truth, bps, wps, dr, asked, refused,
          due, allowed, quiet, steps

vars == <<mem, truth, bps, wps, dr, asked, refused, due, allowed, quiet, steps>>

RangeOf(w) == [start |-> w.start, size |-> w.size]
Bytes(r) == r.start .. (r.start + r.size - 1)
Overlap(r, s) == Bytes(r) \cap Bytes(s) # {}

\* A zero-length range intersects nothing.
Intersects(r, lo, len) == r.start < lo + len /\ lo < r.start + r.size

(***************************************************************************)
(* Watchpoint: reference counts for each access, and the last contents.    *)
(***************************************************************************)
access_bits_of(type) ==
    CASE type = "exec" -> {"exec"} [] type = "write" -> {"write"} [] type = "readwrite" -> {"read", "write"}

NewWatchpoint(n) ==
    [exec |-> 0, read |-> 0, write |-> 0, regs |-> {}, value |-> [i \in 0 .. n - 1 |-> 0],
     valid |-> FALSE, changed |-> FALSE]

watch(wp, bits) ==
    [wp EXCEPT !.exec = @ + (IF "exec" \in bits THEN 1 ELSE 0),
               !.read = @ + (IF "read" \in bits THEN 1 ELSE 0),
               !.write = @ + (IF "write" \in bits THEN 1 ELSE 0)]

unwatch(wp, bits) ==
    [wp EXCEPT !.exec = @ - (IF "exec" \in bits THEN 1 ELSE 0),
               !.read = @ - (IF "read" \in bits THEN 1 ELSE 0),
               !.write = @ - (IF "write" \in bits THEN 1 ELSE 0)]

watched_bits(wp) == {b \in {"exec", "read", "write"} : wp[b] > 0}

\* An unreadable byte is taken as 0xFF and makes the value invalid.
ReadValue(m, r) == [i \in 0 .. r.size - 1 |-> IF m[r.start + i] = Unmapped THEN 255 ELSE m[r.start + i]]
ReadValid(m, r) == \A a \in Bytes(r) : m[a] # Unmapped

ValueChanged(wp, m, r) == ReadValid(m, r) # wp.valid \/ ReadValue(m, r) # wp.value

update_watchpoint_value(wp, m, r, mark) ==
    [wp EXCEPT !.valid = ReadValid(m, r), !.value = ReadValue(m, r),
               !.changed = @ \/ (mark /\ ValueChanged(wp, m, r))]

\* Of the watchpoints ws, those that intersect the bytes written.
update_watchpoint_values(ws, m, lo, len) ==
    [r \in DOMAIN ws |-> IF Intersects(r, lo, len) THEN update_watchpoint_value(ws[r], m, r, TRUE)
                         ELSE ws[r]]

(***************************************************************************)
(* Debug registers.                                                        *)
(***************************************************************************)
Fits(lo, n, bytes) == lo % bytes = 0 /\ n >= bytes

PieceSize(lo, n) ==
    IF Fits(lo, n, 8) THEN 8 ELSE IF Fits(lo, n, 4) THEN 4 ELSE IF Fits(lo, n, 2) THEN 2 ELSE 1

RECURSIVE split_range(_, _)
split_range(lo, n) ==
    IF n <= 0 THEN <<>>
    ELSE <<[start |-> lo, size |-> PieceSize(lo, n)]>>
             \o split_range(lo + PieceSize(lo, n), n - PieceSize(lo, n))

Align(n) == IF n <= 2 THEN 2 ELSE IF n <= 4 THEN 4 ELSE 8
FloorTo(a, n) == (a \div n) * n
CeilTo(a, n) == FloorTo(a + n - 1, n)

AlignedSplit(r) ==
    split_range(FloorTo(r.start, Align(r.size)),
                CeilTo(r.start + r.size, Align(r.size)) - FloorTo(r.start, Align(r.size)))

\* The pieces of a range: a write watchpoint may watch more than was asked
\* for when that saves registers.
Pieces(r, type) ==
    IF type = "write" /\ r.size > 1 /\ Len(AlignedSplit(r)) < Len(split_range(r.start, r.size))
    THEN AlignedSplit(r) ELSE split_range(r.start, r.size)

Typed(pieces, type) == [i \in DOMAIN pieces |-> [start |-> pieces[i].start, size |-> pieces[i].size, type |-> type]]

\* configure_watch_registers, on the registers regs and those assigned to wp.
configure_watch_registers(st, r, type, pieces) ==
    [regs |-> st.regs \o Typed(pieces, type),
     ws |-> IF type = "write" THEN st.ws
            ELSE [st.ws EXCEPT ![r].regs = @ \cup (Len(st.regs) + 1 .. Len(st.regs) + Len(pieces))]]

ConfigureExec(st, r) ==
    IF st.ws[r].exec > 0 THEN configure_watch_registers(st, r, "exec", Pieces(r, "exec")) ELSE st

ConfigureData(st, r) ==
    IF st.ws[r].read > 0 THEN configure_watch_registers(st, r, "readwrite", Pieces(r, "readwrite"))
    ELSE IF st.ws[r].write > 0 THEN configure_watch_registers(st, r, "write", Pieces(r, "write"))
    ELSE st

ClearRegs(ws) == [r \in DOMAIN ws |-> [ws[r] EXCEPT !.regs = {}]]

\* The watchpoints are visited in an order of the hash table's choosing.
get_watch_configs(ws, order) ==
    FoldLeft(LAMBDA st, r : ConfigureData(ConfigureExec(st, r), r), [regs |-> <<>>, ws |-> ClearRegs(ws)], order)

\* Program a task's registers: all of regs, or none.
set_debug_regs(regs) ==
    IF Len(regs) > NUM_X86_WATCHPOINTS THEN [ok |-> FALSE, dr |-> <<>>] ELSE [ok |-> TRUE, dr |-> regs]

Programmed(c) ==
    IF set_debug_regs(c.regs).ok
    THEN [ws |-> c.ws, dr |-> set_debug_regs(c.regs).dr, ok |-> TRUE]
    ELSE [ws |-> ClearRegs(c.ws), dr |-> set_debug_regs(<<>>).dr, ok |-> FALSE]

Orders(ws) == {s \in [1 .. Cardinality(DOMAIN ws) -> DOMAIN ws] : IsInjective(s)}

\* The outcomes of programming every task for the watchpoints ws.
allocate_watchpoints(ws) == {Programmed(get_watch_configs(ws, o)) : o \in Orders(ws)}

(***************************************************************************)
(* Breakpoints.                                                            *)
(***************************************************************************)
NewBreakpoint(b) == [internal |-> 0, user |-> 0, data |-> b]
do_ref(bp, which) == [bp EXCEPT ![which] = @ + 1]
do_unref(bp, which) == [bp EXCEPT ![which] = @ - 1]

\* The memory of a task with some bytes replaced.
Patched(m, lo, data) == [a \in Addrs |-> IF a \in lo .. lo + Len(data) - 1 THEN data[a - lo + 1] ELSE m[a]]

\* write_bytes_helper without IS_BREAKPOINT_RELATED, on memory and watchpoints.
write_bytes(st, lo, data) ==
    [st EXCEPT !.mem = Patched(@, lo, data),
               !.wps = update_watchpoint_values(@, Patched(st.mem, lo, data), lo, Len(data))]

\* Mutant: the breakpoint is put back with the byte it first replaced.
ResetKeepsData(st, a) == write_bytes(st, a, <<INT3>>)

\* A breakpoint the record overwrote: note the new byte, set it again.
ResetBreakpoint(st, a) == write_bytes([st EXCEPT !.bps[a].data = st.mem[a]], a, <<INT3>>)

maybe_update_breakpoints(st, lo, len) ==
    FoldSet(LAMBDA a, s : ResetBreakpoint(s, a), st, {a \in DOMAIN st.bps : a \in lo .. lo + len - 1})

\* The program's memory with the breakpoints' bytes put back.
replace_breakpoints_with_original_values(m, bs) ==
    [a \in Addrs |-> IF a \in DOMAIN bs THEN bs[a].data ELSE m[a]]

State == [mem |-> mem, bps |-> bps, wps |-> wps]

\* The next length of the behaviour, within its bound.
Step == steps < MaxSteps /\ steps' = steps + 1

add_breakpoint(a, which) ==
    /\ Step
    /\ IF a \in DOMAIN bps
       THEN /\ bps[a][which] < MaxRefs
            /\ bps' = [bps EXCEPT ![a] = do_ref(@, which)]
            /\ mem' = mem
       ELSE /\ mem[a] # Unmapped
            /\ bps' = (a :> do_ref(NewBreakpoint(mem[a]), which)) @@ bps
            /\ mem' = [mem EXCEPT ![a] = INT3]
    /\ UNCHANGED <<truth, wps, dr, asked, refused, due, allowed, quiet>>

\* The byte is written back; the page is still mapped (see BpAddrs).
destroy_breakpoint_at(a) ==
    /\ mem' = [mem EXCEPT ![a] = bps[a].data]
    /\ bps' = Restrict(bps, DOMAIN bps \ {a})

\* Callers hold the reference they give back.
remove_breakpoint(a, which) ==
    /\ Step
    /\ a \in DOMAIN bps /\ bps[a][which] > 0
    /\ IF do_unref(bps[a], which).internal + do_unref(bps[a], which).user = 0
       THEN destroy_breakpoint_at(a)
       ELSE /\ bps' = [bps EXCEPT ![a] = do_unref(@, which)]
            /\ UNCHANGED mem
    /\ UNCHANGED <<truth, wps, dr, asked, refused, due, allowed, quiet>>

remove_all_breakpoints ==
    /\ Step
    /\ bps # <<>>
    /\ mem' = [a \in Addrs |-> IF a \in DOMAIN bps THEN bps[a].data ELSE mem[a]]
    /\ bps' = <<>>
    /\ UNCHANGED <<truth, wps, dr, asked, refused, due, allowed, quiet>>

(***************************************************************************)
(* Watchpoints.                                                            *)
(***************************************************************************)
\* Every task gets the registers of the outcome.
Arm(o) == wps' = o.ws /\ dr' = [t \in DOMAIN dr |-> o.dr]

WithWatch(ws, w) ==
    IF RangeOf(w) \in DOMAIN ws THEN [ws EXCEPT ![RangeOf(w)] = watch(@, access_bits_of(w.type))]
    ELSE (RangeOf(w) :> watch(update_watchpoint_value(NewWatchpoint(w.size), mem, RangeOf(w), FALSE),
                              access_bits_of(w.type))) @@ ws

\* The timeline asks for a watchpoint it does not have, and notes the answer.
add_watchpoint(w) ==
    /\ Step
    /\ w \notin asked
    /\ \E o \in allocate_watchpoints(WithWatch(wps, w)) :
          /\ Arm(o)
          /\ asked' = IF o.ok THEN asked \cup {w} ELSE asked
          /\ refused' = (refused \/ ~o.ok)
    /\ UNCHANGED <<mem, truth, bps, due, allowed, quiet>>

\* Mutant: the first reference given back removes the watchpoint.
WithoutAny(ws, r, bits) == Restrict(ws, DOMAIN ws \ {r})

WithoutWatch(ws, r, bits) ==
    IF watched_bits(unwatch(ws[r], bits)) = {} THEN Restrict(ws, DOMAIN ws \ {r})
    ELSE [ws EXCEPT ![r] = unwatch(@, bits)]

remove_watchpoint(w) ==
    /\ Step
    /\ w \in asked
    /\ \E o \in allocate_watchpoints(WithoutWatch(wps, RangeOf(w), access_bits_of(w.type))) : Arm(o)
    /\ asked' = asked \ {w}
    /\ due' = due \cap DOMAIN wps' /\ allowed' = allowed \cap DOMAIN wps' /\ quiet' = quiet \cap DOMAIN wps'
    /\ UNCHANGED <<mem, truth, bps, refused>>

\* Did the access of n bytes at lo hit register i of task t?
DebugStatus(t, lo, n, kinds) ==
    {i \in DOMAIN dr[t] : dr[t][i].type \in kinds /\ Intersects(dr[t][i], lo, n)}

watchpoint_triggered(wp, status) == wp.regs \cap status # {}

\* from is the address of the instruction stepped over, -1 when running on.
Fired(wp, r, status, from) ==
    \/ wp.read > 0 /\ watchpoint_triggered(wp, status)
    \/ wp.exec > 0 /\ from \in {-1, r.start} /\ watchpoint_triggered(wp, status)

MarkFired(ws, status, from) ==
    [r \in DOMAIN ws |-> [ws[r] EXCEPT !.changed = @ \/ Fired(ws[r], r, status, from)]]

notify_watchpoint_fired(ws, m, status, from) ==
    LET marked == MarkFired(ws, status, from)
    IN  [r \in DOMAIN ws |-> IF ws[r].write > 0 THEN update_watchpoint_value(marked[r], m, r, TRUE)
                             ELSE marked[r]]

\* The watched ranges whose contents differ between two memories.
Differ(m, n) == {r \in DOMAIN wps : \E a \in Bytes(r) : m[a] # n[a]}
WriteWatched(rs) == {r \in rs : wps[r].write > 0}
AccessedAt(lo, kind) == {r \in DOMAIN wps : kind \in watched_bits(wps[r]) /\ lo \in Bytes(r)}

\* The trap, if there was one: compute_trap_reasons checks the watchpoints.
compute_trap_reasons(m, status, stepped, from) ==
    wps' = IF status # {} \/ stepped THEN notify_watchpoint_fired(wps, m, status, from) ELSE wps

\* The ghosts: changes and accesses seen or not by a trap, with the reports due.
Observe(changes, accesses, trapped) ==
    /\ due' = due \cup (WriteWatched(changes) \ quiet) \cup accesses
    /\ allowed' = allowed \cup WriteWatched(changes) \cup accesses
                    \cup (IF trapped THEN WriteWatched(quiet) ELSE {})
    /\ quiet' = (IF trapped THEN quiet \ WriteWatched(quiet) ELSE quiet) \cup (changes \ WriteWatched(changes))

\* The program stores a byte of its data, single-stepped or not.
store(t, a, v, stepped) ==
    /\ Step
    /\ a \notin DOMAIN bps /\ mem[a] \notin {Unmapped, v}
    /\ mem' = [mem EXCEPT ![a] = v] /\ truth' = [truth EXCEPT ![a] = v]
    /\ compute_trap_reasons(mem', DebugStatus(t, a, 1, {"write", "readwrite"}), stepped, -1)
    /\ Observe(Differ(truth, truth'), AccessedAt(a, "read"),
               stepped \/ DebugStatus(t, a, 1, {"write", "readwrite"}) # {})
    /\ UNCHANGED <<bps, dr, asked, refused>>

load(t, a, stepped) ==
    /\ Step
    /\ mem[a] # Unmapped
    /\ stepped \/ AccessedAt(a, "read") # {} \/ DebugStatus(t, a, 1, {"readwrite"}) # {}
    /\ compute_trap_reasons(mem, DebugStatus(t, a, 1, {"readwrite"}), stepped, -1)
    /\ Observe({}, AccessedAt(a, "read"), stepped \/ DebugStatus(t, a, 1, {"readwrite"}) # {})
    /\ UNCHANGED <<mem, truth, bps, dr, asked, refused>>

\* The instruction at a is executed; when it is single-stepped the processor
\* may report the watchpoint of the next one, b, as well.
execute(t, a, b, stepped) ==
    /\ Step
    /\ a \notin DOMAIN bps /\ mem[a] # Unmapped /\ b # a
    /\ stepped \/ AccessedAt(a, "exec") # {} \/ DebugStatus(t, a, 1, {"exec"}) # {}
    /\ \E also \in IF stepped THEN {{}, DebugStatus(t, b, 1, {"exec"})} ELSE {{}} :
          compute_trap_reasons(mem, DebugStatus(t, a, 1, {"exec"}) \cup also, stepped,
                               IF stepped THEN a ELSE -1)
    /\ Observe({}, AccessedAt(a, "exec"), stepped \/ DebugStatus(t, a, 1, {"exec"}) # {})
    /\ UNCHANGED <<mem, truth, bps, dr, asked, refused>>

\* set_data_from_trace: a record is written to memory, breakpoints put back.
set_data_from_trace(rec) ==
    /\ Step
    /\ \A a \in rec.addr .. rec.addr + Len(rec.data) - 1 : mem[a] # Unmapped
    /\ \E st \in {maybe_update_breakpoints(write_bytes(State, rec.addr, rec.data), rec.addr, Len(rec.data))} :
          mem' = st.mem /\ bps' = st.bps /\ wps' = st.wps
    /\ truth' = Patched(truth, rec.addr, rec.data)
    /\ due' = due \cup (Differ(truth, truth') \ quiet)
    /\ allowed' = allowed \cup Differ(truth, truth') \cup {r \in quiet : Intersects(r, rec.addr, Len(rec.data))}
    /\ quiet' = {r \in quiet : ~Intersects(r, rec.addr, Len(rec.data))}
    /\ UNCHANGED <<dr, asked, refused>>

consume_watchpoint_changes ==
    /\ Step
    /\ \E r \in DOMAIN wps : wps[r].changed
    /\ wps' = [r \in DOMAIN wps |-> [wps[r] EXCEPT !.changed = FALSE]]
    /\ due' = {} /\ allowed' = {}
    /\ UNCHANGED <<mem, truth, bps, dr, asked, refused, quiet>>

\* String instructions fast-forwarded: with no watchpoint set, some bytes
\* are stored, then the watchpoints are back.
fast_forward(lo, data) ==
    /\ Step
    /\ wps # <<>>
    /\ \A a \in lo .. lo + Len(data) - 1 : a \notin DOMAIN bps /\ mem[a] # Unmapped
    /\ mem' = Patched(mem, lo, data) /\ truth' = Patched(truth, lo, data)
    /\ \E o \in allocate_watchpoints(wps) : Arm(o)
    /\ quiet' = quiet \cup Differ(truth, truth')
    /\ UNCHANGED <<bps, asked, refused, due, allowed>>

(***************************************************************************)
(* Clones and mappings.                                                    *)
(***************************************************************************)
\* A new thread: after_clone programs the registers of every task again.
clone_thread(t) ==
    /\ Step
    /\ t \notin DOMAIN dr
    /\ \E o \in allocate_watchpoints(wps) :
          /\ wps' = o.ws
          /\ dr' = [u \in DOMAIN dr \cup {t} |-> o.dr]
    /\ UNCHANGED <<mem, truth, bps, asked, refused, due, allowed, quiet>>

exit_task(t) ==
    /\ Step
    /\ t \in DOMAIN dr /\ Cardinality(DOMAIN dr) > 1
    /\ dr' = Restrict(dr, DOMAIN dr \ {t})
    /\ UNCHANGED <<mem, truth, bps, wps, asked, refused, due, allowed, quiet>>

Mapped(m, v) == [a \in Addrs |-> IF a \in SecondPage THEN v ELSE m[a]]

\* The program maps or unmaps the second page; nothing looks at watchpoints.
remap_page(v) ==
    /\ Step
    /\ truth' = Mapped(truth, v) /\ truth' # truth
    /\ mem' = Mapped(mem, v)
    /\ quiet' = quiet \cup Differ(truth, truth')
    /\ UNCHANGED <<bps, wps, dr, asked, refused, due, allowed>>

FirstTask == CHOOSE t \in Tasks : TRUE

Init ==
    /\ mem = [a \in Addrs |-> 0] /\ truth = mem
    /\ bps = <<>> /\ wps = <<>>
    /\ dr = (FirstTask :> <<>>)
    /\ asked = {} /\ refused = FALSE
    /\ due = {} /\ allowed = {} /\ quiet = {} /\ steps = 0

Next ==
    \/ \E a \in BpAddrs, which \in {"internal", "user"} : add_breakpoint(a, which) \/ remove_breakpoint(a, which)
    \/ remove_all_breakpoints
    \/ \E w \in Watches : add_watchpoint(w) \/ remove_watchpoint(w)
    \/ \E t \in DOMAIN dr, a \in StoreAddrs, v \in {0, 255}, s \in BOOLEAN : store(t, a, v, s)
    \/ \E t \in DOMAIN dr, a \in StoreAddrs, s \in BOOLEAN : load(t, a, s)
    \/ \E t \in DOMAIN dr, a \in StoreAddrs, b \in StoreAddrs, s \in BOOLEAN : execute(t, a, b, s)
    \/ \E rec \in Records : set_data_from_trace(rec)
    \/ consume_watchpoint_changes
    \/ \E rec \in Records : fast_forward(rec.addr, rec.data)
    \/ \E t \in Tasks : clone_thread(t)
    \/ \E t \in Tasks : exit_task(t)
    \/ \E v \in {Unmapped, 0} : remap_page(v)

Spec == Init /\ [][Next]_vars

(***************************************************************************)
(* Properties.                                                             *)
(***************************************************************************)
TypeOK ==
    /\ mem \in [Addrs -> {Unmapped, 0, 1, 255, INT3}]
    /\ DOMAIN bps \subseteq BpAddrs /\ \A a \in DOMAIN bps : bps[a].internal + bps[a].user > 0
    /\ \A t \in DOMAIN dr : Len(dr[t]) <= NUM_X86_WATCHPOINTS
    /\ asked \subseteq Watches /\ (due \cup allowed \cup quiet) \subseteq DOMAIN wps

\* Whatever is written over breakpoints, and however their references come
\* and go, memory holds int3 exactly where a breakpoint is set, and the view
\* with the original bytes put back (replace_breakpoints_with_original_values,
\* what gdb reads) is the memory of the undebugged program.
DebuggerSeesProgram ==
    /\ replace_breakpoints_with_original_values(mem, bps) = truth
    /\ \A a \in DOMAIN bps : mem[a] = INT3

\* Unless a request was refused, every task has the same registers; they
\* cover every watchpoint the debugger was granted, and a register that is
\* not for writes lies inside a range it was asked for.
EveryTaskArmed ==
    ~refused =>
        \A t \in DOMAIN dr :
            /\ \A w \in asked : \A a \in Bytes(w) :
                  \E i \in DOMAIN dr[t] : a \in Bytes(dr[t][i])
                      /\ (dr[t][i].type = w.type \/ (w.type = "write" /\ dr[t][i].type = "readwrite"))
            /\ \A i \in DOMAIN dr[t] : \E w \in asked :
                  IF dr[t][i].type = "write" THEN Overlap(RangeOf(w), dr[t][i])
                  ELSE w.type = dr[t][i].type /\ Bytes(dr[t][i]) \subseteq Bytes(w)

\* A watched change or access is on record until it is consumed, and the
\* contents kept for comparison are the current ones unless memory changed
\* with the watchpoints lifted.
NothingMissed ==
    ~refused =>
        /\ \A r \in due : wps[r].changed
        /\ \A r \in DOMAIN wps \ quiet : wps[r].value = ReadValue(mem, r) /\ wps[r].valid = ReadValid(mem, r)

\* Only watchpoints whose contents changed, or that were read or executed,
\* are reported: enlarged write ranges and the processor's early report of
\* the next instruction do not show.
NothingInvented == ~refused => \A r \in DOMAIN wps : wps[r].changed => r \in allowed
=============================================================================
