----------------------------- MODULE FastForward -----------------------------
(***************************************************************************)
(* fast_forward.rs: several single-steps of a REP-prefixed x86 string      *)
(* instruction in one go.  The replayer asks for one singlestep;           *)
(* fast_forward_through_instruction performs one and then, while the       *)
(* instruction pointer has not moved, lets the tracee run a computed       *)
(* number of iterations at full speed by giving it a smaller CX and a      *)
(* breakpoint behind the instruction, and finally repairs CX and IP.       *)
(*                                                                         *)
(* A register file is [ip, cx, n, zf]: ip is "insn" or "next", n is the    *)
(* number of elements processed since the instruction was first entered    *)
(* (it stands for SI and DI, see SI and DI below), zf says that the last   *)
(* comparison ended the loop.  An input is the instruction with its        *)
(* operands, the registers to stop at and the watched bytes.               *)
(***************************************************************************)
EXTENDS Integers, FiniteSets, FiniteSetsExt

CONSTANT Inputs

VARIABLES in, out

vars == <<in, out>>

NoResult == [ip |-> "none", cx |-> 0, n |-> 0, zf |-> FALSE]

(* The processor: external.                                                *)
ComparesElements(i) == i.op \in {"cmps", "scas"}

ReadsSI(i) == i.op \in {"movs", "cmps", "lods"}

TouchesDI(i) == i.op \in {"movs", "cmps", "stos", "scas"}

Ahead(i, base, n) == IF i.df THEN base - n * i.size ELSE base + n * i.size

SI(i, r) == IF ReadsSI(i) THEN Ahead(i, i.si, r.n) ELSE i.si

DI(i, r) == IF TouchesDI(i) THEN Ahead(i, i.di, r.n) ELSE i.di

Singlestep(i, r) ==
    IF r.cx = 0
    THEN [r EXCEPT !.ip = "next"]
    ELSE LET found == ComparesElements(i) /\ r.n + 1 = i.found IN
         [ip |-> IF r.cx = 1 \/ found THEN "next" ELSE "insn",
          cx |-> r.cx - 1, n |-> r.n + 1, zf |-> found]

(* PTRACE_CONT to a breakpoint behind the instruction.                     *)
RunToEnd(i, r) ==
    LET early == ComparesElements(i) /\ i.found > r.n /\ i.found - r.n <= r.cx
        done  == IF early THEN i.found - r.n ELSE r.cx
    IN [ip |-> "next", cx |-> r.cx - done, n |-> r.n + done, zf |-> early]

(* The bytes one iteration from r reads or writes.                         *)
Accessed(i, r) ==
    (IF ReadsSI(i) THEN SI(i, r) .. (SI(i, r) + i.size - 1) ELSE {})
      \cup (IF TouchesDI(i) THEN DI(i, r) .. (DI(i, r) + i.size - 1) ELSE {})

WatchHit(i, r) ==
    r.cx > 0 /\ \E w \in i.watch : w.addr .. (w.addr + w.num_bytes - 1) \cap Accessed(i, r) # {}

(* decode_x86_string_instruction: what rd believes of the instruction.     *)
decode_x86_string_instruction(i) ==
    [modifies_flags |-> i.op \in {"cmps", "scas"},
     uses_si        |-> i.op \in {"movs", "cmps"},
     operand_size   |-> i.size]

mem_intersect(a1, s1, a2, s2) == Max({a1, a2}) < Min({a1 + s1, a2 + s2})

bound_iterations_for_watchpoint_Truncates(i, reg, d, w, limit) ==
    LET size == d.operand_size IN
    IF w.num_bytes = 0 THEN limit
    ELSE IF mem_intersect(reg, size, w.addr, w.num_bytes) THEN 0
    ELSE IF ~i.df
         THEN IF w.addr < reg THEN limit ELSE Min({limit, (w.addr - reg) \div size + 1})
         ELSE IF w.addr > reg THEN limit
              ELSE Min({limit, (reg - (w.addr + w.num_bytes)) \div size + 1})

(* How many iterations leave the watched bytes alone when `reg' walks      *)
(* towards them; limit when they are never reached.                        *)
bound_iterations_for_watchpoint(i, reg, d, w, limit) ==
    LET size == d.operand_size IN
    IF w.num_bytes = 0 THEN limit
    ELSE IF mem_intersect(reg, size, w.addr, w.num_bytes) THEN 0
    ELSE IF ~i.df
         THEN IF w.addr < reg THEN limit ELSE Min({limit, (w.addr - reg) \div size})
         ELSE IF w.addr > reg THEN limit
              ELSE Min({limit, (reg - (w.addr + w.num_bytes)) \div size + 1})

(* Iterations that stop short of a register state to be noticed.           *)
bound_iterations_for_state(r, s) ==
    IF \/ s.ip = "insn" /\ s.cx # 0 /\ s.cx < r.cx
       \/ s.ip = "next" /\ s.cx < r.cx
    THEN r.cx - s.cx - 1
    ELSE r.cx - 1

iterations(i, r, avoid) ==
    LET d      == decode_x86_string_instruction(i)
        states == {r.cx - 1} \cup {bound_iterations_for_state(r, s) : s \in i.states \cup avoid}
        limit  == Min(states)
        bySI   == {bound_iterations_for_watchpoint(i, SI(i, r), d, w, limit) : w \in i.watch}
        byDI   == {bound_iterations_for_watchpoint(i, DI(i, r), d, w, limit) : w \in i.watch}
    IN Min({limit} \cup byDI \cup (IF d.uses_si THEN bySI ELSE {}))

(* One turn of the loop: the tracee runs with CX cut down to the bound.    *)
RunBounded(i, r, bound) == RunToEnd(i, [r EXCEPT !.cx = bound])

Repaired(i, r, bound, ran) == [ran EXCEPT !.cx = r.cx - (bound - ran.cx)]

(* The loop is run again with the state it left in added to the states to  *)
(* avoid when a comparison ended it early; the code asserts that this      *)
(* happens at most once.                                                   *)
FastForwardLoop(i, r) ==
    LET first == iterations(i, r, {})
        ran1  == RunBounded(i, r, first)
        exit  == Repaired(i, r, first, ran1)
        again == decode_x86_string_instruction(i).modifies_flags /\ ran1.cx > 0
        bound == IF again THEN iterations(i, r, {exit}) ELSE first
        ran   == RunBounded(i, r, bound)
    IN IF r.cx = 0 \/ first = 0 \/ bound = 0
       THEN r
       ELSE [Repaired(i, r, bound, ran) EXCEPT !.ip = "insn"]

Entered(i) == [ip |-> "insn", cx |-> i.cx, n |-> 0, zf |-> FALSE]

(* The singlestep that is always made, and the early returns after it.     *)
fast_forward_through_instruction ==
    LET r0 == Entered(in)
        r1 == Singlestep(in, r0)
    IN /\ out = NoResult
       /\ out' = IF r1.ip # "insn" \/ WatchHit(in, r0) \/ r1 \in in.states
                 THEN r1
                 ELSE FastForwardLoop(in, r1)
       /\ UNCHANGED in

Init == in \in Inputs /\ out = NoResult

Next == fast_forward_through_instruction

Spec == Init /\ [][Next]_vars

------------------------------------------------------------------------------
(* The path real single-steps take: k steps without leaving the            *)
(* instruction, then out of it.                                            *)
Path(i) ==
    LET inside == IF ComparesElements(i) /\ i.found > 0 /\ i.found < i.cx
                  THEN i.found ELSE i.cx
        steps  == IF i.cx = 0 THEN 1 ELSE inside
    IN [k \in 0 .. steps |->
          [ip |-> IF k = steps THEN "next" ELSE "insn",
           cx |-> IF i.cx = 0 THEN 0 ELSE i.cx - k,
           n  |-> IF i.cx = 0 THEN 0 ELSE k,
           zf |-> ComparesElements(i) /\ i.cx > 0 /\ k > 0 /\ k = i.found]]

(* fast_forward_through_instruction leaves the tracee in a state that      *)
(* single-stepping the instruction one iteration at a time also reaches:   *)
(* the registers it repaired are the ones the real run has.  One case is   *)
(* left out, a comparison that ends the loop at the very element the       *)
(* bounded run ends at: there CX is 0, the test for modified flags is      *)
(* skipped, and ip is put back on an instruction the program has left.     *)
StringRunOnPath ==
    (out # NoResult /\ (out.ip = "insn" => out.n # in.found)) =>
        \E k \in DOMAIN Path(in) : k > 0 /\ Path(in)[k] = out

(* "We stop after a singlestep if one of the following is true, or will be *)
(* true after one more singlestep" (fast_forward.rs): no register state of *)
(* `states' lies strictly inside the part that was skipped, and no watched *)
(* access in the part that ran with the watchpoints removed.  LODS is left *)
(* out: it reads through SI, which the decoder says it does not use.       *)
NothingSkipped ==
    (out # NoResult /\ in.op # "lods") =>
        \A k \in 1 .. out.n :
            /\ k < out.n => Path(in)[k] \notin in.states
            /\ k > 1 => ~WatchHit(in, Path(in)[k - 1])

==============================================================================
