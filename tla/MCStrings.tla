------------------------------ MODULE MCStrings ------------------------------
(* The string instructions that FastForward is asked about: element sizes  *)
(* 1 and 2; both directions; a comparison that ends the loop at any        *)
(* element or never; no watchpoint or one near either pointer; no register *)
(* state to notice or one inside or behind the instruction, of this loop   *)
(* or of another one at the same address.                                  *)
EXTENDS Integers

MaxCX == 4

States == {{}} \cup
          {{[ip |-> p, cx |-> c, n |-> k, zf |-> FALSE]} :
               p \in {"insn", "next"}, c \in 0 .. MaxCX - 1, k \in 1 .. MaxCX}

Watches == {{}} \cup {{[addr |-> a, num_bytes |-> b]} : a \in 1 .. 7, b \in 0 .. 2}

Inp(ops, sizes, founds, ws, sts) ==
    [op : ops, cx : 0 .. MaxCX, size : sizes, df : BOOLEAN, si : {12}, di : {4},
     found : founds, watch : ws, states : sts]

StringInputs ==
    Inp({"movs", "stos", "lods"}, {1, 2}, {0}, Watches, {{}})
      \cup Inp({"stos"}, {2}, {0}, {{}}, States)
      \cup Inp({"cmps", "scas"}, {1}, 0 .. MaxCX, Watches, {{}})
      \cup Inp({"scas"}, {1}, 0 .. MaxCX, {{}}, States)
==============================================================================
