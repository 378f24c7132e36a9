-------------------------- MODULE FastForwardProofs --------------------------
(***************************************************************************)
(* Proofs about fast_forward.rs: for every string instruction, operand     *)
(* size, direction, count, set of register states to stop at and set of    *)
(* watched ranges, the state fast_forward_through_instruction leaves the   *)
(* tracee in is one that single-stepping reaches, and nothing the caller   *)
(* asked to be told of lies in the part that ran at full speed.            *)
(***************************************************************************)
EXTENDS FastForward, WellFoundedInduction, TLAPS

(* An x86 string instruction: an element is 1, 2, 4 or 8 bytes, CX is a    *)
(* number, `found' is the element that ends a comparison (0: none).  The   *)
(* register states and the watched ranges are arbitrary.                   *)
Registers == [ip : {"insn", "next"}, cx : Nat, n : Nat, zf : BOOLEAN]

Ranges == [addr : Int, num_bytes : Nat]

Instructions ==
    [op : {"movs", "cmps", "lods", "stos", "scas"}, size : {1, 2, 4, 8},
     df : BOOLEAN, si : Int, di : Int, cx : Nat, found : Nat,
     states : SUBSET Registers, watch : SUBSET Ranges]

------------------------------------------------------------------------------
(* Minima.                                                                 *)

(* Every nonempty set of natural numbers has a least element, and that is  *)
(* what Min gives.                                                         *)
LEMMA MinNat ==
    ASSUME NEW S, S \subseteq Nat, S # {}
    PROVE  Min(S) \in S /\ \A y \in S : Min(S) <= y
<1>1. IsWellFoundedOn(OpToRel(<, Nat), Nat)
  BY NatLessThanWellFounded, Zenon
<1>2. \E x \in S : \A y \in S : ~(<<y, x>> \in OpToRel(<, Nat))
  <2> DEFINE R == OpToRel(<, Nat)
  <2>1. IsWellFoundedOn(R, Nat)
    BY <1>1, Zenon
  <2> HIDE DEF R
  <2>2. \E x \in S : \A y \in S : ~(<<y, x>> \in R)
    BY <2>1, WFMin
  <2> QED BY <2>2, Zenon DEF R
<1>3. PICK x \in S : \A y \in S : ~(<<y, x>> \in OpToRel(<, Nat))
  BY <1>2, Zenon
<1>4. \A y \in S : x <= y
  <2> SUFFICES ASSUME NEW y \in S, y < x
               PROVE  FALSE
    OBVIOUS
  <2>1. <<y, x>> \in Nat \X Nat /\ <<y, x>>[1] < <<y, x>>[2]
    OBVIOUS
  <2>2. <<y, x>> \in OpToRel(<, Nat)
    BY <2>1, Zenon DEF OpToRel
  <2> QED BY <1>3, <2>2, Zenon
<1> QED BY <1>4 DEF Min

(* The smaller and the larger of two.                                      *)
LEMMA MinPair ==
    ASSUME NEW a \in Int, NEW b \in Int
    PROVE  /\ Min({a, b}) \in Int
           /\ Min({a, b}) = IF a < b THEN a ELSE b
           /\ Max({a, b}) \in Int
           /\ Max({a, b}) = IF a < b THEN b ELSE a
<1>1. (IF a < b THEN a ELSE b) \in {a, b} /\ \A y \in {a, b} : (IF a < b THEN a ELSE b) <= y
  OBVIOUS
<1>2. (IF a < b THEN b ELSE a) \in {a, b} /\ \A y \in {a, b} : (IF a < b THEN b ELSE a) >= y
  OBVIOUS
<1>3. Min({a, b}) \in {a, b} /\ \A y \in {a, b} : Min({a, b}) <= y
  BY <1>1 DEF Min
<1>4. Max({a, b}) \in {a, b} /\ \A y \in {a, b} : Max({a, b}) >= y
  BY <1>2 DEF Max
<1> QED BY <1>3, <1>4

------------------------------------------------------------------------------
(* The bounds.                                                             *)

(* The fields of an instruction.                                           *)
LEMMA Fields ==
    ASSUME NEW i \in Instructions
    PROVE  /\ i.op \in {"movs", "cmps", "lods", "stos", "scas"}
           /\ i.size \in {1, 2, 4, 8} /\ i.size \in Nat
           /\ i.df \in BOOLEAN /\ i.si \in Int /\ i.di \in Int
           /\ i.cx \in Nat /\ i.found \in Nat
           /\ i.states \subseteq Registers /\ i.watch \subseteq Ranges
BY DEF Instructions

(* The bound for a register state is a number below CX.                    *)
LEMMA StateBound ==
    ASSUME NEW r \in Registers, NEW s \in Registers, r.cx > 0
    PROVE  /\ bound_iterations_for_state(r, s) \in Nat
           /\ bound_iterations_for_state(r, s) <= r.cx - 1
BY DEF bound_iterations_for_state, Registers

(* Two ranges of bytes meet exactly when mem_intersect says so.            *)
LEMMA Intersect ==
    ASSUME NEW a \in Int, NEW m \in Nat, NEW b \in Int, NEW n \in Nat
    PROVE  mem_intersect(a, m, b, n)
             <=> /\ a < a + m /\ a < b + n
                 /\ b < a + m /\ b < b + n
<1>1. a + m \in Int /\ b + n \in Int
  OBVIOUS
<1>2. /\ Max({a, b}) = (IF a < b THEN b ELSE a)
      /\ Min({a + m, b + n}) = (IF a + m < b + n THEN a + m ELSE b + n)
  BY <1>1, MinPair
<1> QED BY <1>2 DEF mem_intersect

(* The iterations before a watched range is reached, direction up.         *)
UpBound(reg, size, w, limit) ==
    IF w.addr < reg THEN limit ELSE Min({limit, (w.addr - reg) \div size})

(* The same, direction down.                                               *)
DownBound(reg, size, w, limit) ==
    IF w.addr > reg THEN limit
    ELSE Min({limit, (reg - (w.addr + w.num_bytes)) \div size + 1})

(* A quotient of a number by an element size.                              *)
LEMMA Quotient ==
    ASSUME NEW d \in Nat, NEW size \in {1, 2, 4, 8}
    PROVE  d \div size \in Nat /\ (d \div size) * size <= d
<1>1. CASE size = 1  BY <1>1
<1>2. CASE size = 2  BY <1>2
<1>3. CASE size = 4  BY <1>3
<1>4. CASE size = 8  BY <1>4
<1> QED BY <1>1, <1>2, <1>3, <1>4

(* The bound for a watched range is a number.                              *)
LEMMA WatchBound ==
    ASSUME NEW i \in Instructions, NEW reg \in Int, NEW w \in Ranges, NEW limit \in Nat
    PROVE  bound_iterations_for_watchpoint(i, reg, decode_x86_string_instruction(i), w, limit)
             \in Nat
<1> DEFINE size == i.size
<1>1. size \in {1, 2, 4, 8} /\ w.addr \in Int /\ w.num_bytes \in Nat
  BY Fields DEF Ranges
<1>2. decode_x86_string_instruction(i).operand_size = size
  BY DEF decode_x86_string_instruction
<1> HIDE DEF size
<1>3. CASE w.num_bytes = 0
  BY <1>3 DEF bound_iterations_for_watchpoint
<1>4. CASE w.num_bytes # 0 /\ mem_intersect(reg, size, w.addr, w.num_bytes)
  BY <1>2, <1>4 DEF bound_iterations_for_watchpoint
<1>5. CASE w.num_bytes # 0 /\ ~mem_intersect(reg, size, w.addr, w.num_bytes)
  <2>1. ~(reg < w.addr + w.num_bytes /\ w.addr < reg + size)
    <3>1. size \in Nat /\ size > 0
      BY <1>1
    <3>2. mem_intersect(reg, size, w.addr, w.num_bytes)
            <=> /\ reg < reg + size /\ reg < w.addr + w.num_bytes
                /\ w.addr < reg + size /\ w.addr < w.addr + w.num_bytes
      BY <1>1, <3>1, Intersect
    <3> QED BY <1>1, <1>5, <3>1, <3>2
  <2>2. CASE ~i.df
    <3>1. bound_iterations_for_watchpoint(i, reg, decode_x86_string_instruction(i), w, limit)
            = UpBound(reg, size, w, limit)
      BY <1>2, <1>5, <2>2, Zenon DEF bound_iterations_for_watchpoint, UpBound
    <3>2. w.addr >= reg => (w.addr - reg) \div size \in Nat
      BY <1>1, Quotient
    <3> QED BY <1>1, <3>1, <3>2, MinPair DEF UpBound
  <2>3. CASE i.df
    <3>1. bound_iterations_for_watchpoint(i, reg, decode_x86_string_instruction(i), w, limit)
            = DownBound(reg, size, w, limit)
      BY <1>2, <1>5, <2>3, Zenon DEF bound_iterations_for_watchpoint, DownBound
    <3>2. ~(w.addr > reg) => reg - (w.addr + w.num_bytes) \in Nat
      BY <1>1, <2>1
    <3>3. ~(w.addr > reg) => (reg - (w.addr + w.num_bytes)) \div size \in Nat
      BY <1>1, <3>2, Quotient
    <3> QED BY <1>1, <3>1, <3>3, MinPair DEF DownBound
  <2> QED BY <2>2, <2>3, Fields
<1> QED BY <1>3, <1>4, <1>5


(* The bytes of the j-th element from reg.                                 *)
Bytes(i, reg, j) == Ahead(i, reg, j) .. (Ahead(i, reg, j) + i.size - 1)

Watched(w) == w.addr .. (w.addr + w.num_bytes - 1)

(* bound_iterations_for_watchpoint: none of the elements it lets through   *)
(* touches a watched byte.                                                 *)
LEMMA WatchBoundClear ==
    ASSUME NEW i \in Instructions, NEW reg \in Int, NEW w \in Ranges, NEW limit \in Nat,
           NEW j \in Nat,
           j < bound_iterations_for_watchpoint(i, reg, decode_x86_string_instruction(i), w, limit)
    PROVE  Watched(w) \cap Bytes(i, reg, j) = {}
<1> DEFINE size == i.size
           b == bound_iterations_for_watchpoint(i, reg, decode_x86_string_instruction(i), w, limit)
<1>1. size \in {1, 2, 4, 8} /\ w.addr \in Int /\ w.num_bytes \in Nat
  BY Fields DEF Ranges
<1>2. decode_x86_string_instruction(i).operand_size = size
  BY DEF decode_x86_string_instruction
<1>3. b \in Nat /\ j < b
  BY WatchBound
<1>a. Ahead(i, reg, j) = IF i.df THEN reg - j * size ELSE reg + j * size
  BY DEF Ahead
<1>b. j * size \in Nat
  BY <1>1
<1> HIDE DEF size
<1> DEFINE at == Ahead(i, reg, j)
<1>c. at \in Int
  BY <1>a, <1>b
<1>d. ASSUME at + size <= w.addr \/ w.addr + w.num_bytes <= at \/ w.num_bytes = 0
      PROVE  Watched(w) \cap Bytes(i, reg, j) = {}
  BY <1>d, <1>1, <1>c DEF Watched, Bytes, size
<1>4. CASE w.num_bytes = 0
  BY <1>4, <1>d
<1>5. CASE w.num_bytes # 0 /\ mem_intersect(reg, size, w.addr, w.num_bytes)
  <2>1. b = 0
    BY <1>2, <1>5, Zenon DEF bound_iterations_for_watchpoint
  <2> QED BY <2>1, <1>3
<1>6. CASE w.num_bytes # 0 /\ ~mem_intersect(reg, size, w.addr, w.num_bytes)
  <2>0. size \in Nat /\ size > 0
    BY <1>1
  <2>1. ~(reg < w.addr + w.num_bytes /\ w.addr < reg + size)
    <3>2. mem_intersect(reg, size, w.addr, w.num_bytes)
            <=> /\ reg < reg + size /\ reg < w.addr + w.num_bytes
                /\ w.addr < reg + size /\ w.addr < w.addr + w.num_bytes
      BY <1>1, <2>0, Intersect
    <3> QED BY <1>1, <1>6, <2>0, <3>2
  <2>2. CASE ~i.df
    <3>1. b = UpBound(reg, size, w, limit)
      BY <1>2, <1>6, <2>2, Zenon DEF bound_iterations_for_watchpoint, UpBound
    <3>2. at = reg + j * size
      BY <1>a, <2>2
    <3>3. CASE w.addr < reg
      BY <1>1, <1>b, <1>d, <2>0, <2>1, <3>2, <3>3
    <3>4. CASE ~(w.addr < reg)
      <4> DEFINE q == (w.addr - reg) \div size
      <4>1. w.addr - reg \in Nat
        BY <1>1, <3>4
      <4>2. q \in Nat /\ q * size <= w.addr - reg
        BY <1>1, <4>1, Quotient
      <4>3. b = Min({limit, q})
        BY <3>1, <3>4, Zenon DEF UpBound
      <4> HIDE DEF q, b
      <4>4. j < q
        BY <1>3, <4>2, <4>3, MinPair
      <4>5. j * size + size <= q * size
        <5>1. CASE size = 1  BY <5>1, <4>2, <4>4
        <5>2. CASE size = 2  BY <5>2, <4>2, <4>4
        <5>3. CASE size = 4  BY <5>3, <4>2, <4>4
        <5>4. CASE size = 8  BY <5>4, <4>2, <4>4
        <5> QED BY <1>1, <5>1, <5>2, <5>3, <5>4
      <4>6. q * size \in Int
        BY <4>2, <2>0
      <4>7. at + size <= w.addr
        BY <1>1, <1>b, <2>0, <3>2, <4>2, <4>5, <4>6
      <4> QED BY <4>7, <1>d
    <3> QED BY <3>3, <3>4
  <2>3. CASE i.df
    <3>1. b = DownBound(reg, size, w, limit)
      BY <1>2, <1>6, <2>3, Zenon DEF bound_iterations_for_watchpoint, DownBound
    <3>2. at = reg - j * size
      BY <1>a, <2>3
    <3>3. CASE w.addr > reg
      BY <1>1, <1>b, <1>d, <2>0, <2>1, <3>2, <3>3
    <3>4. CASE ~(w.addr > reg)
      <4> DEFINE q == (reg - (w.addr + w.num_bytes)) \div size
      <4>1. reg - (w.addr + w.num_bytes) \in Nat
        BY <1>1, <2>0, <2>1, <3>4
      <4>2. q \in Nat /\ q * size <= reg - (w.addr + w.num_bytes)
        BY <1>1, <4>1, Quotient
      <4>3. b = Min({limit, q + 1})
        BY <3>1, <3>4, Zenon DEF DownBound
      <4> HIDE DEF q, b
      <4>4. j <= q
        BY <1>3, <4>2, <4>3, MinPair
      <4>5. j * size <= q * size
        <5>1. CASE size = 1  BY <5>1, <4>2, <4>4
        <5>2. CASE size = 2  BY <5>2, <4>2, <4>4
        <5>3. CASE size = 4  BY <5>3, <4>2, <4>4
        <5>4. CASE size = 8  BY <5>4, <4>2, <4>4
        <5> QED BY <1>1, <5>1, <5>2, <5>3, <5>4
      <4>6. q * size \in Int
        BY <4>2, <2>0
      <4>7. w.addr + w.num_bytes <= at
        BY <1>1, <1>b, <2>0, <3>2, <4>2, <4>5, <4>6
      <4> QED BY <4>7, <1>d
    <3> QED BY <3>3, <3>4
  <2> QED BY <2>2, <2>3, Fields
<1> QED BY <1>4, <1>5, <1>6

------------------------------------------------------------------------------
(* The number of iterations run at once.                                   *)

Limit(i, r, avoid) ==
    Min({r.cx - 1} \cup {bound_iterations_for_state(r, s) : s \in i.states \cup avoid})

(* limit: below CX and short of every register state to be noticed.        *)
LEMMA LimitBounds ==
    ASSUME NEW i \in Instructions, NEW r \in Registers, r.cx > 0,
           NEW avoid \in SUBSET Registers
    PROVE  /\ Limit(i, r, avoid) \in Nat
           /\ Limit(i, r, avoid) <= r.cx - 1
           /\ \A s \in i.states \cup avoid :
                 Limit(i, r, avoid) <= bound_iterations_for_state(r, s)
<1> DEFINE S == {r.cx - 1} \cup {bound_iterations_for_state(r, s) : s \in i.states \cup avoid}
<1>1. r.cx - 1 \in Nat
  BY DEF Registers
<1>2. \A s \in i.states \cup avoid : bound_iterations_for_state(r, s) \in Nat
  BY Fields, StateBound
<1>3. S \subseteq Nat /\ S # {}
  BY <1>1, <1>2
<1>4. r.cx - 1 \in S /\ \A s \in i.states \cup avoid : bound_iterations_for_state(r, s) \in S
  OBVIOUS
<1>5. Limit(i, r, avoid) = Min(S)
  BY DEF Limit
<1> HIDE DEF S
<1>6. Min(S) \in S /\ \A y \in S : Min(S) <= y
  BY <1>3, MinNat
<1> QED BY <1>3, <1>4, <1>5, <1>6

(* Where SI and DI stand.                                                  *)
LEMMA Pointers ==
    ASSUME NEW i \in Instructions, NEW r \in Registers
    PROVE  SI(i, r) \in Int /\ DI(i, r) \in Int
<1>1. r.n * i.size \in Nat
  BY Fields DEF Registers
<1> QED BY <1>1, Fields DEF SI, DI, Ahead

(* iterations: a number below CX that keeps short of every register state, *)
(* and of every watched byte in front of DI and, when the decoder says so, *)
(* SI.                                                                     *)
LEMMA IterationBounds ==
    ASSUME NEW i \in Instructions, NEW r \in Registers, r.cx > 0,
           NEW avoid \in SUBSET Registers
    PROVE  /\ iterations(i, r, avoid) \in Nat
           /\ iterations(i, r, avoid) <= r.cx - 1
           /\ \A s \in i.states \cup avoid :
                 iterations(i, r, avoid) <= bound_iterations_for_state(r, s)
           /\ \A w \in i.watch, j \in Nat :
                 j < iterations(i, r, avoid) =>
                    /\ Watched(w) \cap Bytes(i, DI(i, r), j) = {}
                    /\ i.op \in {"movs", "cmps"} => Watched(w) \cap Bytes(i, SI(i, r), j) = {}
<1> DEFINE d == decode_x86_string_instruction(i)
           limit == Limit(i, r, avoid)
           bySI == {bound_iterations_for_watchpoint(i, SI(i, r), d, w, limit) : w \in i.watch}
           byDI == {bound_iterations_for_watchpoint(i, DI(i, r), d, w, limit) : w \in i.watch}
           S == {limit} \cup byDI \cup (IF d.uses_si THEN bySI ELSE {})
<1>1. iterations(i, r, avoid) = Min(S)
  BY Zenon DEF iterations, Limit
<1>2. /\ limit \in Nat
      /\ limit <= r.cx - 1
      /\ \A s \in i.states \cup avoid : limit <= bound_iterations_for_state(r, s)
  BY LimitBounds
<1>3. d.uses_si = (i.op \in {"movs", "cmps"})
  BY DEF decode_x86_string_instruction
<1> HIDE DEF limit
<1>4. \A w \in i.watch :
         /\ bound_iterations_for_watchpoint(i, SI(i, r), d, w, limit) \in Nat
         /\ bound_iterations_for_watchpoint(i, DI(i, r), d, w, limit) \in Nat
  BY <1>2, Pointers, Fields, WatchBound
<1>5. S \subseteq Nat /\ S # {}
  BY <1>2, <1>4
<1>6. /\ limit \in S
      /\ \A w \in i.watch : bound_iterations_for_watchpoint(i, DI(i, r), d, w, limit) \in S
      /\ d.uses_si =>
           \A w \in i.watch : bound_iterations_for_watchpoint(i, SI(i, r), d, w, limit) \in S
  OBVIOUS
<1> HIDE DEF S
<1>7. Min(S) \in Nat /\ \A y \in S : Min(S) <= y
  BY <1>5, MinNat
<1>8. \A s \in i.states \cup avoid : bound_iterations_for_state(r, s) \in Nat
  BY Fields, StateBound
<1>9. ASSUME NEW w \in i.watch, NEW j \in Nat, j < iterations(i, r, avoid)
      PROVE  /\ Watched(w) \cap Bytes(i, DI(i, r), j) = {}
             /\ i.op \in {"movs", "cmps"} => Watched(w) \cap Bytes(i, SI(i, r), j) = {}
  <2>0. w \in Ranges
    BY Fields
  <2>1. j < bound_iterations_for_watchpoint(i, DI(i, r), d, w, limit)
    BY <1>1, <1>4, <1>6, <1>7, <1>9
  <2>2. Watched(w) \cap Bytes(i, DI(i, r), j) = {}
    BY <1>2, <2>0, <2>1, Pointers, WatchBoundClear
  <2>3. ASSUME i.op \in {"movs", "cmps"}
        PROVE  Watched(w) \cap Bytes(i, SI(i, r), j) = {}
    <3>1. bound_iterations_for_watchpoint(i, SI(i, r), d, w, limit) \in S
      BY <1>3, <1>6, <2>3, Zenon
    <3>2. j < bound_iterations_for_watchpoint(i, SI(i, r), d, w, limit)
      BY <1>1, <1>4, <1>7, <1>9, <3>1
    <3> QED BY <1>2, <2>0, <3>2, Pointers, WatchBoundClear
  <2> QED BY <2>2, <2>3
<1>10. r.cx \in Nat
  BY DEF Registers
<1>11. /\ Min(S) <= r.cx - 1
       /\ \A s \in i.states \cup avoid : Min(S) <= bound_iterations_for_state(r, s)
  BY <1>2, <1>6, <1>7, <1>8, <1>10
<1> QED BY <1>1, <1>7, <1>9, <1>11

------------------------------------------------------------------------------
(* The loop.                                                               *)

Regs(ip, cx, n, zf) == [ip |-> ip, cx |-> cx, n |-> n, zf |-> zf]

No == FALSE

\* The fields of a register file.
LEMMA RegsFields ==
    ASSUME NEW a, NEW b, NEW c, NEW d
    PROVE  /\ Regs(a, b, c, d).ip = a /\ Regs(a, b, c, d).cx = b
           /\ Regs(a, b, c, d).n = c /\ Regs(a, b, c, d).zf = d
           /\ \A e : [Regs(a, b, c, d) EXCEPT !.cx = e] = Regs(a, e, c, d)
           /\ \A e : [Regs(a, b, c, d) EXCEPT !.ip = e] = Regs(e, b, c, d)
BY DEF Regs

(* How many single-steps the instruction takes.                            *)
Steps(i) ==
    IF i.cx = 0 THEN 1
    ELSE IF ComparesElements(i) /\ i.found > 0 /\ i.found < i.cx THEN i.found ELSE i.cx

(* The comparison of the k-th element ends the loop.                       *)
FoundAt(i, k) == ComparesElements(i) /\ i.cx > 0 /\ k > 0 /\ k = i.found

(* The state after k of them.                                              *)
After(i, k) ==
    Regs(IF k = Steps(i) THEN "next" ELSE "insn",
         IF i.cx = 0 THEN 0 ELSE i.cx - k,
         IF i.cx = 0 THEN 0 ELSE k,
         FoundAt(i, k))

\* The states on the path of single steps.
LEMMA PathStates ==
    ASSUME NEW i \in Instructions
    PROVE  /\ Steps(i) \in Nat \ {0}
           /\ i.cx > 0 => Steps(i) <= i.cx
           /\ DOMAIN Path(i) = 0 .. Steps(i)
           /\ \A k \in 0 .. Steps(i) : Path(i)[k] = After(i, k)
<1>1. Steps(i) \in Nat \ {0} /\ (i.cx > 0 => Steps(i) <= i.cx)
  BY Fields DEF Steps
<1>2. Path(i) = [k \in 0 .. Steps(i) |-> After(i, k)]
  BY Zenon DEF Path, Steps, After, Regs, FoundAt
<1> QED BY <1>1, <1>2

(* After the singlestep that is always made.                               *)
LEMMA FirstStep ==
    ASSUME NEW i \in Instructions
    PROVE  Singlestep(i, Entered(i)) = After(i, 1)
<1>0. Entered(i) = Regs("insn", i.cx, 0, No)
  BY Zenon DEF Entered, Regs, No
<1>1. CASE i.cx = 0
  <2>1. Singlestep(i, Entered(i)) = Regs("next", 0, 0, No)
    <3>1. /\ Regs("insn", i.cx, 0, No).cx = 0
          /\ [Regs("insn", i.cx, 0, No) EXCEPT !.ip = "next"] = Regs("next", 0, 0, No)
      BY <1>1, RegsFields
    <3> QED BY <1>0, <3>1, Zenon DEF Singlestep
  <2>2. FoundAt(i, 1) = No /\ Steps(i) = 1
    BY <1>1 DEF FoundAt, Steps, No
  <2>3. After(i, 1) = Regs("next", 0, 0, No)
    BY <1>1, <2>2, Zenon DEF After
  <2> QED BY <2>1, <2>3, Zenon
<1>2. CASE i.cx # 0
  <2> DEFINE f == ComparesElements(i) /\ 0 + 1 = i.found
  <2>1. Singlestep(i, Entered(i)) =
          Regs(IF i.cx = 1 \/ f THEN "next" ELSE "insn", i.cx - 1, 0 + 1, f)
    <3>1. Regs("insn", i.cx, 0, No).cx = i.cx /\ Regs("insn", i.cx, 0, No).n = 0
      BY RegsFields
    <3> QED BY <1>0, <1>2, <3>1, Zenon DEF Singlestep, Regs
  <2>2. 1 = Steps(i) <=> i.cx = 1 \/ f
    BY <1>2, Fields DEF Steps
  <2>3. FoundAt(i, 1) = f
    BY <1>2, Fields DEF ComparesElements, FoundAt
  <2>4. 0 + 1 = 1
    OBVIOUS
  <2> HIDE DEF f
  <2>5. After(i, 1) = Regs(IF i.cx = 1 \/ f THEN "next" ELSE "insn", i.cx - 1, 1, f)
    BY <1>2, <2>2, <2>3, Zenon DEF After
  <2> QED BY <2>1, <2>4, <2>5
<1> QED BY <1>1, <1>2

(* The loop is entered only when the instruction has not ended: at least   *)
(* two steps, one of them made.                                            *)
LEMMA Entering ==
    ASSUME NEW i \in Instructions, After(i, 1).ip = "insn"
    PROVE  /\ Steps(i) > 1 /\ i.cx > 1
           /\ After(i, 1) = Regs("insn", i.cx - 1, 1, No)
           /\ After(i, 1) \in Registers
<1>1. Steps(i) # 1
  BY RegsFields DEF After
<1>2. Steps(i) > 1 /\ i.cx > 1
  BY <1>1, PathStates, Fields DEF Steps
<1>3. FoundAt(i, 1) = No
  BY <1>1, <1>2, Fields DEF Steps, FoundAt, No
<1>4. i.cx # 0 /\ i.cx - 1 \in Nat
  BY <1>2, Fields
<1>5. After(i, 1) = Regs("insn", i.cx - 1, 1, No)
  BY <1>1, <1>3, <1>4, Zenon DEF After
<1>6. Regs("insn", i.cx - 1, 1, No) \in Registers
  BY <1>4 DEF Registers, Regs, No
<1> QED BY <1>2, <1>5, <1>6

(* A bounded run of b iterations from there that no comparison ends: the   *)
(* repaired registers are those of 1 + b single-steps.                     *)
LEMMA BoundedRun ==
    ASSUME NEW i \in Instructions, After(i, 1).ip = "insn",
           NEW b \in Nat, b > 0, b <= i.cx - 2,
           ~(ComparesElements(i) /\ i.found > 1 /\ i.found - 1 <= b)
    PROVE  /\ [Repaired(i, After(i, 1), b, RunBounded(i, After(i, 1), b)) EXCEPT !.ip = "insn"]
                = After(i, 1 + b)
           /\ 1 + b < Steps(i)
<1> DEFINE r == Regs("insn", i.cx - 1, 1, No)
<1>1. After(i, 1) = r /\ Steps(i) > 1 /\ i.cx > 1
  BY Entering
<1>2. i.cx \in Nat /\ i.found \in Nat
  BY Fields
<1>3. ~(ComparesElements(i) /\ 1 = i.found)
  BY <1>1, <1>2 DEF Steps
<1>4. RunBounded(i, r, b) = Regs("next", b - b, 1 + b, No)
  <2> DEFINE early == ComparesElements(i) /\ i.found > 1 /\ i.found - 1 <= b
             done == IF early THEN i.found - 1 ELSE b
  <2>1. [r EXCEPT !.cx = b] = Regs("insn", b, 1, No)
    BY RegsFields
  <2>2. early = No
    BY DEF ComparesElements, No
  <2>3. RunToEnd(i, Regs("insn", b, 1, No)) = Regs("next", b - done, 1 + done, early)
    <3>1. Regs("insn", b, 1, No).cx = b /\ Regs("insn", b, 1, No).n = 1
      BY RegsFields
    <3> QED BY <3>1, Zenon DEF RunToEnd, Regs
  <2>4. done = b
    OBVIOUS
  <2> HIDE DEF early, done
  <2> QED BY <2>1, <2>2, <2>3, <2>4, Zenon DEF RunBounded
<1>5. [Repaired(i, r, b, RunBounded(i, r, b)) EXCEPT !.ip = "insn"]
        = Regs("insn", (i.cx - 1) - (b - (b - b)), 1 + b, No)
  <2> DEFINE ran == Regs("next", b - b, 1 + b, No)
             cx == (i.cx - 1) - (b - (b - b))
  <2>1. r.cx - (b - ran.cx) = cx
    BY RegsFields
  <2>2. [ran EXCEPT !.cx = cx] = Regs("next", cx, 1 + b, No)
    BY RegsFields
  <2>3. [Regs("next", cx, 1 + b, No) EXCEPT !.ip = "insn"] = Regs("insn", cx, 1 + b, No)
    BY RegsFields
  <2> QED BY <1>4, <2>1, <2>2, <2>3, Zenon DEF Repaired
<1>6. 1 + b < Steps(i)
  BY <1>1, <1>2, <1>3 DEF Steps
<1>7. FoundAt(i, 1 + b) = No
  BY <1>2, <1>3 DEF FoundAt, No
<1>8. After(i, 1 + b) = Regs("insn", i.cx - (1 + b), 1 + b, No)
  <2>1. 1 + b # Steps(i) /\ i.cx # 0
    BY <1>1, <1>2, <1>6, PathStates
  <2> QED BY <1>7, <2>1, Zenon DEF After
<1>9. i.cx - (1 + b) = (i.cx - 1) - (b - (b - b))
  BY <1>2
<1> QED BY <1>1, <1>5, <1>6, <1>8, <1>9, Zenon

Yes == TRUE

(* A bounded run that a comparison ends.                                   *)
LEMMA EndedRun ==
    ASSUME NEW i \in Instructions, NEW b \in Nat, NEW cx,
           ComparesElements(i), i.found > 1, i.found - 1 <= b
    PROVE  RunBounded(i, Regs("insn", cx, 1, No), b)
             = Regs("next", b - (i.found - 1), 1 + (i.found - 1), Yes)
<1> DEFINE r == Regs("insn", cx, 1, No)
           early == ComparesElements(i) /\ i.found > 1 /\ i.found - 1 <= b
           done == IF early THEN i.found - 1 ELSE b
<1>1. [r EXCEPT !.cx = b] = Regs("insn", b, 1, No)
  BY RegsFields
<1>2. early = Yes
  BY DEF Yes
<1>3. RunToEnd(i, Regs("insn", b, 1, No)) = Regs("next", b - done, 1 + done, early)
  <2>1. Regs("insn", b, 1, No).cx = b /\ Regs("insn", b, 1, No).n = 1
    BY RegsFields
  <2> QED BY <2>1, Zenon DEF RunToEnd, Regs
<1>4. done = i.found - 1
  OBVIOUS
<1> HIDE DEF early, done
<1> QED BY <1>1, <1>2, <1>3, <1>4, Zenon DEF RunBounded

(* What the loop makes of the state after the first step: that of b more   *)
(* single-steps, with b within the bounds; or a comparison ended the run   *)
(* at its very last iteration.                                             *)
LEMMA LoopResult ==
    ASSUME NEW i \in Instructions, After(i, 1).ip = "insn"
    PROVE  \E b \in Nat, avoid \in SUBSET Registers :
              /\ b <= iterations(i, After(i, 1), avoid)
              /\ \/ /\ FastForwardLoop(i, After(i, 1)) = After(i, 1 + b)
                    /\ 1 + b < Steps(i)
                 \/ /\ FastForwardLoop(i, After(i, 1)).n = 1 + b
                    /\ FastForwardLoop(i, After(i, 1)).ip = "insn"
                    /\ 1 + b = i.found
                    /\ 1 + b <= Steps(i)
<1> DEFINE r == After(i, 1)
           first == iterations(i, r, {})
           ran1 == RunBounded(i, r, first)
           exit == Repaired(i, r, first, ran1)
           again == decode_x86_string_instruction(i).modifies_flags /\ ran1.cx > 0
           bound == IF again THEN iterations(i, r, {exit}) ELSE first
           ran == RunBounded(i, r, bound)
           res == FastForwardLoop(i, r)
<1>1. /\ Steps(i) > 1 /\ i.cx > 1
      /\ r = Regs("insn", i.cx - 1, 1, No)
      /\ r \in Registers
  BY Entering
<1>2. i.cx \in Nat /\ i.found \in Nat
  BY Fields
<1>3. r.cx = i.cx - 1 /\ r.n = 1 /\ r.cx > 0
  BY <1>1, <1>2, RegsFields
<1>4. first \in Nat /\ first <= i.cx - 2
  BY <1>1, <1>2, <1>3, IterationBounds
<1>5. decode_x86_string_instruction(i).modifies_flags = ComparesElements(i)
  BY DEF decode_x86_string_instruction, ComparesElements
<1>6. /\ (first = 0 \/ bound = 0) => res = r
      /\ first # 0 /\ bound # 0 =>
           res = [Repaired(i, r, bound, ran) EXCEPT !.ip = "insn"]
  BY <1>3, <1>2 DEF FastForwardLoop
<1> HIDE DEF r, first, res
<1>7. CASE first = 0 \/ bound = 0
  <2>1. res = After(i, 1 + 0) /\ 1 + 0 < Steps(i)
    BY <1>6, <1>7, <1>1 DEF r
  <2>2. 0 <= iterations(i, r, {})
    BY <1>4 DEF first
  <2> QED BY <2>1, <2>2 DEF r, res
<1>8. CASE first # 0 /\ bound # 0 /\ ~(ComparesElements(i) /\ i.found > 1 /\ i.found - 1 <= first)
  <2>1. /\ [Repaired(i, r, first, ran1) EXCEPT !.ip = "insn"] = After(i, 1 + first)
        /\ 1 + first < Steps(i)
    BY <1>4, <1>8, BoundedRun DEF r
  <2>2. ~again
    <3>1. ASSUME ComparesElements(i) PROVE ran1.cx = 0
      <4>1. [r EXCEPT !.cx = first] = Regs("insn", first, 1, No)
        BY <1>1, RegsFields
      <4>2. Regs("insn", first, 1, No).cx = first /\ Regs("insn", first, 1, No).n = 1
        BY RegsFields
      <4>3. ran1.cx = first - first
        <5>1. ran1 = RunToEnd(i, Regs("insn", first, 1, No))
          BY <4>1, Zenon DEF RunBounded
        <5>2. RunToEnd(i, Regs("insn", first, 1, No)).cx
                = first - (IF ComparesElements(i) /\ i.found > 1 /\ i.found - 1 <= first
                           THEN i.found - 1 ELSE first)
          BY <4>2, Zenon DEF RunToEnd
        <5> QED BY <5>1, <5>2, <1>8
      <4> QED BY <4>3, <1>4
    <3> QED BY <3>1, <1>5
  <2>3. bound = first
    BY <2>2
  <2>4. res = After(i, 1 + first)
    BY <1>6, <1>8, <2>1, <2>3, Zenon
  <2>5. first <= iterations(i, r, {})
    BY <1>4 DEF first
  <2> QED BY <1>4, <2>1, <2>4, <2>5 DEF r, res
<1>9. CASE first # 0 /\ bound # 0 /\ ComparesElements(i) /\ i.found > 1 /\ i.found - 1 <= first
  <2>1. ran1 = Regs("next", first - (i.found - 1), 1 + (i.found - 1), Yes)
    BY <1>1, <1>4, <1>9, EndedRun
  <2>2. ran1.cx = first - (i.found - 1) /\ ran1.n = 1 + (i.found - 1)
    BY <2>1, RegsFields
  <2>3. i.found <= Steps(i)
    BY <1>1, <1>2, <1>4, <1>9 DEF Steps
  <2>4. CASE i.found - 1 = first
    <3>1. ~again
      BY <1>2, <1>4, <2>2, <2>4
    <3>2. bound = first
      BY <3>1
    <3>3. res = [[ran1 EXCEPT !.cx = r.cx - (first - ran1.cx)] EXCEPT !.ip = "insn"]
      BY <1>6, <1>9, <3>2, Zenon DEF Repaired
    <3>4. res = Regs("insn", r.cx - (first - ran1.cx), 1 + (i.found - 1), Yes)
      <4> DEFINE c == r.cx - (first - ran1.cx)
      <4>1. \A e : [Regs("next", first - (i.found - 1), 1 + (i.found - 1), Yes) EXCEPT !.cx = e]
                    = Regs("next", e, 1 + (i.found - 1), Yes)
        BY RegsFields
      <4>2. \A e : [Regs("next", e, 1 + (i.found - 1), Yes) EXCEPT !.ip = "insn"]
                    = Regs("insn", e, 1 + (i.found - 1), Yes)
        BY RegsFields
      <4> HIDE DEF c, ran1
      <4> QED BY <2>1, <3>3, <4>1, <4>2 DEF c
    <3>5. res.n = 1 + first /\ res.ip = "insn" /\ 1 + first = i.found
      BY <1>2, <1>4, <2>4, <3>4, RegsFields
    <3>6. first <= iterations(i, r, {})
      BY <1>4 DEF first
    <3>7. 1 + first <= Steps(i)
      BY <2>3, <3>5
    <3> QED BY <1>4, <3>5, <3>6, <3>7 DEF r, res
  <2>5. CASE i.found - 1 # first
    <3>1. again
      BY <1>2, <1>4, <1>5, <1>9, <2>2, <2>5
    <3>2. exit = Regs("next", r.cx - (first - ran1.cx), 1 + (i.found - 1), Yes)
      BY <2>1, RegsFields DEF Repaired
    <3>3. exit.ip = "next" /\ exit.cx = i.cx - i.found
      BY <1>2, <1>3, <1>4, <2>2, <3>2, RegsFields
    <3>4. i.cx - i.found \in Nat
      BY <1>2, <1>4, <1>9
    <3>5. exit \in Registers
      <4>1. r.cx - (first - ran1.cx) = i.cx - i.found /\ 1 + (i.found - 1) = i.found
        BY <1>2, <1>3, <1>4, <2>2
      <4> QED BY <1>2, <3>2, <3>4, <4>1 DEF Registers, Regs, Yes
    <3> HIDE DEF exit
    <3>6. bound = iterations(i, r, {exit})
      BY <3>1
    <3>7. /\ bound \in Nat /\ bound <= r.cx - 1
          /\ bound <= bound_iterations_for_state(r, exit)
      BY <1>1, <1>3, <3>5, <3>6, IterationBounds
    <3>8. bound_iterations_for_state(r, exit) = i.found - 2
      BY <1>2, <1>3, <1>9, <3>3 DEF bound_iterations_for_state
    <3>9. ~(i.found - 1 <= bound) /\ bound > 0 /\ bound <= i.cx - 2
      BY <1>2, <1>3, <1>9, <3>7, <3>8
    <3> HIDE DEF bound
    <3>10. /\ [Repaired(i, r, bound, RunBounded(i, r, bound)) EXCEPT !.ip = "insn"]
                = After(i, 1 + bound)
           /\ 1 + bound < Steps(i)
      BY <3>7, <3>9, BoundedRun DEF r
    <3>11. res = After(i, 1 + bound)
      BY <1>6, <1>9, <3>10, Zenon
    <3>12. bound <= iterations(i, r, {exit}) /\ {exit} \in SUBSET Registers
      BY <3>5, <3>6, <3>7
    <3> QED BY <3>7, <3>10, <3>11, <3>12 DEF r, res
  <2> QED BY <2>4, <2>5
<1> QED BY <1>7, <1>8, <1>9

------------------------------------------------------------------------------
(* The two promises.                                                       *)

(* The j-th element from where the registers stand after one step.         *)
LEMMA AheadAgain ==
    ASSUME NEW i \in Instructions, NEW base \in Int, NEW j \in Nat
    PROVE  Ahead(i, Ahead(i, base, 1), j) = Ahead(i, base, j + 1)
<1>1. i.size \in {1, 2, 4, 8} /\ i.df \in BOOLEAN
  BY Fields
<1>2. CASE i.size = 1  BY <1>2 DEF Ahead
<1>3. CASE i.size = 2  BY <1>3 DEF Ahead
<1>4. CASE i.size = 4  BY <1>4 DEF Ahead
<1>5. CASE i.size = 8  BY <1>5 DEF Ahead
<1> QED BY <1>1, <1>2, <1>3, <1>4, <1>5

(* Within the bounds no iteration touches a watched byte.                  *)
LEMMA NoHit ==
    ASSUME NEW i \in Instructions, After(i, 1).ip = "insn", i.op # "lods",
           NEW avoid \in SUBSET Registers,
           NEW k \in Nat, k > 0, k <= iterations(i, After(i, 1), avoid)
    PROVE  ~WatchHit(i, After(i, k))
<1> DEFINE r == After(i, 1)
           s == After(i, k)
<1>1. /\ i.cx > 1 /\ r = Regs("insn", i.cx - 1, 1, No) /\ r \in Registers
  BY Entering
<1>2. r.cx > 0 /\ r.n = 1 /\ s.n = k
  BY <1>1, Fields, RegsFields DEF After
<1>3. k - 1 \in Nat /\ k - 1 < iterations(i, r, avoid)
  BY <1>1, <1>2, IterationBounds
<1>4. \A w \in i.watch :
         /\ Watched(w) \cap Bytes(i, DI(i, r), k - 1) = {}
         /\ i.op \in {"movs", "cmps"} => Watched(w) \cap Bytes(i, SI(i, r), k - 1) = {}
  BY <1>1, <1>2, <1>3, IterationBounds
<1>5. /\ Ahead(i, Ahead(i, i.di, 1), k - 1) = Ahead(i, i.di, k)
      /\ Ahead(i, Ahead(i, i.si, 1), k - 1) = Ahead(i, i.si, k)
  <2>1. (k - 1) + 1 = k
    OBVIOUS
  <2> QED BY <1>3, <2>1, AheadAgain, Fields
<1> HIDE DEF r, s
<1>6. TouchesDI(i)
  BY Fields DEF TouchesDI
<1>7. ReadsSI(i) <=> i.op \in {"movs", "cmps"}
  BY DEF ReadsSI
<1>8. Accessed(i, s) = (IF ReadsSI(i) THEN Bytes(i, SI(i, r), k - 1) ELSE {})
                         \cup Bytes(i, DI(i, r), k - 1)
  <2>1. Bytes(i, DI(i, r), k - 1) = DI(i, s) .. (DI(i, s) + i.size - 1)
    BY <1>2, <1>5, <1>6, Zenon DEF Bytes, DI
  <2>2. ReadsSI(i) => Bytes(i, SI(i, r), k - 1) = SI(i, s) .. (SI(i, s) + i.size - 1)
    BY <1>2, <1>5, Zenon DEF Bytes, SI
  <2> QED BY <1>6, <2>1, <2>2, Zenon DEF Accessed
<1>9. \A w \in i.watch : w.addr .. (w.addr + w.num_bytes - 1) \cap Accessed(i, s) = {}
  <2> SUFFICES ASSUME NEW w \in i.watch
               PROVE  Watched(w) \cap Accessed(i, s) = {}
    BY Zenon DEF Watched
  <2> QED BY <1>4, <1>7, <1>8
<1> QED BY <1>9, Zenon DEF WatchHit, s

(* Within the bounds no register state to be noticed is passed.            *)
LEMMA NoStatePassed ==
    ASSUME NEW i \in Instructions, After(i, 1).ip = "insn", After(i, 1) \notin i.states,
           NEW avoid \in SUBSET Registers, NEW b \in Nat,
           b <= iterations(i, After(i, 1), avoid), 1 + b <= Steps(i),
           NEW k \in Nat, k > 0, k < 1 + b
    PROVE  After(i, k) \notin i.states
<1> DEFINE r == After(i, 1)
           s == After(i, k)
<1> SUFFICES ASSUME s \in i.states
             PROVE  FALSE
  OBVIOUS
<1>1. k # 1
  OBVIOUS
<1>2. /\ i.cx > 1 /\ r = Regs("insn", i.cx - 1, 1, No) /\ r \in Registers
  BY Entering
<1>3. r.cx = i.cx - 1 /\ r.cx > 0
  BY <1>2, Fields, RegsFields
<1>4. k < Steps(i) /\ Steps(i) <= i.cx
  BY <1>2, Fields, PathStates
<1>5. s.ip = "insn" /\ s.cx = i.cx - k
  BY <1>2, <1>4, Fields, RegsFields, PathStates DEF After
<1>6. /\ iterations(i, r, avoid) \in Nat
      /\ iterations(i, r, avoid) <= bound_iterations_for_state(r, s)
  BY <1>2, <1>3, IterationBounds
<1>7. bound_iterations_for_state(r, s) = k - 2
  BY <1>1, <1>3, <1>4, <1>5, Fields, PathStates DEF bound_iterations_for_state
<1> QED BY <1>6, <1>7

(* What the call returns.                                                  *)
LEMMA Outcome ==
    ASSUME NEW i \in Instructions, NEW o,
           o = IF \/ Singlestep(i, Entered(i)).ip # "insn"
                  \/ WatchHit(i, Entered(i))
                  \/ Singlestep(i, Entered(i)) \in i.states
               THEN Singlestep(i, Entered(i))
               ELSE FastForwardLoop(i, Singlestep(i, Entered(i)))
    PROVE  /\ (o.ip = "insn" => o.n # i.found) =>
                 \E k \in DOMAIN Path(i) : k > 0 /\ Path(i)[k] = o
           /\ i.op # "lods" =>
                 \A k \in 1 .. o.n :
                    /\ k < o.n => Path(i)[k] \notin i.states
                    /\ k > 1 => ~WatchHit(i, Path(i)[k - 1])
<1>0. Singlestep(i, Entered(i)) = After(i, 1)
  BY FirstStep
<1>1. /\ Steps(i) \in Nat \ {0}
      /\ DOMAIN Path(i) = 0 .. Steps(i)
      /\ \A k \in 0 .. Steps(i) : Path(i)[k] = After(i, k)
  BY PathStates
<1>2. CASE o = After(i, 1)
  <2>1. 1 \in DOMAIN Path(i) /\ 1 > 0 /\ Path(i)[1] = o
    BY <1>1, <1>2
  <2>2. o.n \in {0, 1}
    BY <1>2, RegsFields DEF After
  <2> QED BY <2>1, <2>2
<1>3. CASE o # After(i, 1)
  <2>1. /\ After(i, 1).ip = "insn" /\ After(i, 1) \notin i.states
        /\ o = FastForwardLoop(i, After(i, 1))
    BY <1>0, <1>3, Zenon
  <2>2. PICK b \in Nat, avoid \in SUBSET Registers :
              /\ b <= iterations(i, After(i, 1), avoid)
              /\ \/ /\ o = After(i, 1 + b)
                    /\ 1 + b < Steps(i)
                 \/ /\ o.n = 1 + b /\ o.ip = "insn" /\ 1 + b = i.found
                    /\ 1 + b <= Steps(i)
    BY <2>1, LoopResult
  <2>3. 1 + b <= Steps(i)
    BY <1>1, <2>2
  <2>4. o.n = 1 + b
    <3>1. i.cx # 0
      BY <2>1, Entering
    <3>2. After(i, 1 + b).n = 1 + b
      BY <3>1, RegsFields DEF After
    <3> QED BY <2>2, <3>2
  <2>5. ASSUME o.ip = "insn" => o.n # i.found
        PROVE  \E k \in DOMAIN Path(i) : k > 0 /\ Path(i)[k] = o
    <3>1. o = After(i, 1 + b)
      BY <2>2, <2>4, <2>5
    <3>2. 1 + b \in DOMAIN Path(i) /\ 1 + b > 0
      BY <1>1, <2>3
    <3> QED BY <1>1, <3>1, <3>2
  <2>6. ASSUME i.op # "lods", NEW k \in 1 .. o.n
        PROVE  /\ k < o.n => Path(i)[k] \notin i.states
               /\ k > 1 => ~WatchHit(i, Path(i)[k - 1])
    <3>1. k \in Nat /\ k > 0 /\ k <= 1 + b
      BY <2>4
    <3>2. ASSUME k < o.n PROVE Path(i)[k] \notin i.states
      <4>1. k < 1 + b /\ k \in 0 .. Steps(i)
        BY <1>1, <2>3, <2>4, <3>1, <3>2
      <4>2. After(i, k) \notin i.states
        BY <2>1, <2>2, <2>3, <3>1, <4>1, NoStatePassed
      <4> QED BY <1>1, <4>1, <4>2
    <3>3. ASSUME k > 1 PROVE ~WatchHit(i, Path(i)[k - 1])
      <4>1. /\ k - 1 \in Nat /\ k - 1 > 0 /\ k - 1 \in 0 .. Steps(i)
            /\ k - 1 <= b
        BY <1>1, <2>3, <3>1, <3>3
      <4>2. /\ After(i, 1) \in Registers /\ After(i, 1).cx > 0
        <5>1. i.cx > 1 /\ After(i, 1) = Regs("insn", i.cx - 1, 1, No) /\ After(i, 1) \in Registers
          BY <2>1, Entering
        <5> QED BY <5>1, Fields, RegsFields
      <4>3. k - 1 <= iterations(i, After(i, 1), avoid)
        BY <2>2, <4>1, <4>2, IterationBounds
      <4>4. ~WatchHit(i, After(i, k - 1))
        BY <2>1, <2>6, <4>1, <4>3, NoHit
      <4> QED BY <1>1, <4>1, <4>4
    <3> QED BY <3>2, <3>3
  <2> QED BY <2>5, <2>6
<1> QED BY <1>2, <1>3

(* fast_forward_through_instruction, for every x86 string instruction:     *)
(* the registers it leaves are registers that single-stepping reaches      *)
(* (StringRunOnPath), no register state the caller asked for is passed and *)
(* no watched byte is touched while the watchpoints are off                *)
(* (NothingSkipped).                                                       *)
THEOREM StringInstructionsAsStepped ==
    Inputs \subseteq Instructions => (Spec => [](StringRunOnPath /\ NothingSkipped))
<1> SUFFICES ASSUME Inputs \subseteq Instructions
             PROVE  Spec => [](StringRunOnPath /\ NothingSkipped)
  OBVIOUS
<1> DEFINE I == in \in Instructions /\ StringRunOnPath /\ NothingSkipped
<1>1. Init => I
  BY DEF Init, StringRunOnPath, NothingSkipped
<1>2. I /\ [Next]_vars => I'
  <2> SUFFICES ASSUME I, [Next]_vars
               PROVE  I'
    OBVIOUS
  <2>1. CASE Next
    <3>1. in' = in /\ in \in Instructions
      BY <2>1 DEF Next, fast_forward_through_instruction
    <3>2. out' = IF \/ Singlestep(in, Entered(in)).ip # "insn"
                    \/ WatchHit(in, Entered(in))
                    \/ Singlestep(in, Entered(in)) \in in.states
                 THEN Singlestep(in, Entered(in))
                 ELSE FastForwardLoop(in, Singlestep(in, Entered(in)))
      BY <2>1, Zenon DEF Next, fast_forward_through_instruction
    <3>3. /\ (out'.ip = "insn" => out'.n # in.found) =>
                 \E k \in DOMAIN Path(in) : k > 0 /\ Path(in)[k] = out'
          /\ in.op # "lods" =>
                 \A k \in 1 .. out'.n :
                    /\ k < out'.n => Path(in)[k] \notin in.states
                    /\ k > 1 => ~WatchHit(in, Path(in)[k - 1])
      BY <3>1, <3>2, Outcome
    <3> QED BY <3>1, <3>3, Zenon DEF StringRunOnPath, NothingSkipped
  <2>2. CASE UNCHANGED vars
    BY <2>2, Zenon DEF vars, StringRunOnPath, NothingSkipped
  <2> QED BY <2>1, <2>2
<1> QED BY <1>1, <1>2, PTL DEF Spec

==============================================================================
