---------------------------- MODULE AddressSpace ----------------------------
(***************************************************************************)
(* rd's cached view of a tracee's address space (address_space.rs) as      *)
(* operators on a record                                                   *)
(*    vm = [mem, dont_fork, shm_sizes, brk_end, local, ok]                 *)
(*  - mem: the Mappings, a set of records with disjoint ranges. The        *)
(*    BTreeMap is ordered by address, so a set carries all of it;          *)
(*  - dont_fork: the set of MADV_DONTFORK ranges;                          *)
(*  - shm_sizes: address -> size of the SysV segments attached;            *)
(*  - local: the pages <<object, page>> of shared buffers that rd has      *)
(*    mapped in its own address space and not unmapped yet;                *)
(*  - ok: FALSE once an ed_assert or debug_assert of this file failed.     *)
(* An address is a number, a page is PageSize of them. A KernelMapping is  *)
(* [start, end, fsname, device, prot, flags, offset]: device stands for    *)
(* the device and inode numbers together, 0 for NO_DEVICE and NO_INODE.    *)
(***************************************************************************)
EXTENDS Integers, FiniteSets

LOCAL INSTANCE FiniteSetsExt

CONSTANT
    PageSize    \* addresses in a page

ASSUME PageSizeAssumption == PageSize \in Nat \ {0}

NO_DEVICE == 0

(***************************************************************************)
(* Ranges and mappings.                                                    *)
(***************************************************************************)
floor_page_size(a) == (a \div PageSize) * PageSize

ceil_page_size(a) == ((a + PageSize - 1) \div PageSize) * PageSize

new_range(addr, n) == [start |-> addr, end |-> addr + n]

MaxOf(a, b) == IF a < b THEN b ELSE a
MinOf(a, b) == IF a < b THEN a ELSE b

intersects(r, o) == MaxOf(r.start, o.start) < MinOf(r.end, o.end)

contains_ptr(r, p) == r.start <= p /\ p < r.end

size(r) == r.end - r.start

MAP_FLAGS_MASK == {"ANONYMOUS", "NORESERVE", "PRIVATE", "SHARED", "STACK",
                   "GROWSDOWN"}

CHECKABLE_FLAGS_MASK == {"PRIVATE", "SHARED"}

new_with_opts(start, end, fsname, device, prot, flags, offset) ==
    [start |-> start, end |-> end, fsname |-> fsname, device |-> device,
     prot |-> prot, flags |-> flags \cap MAP_FLAGS_MASK, offset |-> offset]

is_real_device(km) == km.device > NO_DEVICE

extend(km, end) == [km EXCEPT !.end = end]

set_range(km, start, end) == [km EXCEPT !.start = start, !.end = end]

subrange(km, start, end) ==
    [km EXCEPT !.start = start, !.end = end,
               !.offset = @ + (IF is_real_device(km) THEN start - km.start ELSE 0)]

set_prot(km, prot) == [km EXCEPT !.prot = prot]

is_heap(km) == km.fsname = "[heap]"

is_stack(km) == km.fsname = "[stack]"

NoStat == [device |-> NO_DEVICE, size |-> 0]

fake_stat(km) == [device |-> km.device, size |-> size(km)]

\* A null local_addr, and the pointer `addr.add(n)` into a shared buffer.
NoLocal == <<>>
AddLocal(l, n) == IF l = NoLocal THEN l ELSE <<l[1], l[2] + n>>

Mapping(map, rec, emu_file, stat, local_addr, flags) ==
    [map |-> map, recorded_map |-> rec, emu_file |-> emu_file,
     mapped_file_stat |-> stat, local_addr |-> local_addr, flags |-> flags]

NewVm(brk) == [mem |-> {}, dont_fork |-> {}, shm_sizes |-> <<>>, brk_end |-> brk,
               local |-> {}, ok |-> TRUE]

Check(vm, b) == [vm EXCEPT !.ok = @ /\ b]

mapping_of(vm, addr) == {m \in vm.mem : contains_ptr(m.map, addr)}

The(S) == CHOOSE x \in S : TRUE

(***************************************************************************)
(* for_each_in_range: the mappings of [addr, addr + n) in address order.   *)
(* The range passed on with a mapping starts where the previous mapping    *)
(* ended, not where this one starts. f only puts back what lies outside    *)
(* that range, so every mapping is met once.                               *)
(***************************************************************************)
Region(addr, n) ==
    [start |-> floor_page_size(addr), end |-> ceil_page_size(addr + n)]

Rem(mem, region, m) ==
    [start |-> LET prev == {x \in mem : x.map.end <= m.map.start
                                        /\ x.map.end > region.start}
               IN  IF prev = {} THEN region.start
                   ELSE CHOOSE e \in {x.map.end : x \in prev} :
                           \A x \in prev : x.map.end <= e,
     end |-> region.end]

IterateDefault(mem, region) == {m \in mem : intersects(m.map, region)}

\* Iteration stops at the first mapping that does not start where the last
\* one ended.
IterateContiguous(mem, region) ==
    {m \in IterateDefault(mem, region) :
        \A x \in IterateDefault(mem, region) :
            x.map.start <= m.map.start
            => x.map.start < region.start
               \/ Rem(mem, region, x).start = x.map.start}

(***************************************************************************)
(* Coalescing.                                                             *)
(***************************************************************************)
normalized_file_names_equal(k1, k2, heapAsAnonymous) ==
    \/ is_stack(k1) \/ is_stack(k2)
    \/ heapAsAnonymous /\ (is_heap(k1) \/ is_heap(k2))
    \/ k1.fsname = k2.fsname

is_adjacent_mapping(l, r, heapAsAnonymous, flagsToCheck) ==
    /\ l.end = r.start
    /\ l.flags \cap flagsToCheck = r.flags \cap flagsToCheck
    /\ l.prot = r.prot
    /\ normalized_file_names_equal(l, r, heapAsAnonymous)
    /\ l.device = r.device
    /\ is_real_device(l) => l.offset + size(l) = r.offset

is_coalescable(l, r) ==
    /\ is_adjacent_mapping(l.map, r.map, FALSE, MAP_FLAGS_MASK)
    /\ is_adjacent_mapping(l.recorded_map, r.recorded_map, FALSE, MAP_FLAGS_MASK)
    /\ l.flags = r.flags

assert_coalesceable(l, r) ==
    /\ l.emu_file = r.emu_file
    /\ AddLocal(l.local_addr, size(l.map)) = r.local_addr
    /\ l.flags = r.flags

\* The run of mappings around m in which every one coalesces with the next.
CoalescedWith(mem, m) ==
    {x \in mem :
        \A y \in mem :
            (\/ x.map.start < y.map.start /\ y.map.start <= m.map.start
             \/ m.map.start < y.map.start /\ y.map.start <= x.map.start)
            => \E z \in mem : is_coalescable(z, y)}

Merged(run) ==
    LET first == CHOOSE x \in run : \A y \in run : x.map.start <= y.map.start
        last == CHOOSE x \in run : \A y \in run : y.map.end <= x.map.end
    IN  [first EXCEPT !.map = extend(@, last.map.end),
                      !.recorded_map = extend(@, last.map.end)]

ReplaceRun(vm, run) ==
    IF Cardinality(run) = 1 THEN vm
    ELSE Check([vm EXCEPT !.mem = (@ \ run) \cup {Merged(run)}],
               \A x, y \in run : x.map.end = y.map.start => assert_coalesceable(x, y))

coalesce_around(vm, m) == ReplaceRun(vm, CoalescedWith(vm.mem, m))

(***************************************************************************)
(* The DONTFORK ranges. The BTreeSet is looked up with the derived         *)
(* ordering of MemoryRange, which finds only an equal range.               *)
(***************************************************************************)
remove_range(ranges, range) == ranges \ {range}

add_range(ranges, range) == remove_range(ranges, range) \cup {range}

(***************************************************************************)
(* map, unmap, protect, remap, brk, advise.                                *)
(***************************************************************************)
\* The part of m below s and the part above e, remapped as they were.
Underflow(m, s) ==
    {[m EXCEPT !.map = subrange(@, m.map.start, s),
               !.recorded_map = subrange(@, m.map.start, s)]}

Overflow(m, e) ==
    {[m EXCEPT !.map = subrange(@, e, m.map.end),
               !.recorded_map = subrange(@, e, m.map.end),
               !.local_addr = AddLocal(@, e - m.map.start)]}

\* Mutant: the part above the range is lost.
RemainderBelow(m, s, e) == IF m.map.start < s THEN Underflow(m, s) ELSE {}

Remainder(m, s, e) ==
    (IF m.map.start < s THEN Underflow(m, s) ELSE {})
    \cup (IF e < m.map.end THEN Overflow(m, e) ELSE {})

\* The pages of rd's own memory that munmap(local_addr + (rem.start -
\* map.start), min(rem.size, map.size - (rem.start - map.start))) names.
LocalPages(l, from, n) ==
    IF l = NoLocal THEN {}
    ELSE {<<l[1], p>> : p \in (l[2] + from) .. (l[2] + from + n - 1)}

UnmappedLocal(m, rem) ==
    LocalPages(m.local_addr, rem.start - m.map.start,
               MinOf(size(rem), size(m.map) - (rem.start - m.map.start)))

UnmapEach(vm, region, hit) ==
    [vm EXCEPT
        !.mem = (@ \ hit) \cup UNION {Remainder(m, Rem(vm.mem, region, m).start, region.end) :
                                          m \in hit},
        !.local = @ \ UNION {UnmappedLocal(m, Rem(vm.mem, region, m)) : m \in hit}]

unmap_internal(vm, addr, n) ==
    UnmapEach(vm, Region(addr, n), IterateDefault(vm.mem, Region(addr, n)))

unmap(vm, addr, n) ==
    IF ceil_page_size(n) = 0 THEN vm
    ELSE unmap_internal([vm EXCEPT !.dont_fork =
                            remove_range(@, new_range(addr, ceil_page_size(n)))],
                        addr, ceil_page_size(n))

map_and_coalesce(vm, m) == coalesce_around([vm EXCEPT !.mem = @ \cup {m}], m)

\* rec is the recorded mapping, or the mapping itself when none is passed.
map(vm, km, rec, emu_file, stat, local_addr) ==
    map_and_coalesce(
        unmap_internal([vm EXCEPT
                            !.dont_fork = remove_range(@, new_range(km.start, size(km))),
                            !.local = @ \cup LocalPages(local_addr, 0, size(km))],
                       km.start, size(km)),
        Mapping(km, rec, emu_file, stat, local_addr, {}))

PROT_GROWSDOWN == "growsdown"

ProtectStart(m, rem, prot) ==
    IF m.map.start < rem.start /\ PROT_GROWSDOWN \in prot THEN m.map.start ELSE rem.start

\* [new_start, new_end) of m with the new protection.
Overlap(m, newStart, newEnd, prot) ==
    [m EXCEPT !.map = set_prot(subrange(@, newStart, newEnd), prot),
              !.recorded_map = set_prot(subrange(@, newStart, newEnd), prot),
              !.local_addr = AddLocal(@, newStart - m.map.start)]

ProtectedPart(m, rem, prot) ==
    Overlap(m, ProtectStart(m, rem, prot), MinOf(rem.end, m.map.end),
            prot \cap {"r", "w", "x"})

ProtectPieces(m, rem, prot) ==
    {ProtectedPart(m, rem, prot)}
    \cup Remainder(m, ProtectStart(m, rem, prot), rem.end)

ProtectEach(vm, region, prot, hit) ==
    [vm EXCEPT !.mem = (@ \ hit)
                       \cup UNION {ProtectPieces(m, Rem(vm.mem, region, m), prot) : m \in hit}]

LastOf(S) == CHOOSE x \in S : \A y \in S : y.map.start <= x.map.start

ProtectHit(vm, region, prot, hit) ==
    IF hit = {} THEN vm
    ELSE coalesce_around(ProtectEach(vm, region, prot, hit),
                         LastOf({ProtectedPart(m, Rem(vm.mem, region, m), prot) : m \in hit}))

protect(vm, addr, n, prot) ==
    ProtectHit(vm, Region(addr, n), prot, IterateContiguous(vm.mem, Region(addr, n)))

\* The registers of an mprotect of a MAP_GROWSDOWN segment are changed to name
\* the segment from its start: <<address, size, prot>>.
fixup_mprotect_growsdown_parameters(vm, addr, n, prot) ==
    IF /\ PROT_GROWSDOWN \in prot
       /\ addr = floor_page_size(addr)
       /\ \E m \in mapping_of(vm, addr) : "GROWSDOWN" \in m.map.flags
    THEN LET s == The(mapping_of(vm, addr)).map.start
         IN  <<s, addr + n - s, prot \ {PROT_GROWSDOWN}>>
    ELSE <<addr, n, prot>>

\* The first DONTFORK range not below the moved one decides whether the moved
\* range stays DONTFORK.
RemapDontFork(ranges, old, new) ==
    IF old \in ranges
    THEN add_range(remove_range(ranges, old), new)
    ELSE remove_range(remove_range(ranges, old), new)

RemapDontForkOk(ranges, old) ==
    \/ old \in ranges
    \/ \A r \in ranges : (r.start > old.start \/ (r.start = old.start /\ r.end > old.end))
                      => r.start >= old.end

remap(vm, oldAddr, oldBytes, newAddr, newBytes) ==
    LET m == The(mapping_of(vm, oldAddr))
        old == new_range(oldAddr, ceil_page_size(oldBytes))
        new == new_range(newAddr, ceil_page_size(newBytes))
        moved(v) == [v EXCEPT !.dont_fork = RemapDontFork(@, old, new)]
    IN  map_and_coalesce(
            unmap_internal(
                moved(Check(unmap_internal(vm, old.start, size(old)),
                            RemapDontForkOk(vm.dont_fork, old))),
                new.start, size(new)),
            Mapping(set_range(subrange(m.map, oldAddr, MinOf(m.map.end, old.end)),
                              new.start, new.end),
                    set_range(m.recorded_map, new.start, new.end),
                    m.emu_file, m.mapped_file_stat, NoLocal, {}))

HeapMap(start, end, prot) ==
    new_with_opts(start, end, "[heap]", NO_DEVICE, prot, {"ANONYMOUS", "PRIVATE"}, 0)

brk(vm, addr, prot) ==
    LET oldBrk == ceil_page_size(vm.brk_end)
        newBrk == ceil_page_size(addr)
        km == HeapMap(oldBrk, newBrk, prot)
    IN  [(IF oldBrk < newBrk THEN map(vm, km, km, 0, NoStat, NoLocal)
          ELSE unmap(vm, newBrk, oldBrk - newBrk)) EXCEPT !.brk_end = addr]

advise(vm, addr, n, advice) ==
    CASE advice = "DONTFORK" -> [vm EXCEPT !.dont_fork =
                                    add_range(@, new_range(addr, ceil_page_size(n)))]
      [] advice = "DOFORK" -> [vm EXCEPT !.dont_fork =
                                    remove_range(@, new_range(addr, ceil_page_size(n)))]
      [] OTHER -> vm

set_shm_size(vm, addr, n) ==
    [vm EXCEPT !.shm_sizes = [a \in DOMAIN @ \cup {addr} |-> IF a = addr THEN n ELSE @[a]]]

remove_shm_size(vm, addr) ==
    [vm EXCEPT !.shm_sizes = [a \in DOMAIN @ \ {addr} |-> @[a]]]

process_shmdt(vm, addr) ==
    unmap(remove_shm_size(vm, addr), addr, vm.shm_sizes[addr])

(***************************************************************************)
(* Cloning an address space: a fork, or a session clone.                   *)
(***************************************************************************)
new_after_fork_or_session_clone(vm) ==
    [vm EXCEPT !.mem = {[m EXCEPT !.local_addr = NoLocal] : m \in @},
               !.dont_fork = {}, !.local = {}]

\* A task forked from the address space with these DONTFORK ranges.
did_fork_into(child, ranges) ==
    FoldSet(LAMBDA r, v : unmap(v, r.start, size(r)), child, ranges)

(***************************************************************************)
(* verify: the cached mappings against the segments the kernel reports,    *)
(* each list with its adjacent entries merged.                             *)
(***************************************************************************)
MergeStarts(kms) ==
    {k \in kms : \A x \in kms : ~is_adjacent_mapping(x, k, TRUE, CHECKABLE_FLAGS_MASK)}

\* The merged segment that starts with k: it ends before the next entry that
\* does not continue its predecessor.
try_merge_adjacent(kms, k) ==
    extend(k, LET run == {x \in kms : x.start >= k.start
                                      /\ \A s \in MergeStarts(kms) :
                                            s.start > k.start => x.start < s.start}
              IN  CHOOSE e \in {x.end : x \in run} : \A x \in run : x.end <= e)

Segments(kms) == {try_merge_adjacent(kms, k) : k \in MergeStarts(kms)}

assert_segments_match(m, km) ==
    /\ m.start = km.start /\ m.end = km.end
    /\ m.prot = km.prot
    /\ m.flags \cap CHECKABLE_FLAGS_MASK = km.flags \cap CHECKABLE_FLAGS_MASK
    /\ \/ normalized_file_names_equal(m, km, TRUE)
       \/ is_heap(km) /\ m.fsname = ""
       \/ is_heap(m) /\ km.fsname = ""
    /\ m.device = km.device

verify(vm, kernel) ==
    LET mine == Segments({m.map : m \in vm.mem})
        theirs == Segments(kernel)
    IN  /\ Cardinality(mine) = Cardinality(theirs)
        /\ \A m \in mine : \E k \in theirs : assert_segments_match(m, k)
=============================================================================
