-------------------------------- MODULE Mmap --------------------------------
(***************************************************************************)
(* The memory-mapping system calls, recorded and replayed. A recorder      *)
(* performs the calls of its tracees in the kernel, tracks them in an      *)
(* AddressSpace per process and writes mapped-region records and raw data  *)
(* to the trace (record_syscall.rs, trace_writer.rs). A replayer reads     *)
(* them back and builds memory with the same contents, shared mappings     *)
(* being backed by emulated files (replay_syscall.rs, emu_fs.rs). A replay *)
(* session can be cloned and the clone used in its place (session.rs).     *)
(*                                                                         *)
(* Both sides are a record                                                 *)
(*   [pg, obj, live, vm, fds, immutable, emu, next, left, ok]              *)
(* where pg[p] (the page table of process p) and obj (the files and shared *)
(* segments) belong to the kernel and the rest to rd: vm[p] the cached     *)
(* address space, fds the descriptors with their MmappedFileMonitor, emu   *)
(* the emulated files by recorded device, immutable the files the trace    *)
(* writer assumes immutable. A page has one value; Bus is what a page      *)
(* beyond the end of its file has. Memory is read and written by whole     *)
(* pages.                                                                  *)
(***************************************************************************)
EXTENDS AddressSpace, Sequences, TLC

LOCAL INSTANCE Functions
LOCAL INSTANCE FiniteSetsExt

CONSTANTS
    Procs,      \* process ids
    Files,      \* the mappable files: device -> attributes
    Shms,       \* the SysV segments: device -> size
    Scenarios   \* [fds, ops, maxOps, maxStores, checkpoints]: the files open at
                \* the start and what tracees may do

VARIABLES
    scen,       \* the scenario of this behaviour
    rec,        \* the recorder
    trace,      \* the events recorded
    rep,        \* the replayer
    pos,        \* events replayed
    ckpt        \* a cloned replay session: <<>> or <<its machine, its pos>>

vars == <<scen, rec, trace, rep, pos, ckpt>>

Bus == -1

\* The kernel numbers the files and segments rd itself creates: its shared
\* buffers, the memfds of emulated files, the clones in the trace directory.
BufferDevice(mc) == 10 + mc.next
EmuDevice(mc) == 100 + mc.next
CloneDevice(mc) == 200 + mc.next
LinkDevice(f) == 300 + f

NewMachine ==
    [pg |-> [p \in Procs |-> <<>>], obj |-> <<>>, live |-> {1},
     vm |-> [p \in Procs |-> NewVm(PageSize)], fds |-> {}, immutable |-> {},
     emu |-> <<>>, next |-> 1, left |-> 0, ok |-> TRUE]

(***************************************************************************)
(* The kernel.                                                             *)
(***************************************************************************)
PagesOf(r) == (r.start \div PageSize) .. ((r.end \div PageSize) - 1)

FileValue(obj, dev, off) ==
    IF off < Len(obj[dev].data) THEN obj[dev].data[off + 1] ELSE Bus

Value(mc, p, n) ==
    LET g == mc.pg[p][n]
    IN  IF g.shared THEN FileValue(mc.obj, g.dev, g.off) ELSE g.v

KernelPage(obj, km, n) ==
    LET off == IF km.device = NO_DEVICE THEN 0
               ELSE (km.offset + n * PageSize - km.start) \div PageSize
    IN  [dev |-> km.device, off |-> off, prot |-> km.prot, name |-> km.fsname,
         shared |-> "SHARED" \in km.flags, dontfork |-> FALSE,
         v |-> IF km.device = NO_DEVICE \/ "SHARED" \in km.flags THEN 0
               ELSE FileValue(obj, km.device, off)]

sys_mmap(mc, p, km) ==
    [mc EXCEPT !.pg[p] = [n \in PagesOf(km) |-> KernelPage(mc.obj, km, n)] @@ @]

sys_munmap(mc, p, r) ==
    [mc EXCEPT !.pg[p] = Restrict(@, DOMAIN @ \ PagesOf(r))]

\* Changes the pages up to the first hole.
sys_mprotect(mc, p, r, prot) ==
    [mc EXCEPT !.pg[p] =
        [n \in DOMAIN @ |-> IF n \in PagesOf(r) /\ PagesOf([r EXCEPT !.end = n * PageSize])
                                                    \subseteq DOMAIN @
                            THEN [@[n] EXCEPT !.prot = prot] ELSE @[n]]]

\* One VMA covers the range, as mremap requires.
OneVma(mc, p, r) ==
    /\ PagesOf(r) \subseteq DOMAIN mc.pg[p]
    /\ \A n \in PagesOf(r) :
          n - 1 \in PagesOf(r) =>
            LET a == mc.pg[p][n - 1]
                b == mc.pg[p][n]
            IN  [a EXCEPT !.v = 0, !.off = 0] = [b EXCEPT !.v = 0, !.off = 0]
                /\ (a.dev # NO_DEVICE => b.off = a.off + 1)

MovedPage(mc, p, old, new, n) ==
    LET i == n - new.start \div PageSize
        k == old.start \div PageSize
        last == mc.pg[p][k]
    IN  IF i < size(old) \div PageSize THEN mc.pg[p][k + i]
        ELSE [last EXCEPT !.off = IF last.dev = NO_DEVICE THEN 0 ELSE @ + i,
                          !.v = IF last.dev = NO_DEVICE \/ last.shared THEN 0
                                ELSE FileValue(mc.obj, last.dev, last.off + i)]

sys_mremap(mc, p, old, new) ==
    [mc EXCEPT !.pg[p] = [n \in PagesOf(new) |-> MovedPage(mc, p, old, new, n)]
                         @@ Restrict(@, DOMAIN @ \ PagesOf(old))]

\* MADV_DONTNEED: a private page is read afresh from its file, or is zero.
Advised(mc, g, advice) ==
    CASE advice = "DONTFORK" -> [g EXCEPT !.dontfork = TRUE]
      [] advice = "DOFORK" -> [g EXCEPT !.dontfork = FALSE]
      [] advice = "DONTNEED" ->
            [g EXCEPT !.v = IF g.shared \/ g.dev = NO_DEVICE THEN 0
                            ELSE FileValue(mc.obj, g.dev, g.off)]

sys_madvise(mc, p, r, advice) ==
    [mc EXCEPT !.pg[p] = [n \in DOMAIN @ |-> IF n \in PagesOf(r) THEN Advised(mc, @[n], advice)
                                             ELSE @[n]]]

sys_fork(mc, p, q) ==
    [mc EXCEPT !.pg[q] = Restrict(mc.pg[p], {n \in DOMAIN mc.pg[p] : ~mc.pg[p][n].dontfork})]

WriteObject(obj, dev, off, v) ==
    [obj EXCEPT ![dev].data = [@ EXCEPT ![off + 1] = v]]

\* A store by the tracee, or by rd through /proc/pid/mem.
Store(mc, p, n, v) ==
    IF n \notin DOMAIN mc.pg[p] THEN [mc EXCEPT !.ok = FALSE]
    ELSE IF Value(mc, p, n) = Bus THEN [mc EXCEPT !.ok = FALSE]
    ELSE IF mc.pg[p][n].shared
    THEN [mc EXCEPT !.obj = WriteObject(@, mc.pg[p][n].dev, mc.pg[p][n].off, v)]
    ELSE [mc EXCEPT !.pg[p][n].v = v]

Zeros(n) == [i \in 1 .. n |-> 0]

\* ftruncate to at least n.
Grow(o, n) ==
    [size |-> MaxOf(o.size, n),
     data |-> o.data \o Zeros(MaxOf(0, ceil_page_size(n) \div PageSize - Len(o.data)))]

\* What /proc/pid/maps lists.
KernelMaps(mc, p) ==
    {LET g == mc.pg[p][n]
     IN  new_with_opts(n * PageSize, (n + 1) * PageSize, g.name, g.dev, g.prot,
                       IF g.shared THEN {"SHARED"} ELSE {"PRIVATE"}, g.off * PageSize) :
        n \in DOMAIN mc.pg[p]}

(***************************************************************************)
(* The trace writer: where the contents of a mapping come from.            *)
(***************************************************************************)
should_copy_mmap_region(km, f) ==
    IF ~f.named \/ ~f.regular \/ f.tmpfs THEN TRUE
    ELSE IF "PRIVATE" \in km.flags /\ ("x" \in km.prot \/ f.executable) THEN FALSE
    ELSE IF ~f.readable THEN TRUE
    ELSE ~(~f.writable /\ f.rootOwned)

\* The source of a mapped region: zero, trace or file.
MappingSource(mc, km, origin) ==
    IF origin # "syscall" THEN "zero"
    ELSE IF km.device \in DOMAIN Shms THEN "trace"
    ELSE IF km.device \notin DOMAIN Files THEN "zero"
    ELSE IF km.device \in mc.immutable THEN "file"
    ELSE LET f == Files[km.device]
         IN  IF "PRIVATE" \in km.flags /\ f.cloneable THEN "file"
             ELSE IF should_copy_mmap_region(km, f)
             THEN IF "x" \in km.prot /\ "SHARED" \notin km.flags THEN "file" ELSE "trace"
             ELSE "file"

\* A file that could not be cloned is hardlinked into the trace directory.
Cloned(km) == Files[km.device].cloneable \/ should_copy_mmap_region(km, Files[km.device])

IsBacked(mc, km, origin) == MappingSource(mc, km, origin) = "file"

NowImmutable(mc, km, origin) ==
    IF IsBacked(mc, km, origin) /\ ~Cloned(km)
    THEN mc.immutable \cup {km.device} ELSE mc.immutable

\* What recording an operation yields: the recorder and what it wrote.
Recorded(mc, mmaps, raw) == [mc |-> mc, mmaps |-> mmaps, raw |-> raw]

\* A clone is in the trace as the file was when it was mapped.
Backing(mc, km, origin) ==
    IF ~IsBacked(mc, km, origin) THEN [id |-> NO_DEVICE, file |-> [size |-> 0, data |-> <<>>]]
    ELSE [id |-> IF km.device \notin mc.immutable /\ Cloned(km) THEN CloneDevice(mc)
                 ELSE LinkDevice(km.device),
          file |-> mc.obj[km.device]]

MappedRegion(mc, km, statSize, fds, skip, origin) ==
    [km |-> km, source |-> MappingSource(mc, km, origin), size |-> statSize,
     extra_fds |-> fds, skip |-> skip, backing |-> Backing(mc, km, origin)]

write_mapped_region(r, km, statSize, fds, skip, origin) ==
    [r EXCEPT !.mmaps = Append(@, MappedRegion(r.mc, km, statSize, fds, skip, origin)),
              !.mc.immutable = NowImmutable(r.mc, km, origin),
              !.mc.next = IF IsBacked(r.mc, km, origin) THEN @ + 1 ELSE @]

\* Reads as much as is mapped and lies within its file.
Readable(mc, p, start, n) ==
    LET first == start \div PageSize
        last == ceil_page_size(start + n) \div PageSize
        stop == {k \in first .. (last - 1) : k \notin DOMAIN mc.pg[p]}
                \cup {k \in DOMAIN mc.pg[p] \cap (first .. (last - 1)) : Value(mc, p, k) = Bus}
    IN  IF stop = {} THEN last - first
        ELSE (CHOOSE k \in stop : \A x \in stop : k <= x) - first

record_remote_fallible(r, p, start, n) ==
    [r EXCEPT !.raw =
        Append(@, [p |-> p, page |-> start \div PageSize,
                   vals |-> [i \in 1 .. Readable(r.mc, p, start, n) |->
                                Value(r.mc, p, start \div PageSize + i - 1)]])]

\* As above, and all of it must be there.
record_all(r, p, start, n) ==
    [record_remote_fallible(r, p, start, n) EXCEPT
        !.mc.ok = @ /\ Readable(r.mc, p, start, n)
                       = (ceil_page_size(start + n) - start) \div PageSize]

(***************************************************************************)
(* Recording.                                                              *)
(***************************************************************************)
FlagsOf(kind) ==
    CASE kind = "anon" -> {"PRIVATE", "ANONYMOUS"}
      [] kind = "stack" -> {"PRIVATE", "ANONYMOUS", "GROWSDOWN"}
      [] kind = "shanon" -> {"SHARED", "ANONYMOUS"}
      [] kind = "private" -> {"PRIVATE"}
      [] kind = "shared" -> {"SHARED"}

Range1(o) == new_range(o.addr, ceil_page_size(o.len))

\* Anonymous mapping: the kernel gives a shared one a device of its own.
AnonKm(mc, o) ==
    new_with_opts(o.addr, Range1(o).end,
                  IF o.kind = "shanon" THEN "/dev/zero (deleted)" ELSE "",
                  IF o.kind = "shanon" THEN BufferDevice(mc) ELSE NO_DEVICE,
                  o.prot, FlagsOf(o.kind), 0)

NewObject(mc, km) ==
    IF km.device = NO_DEVICE THEN mc
    ELSE [mc EXCEPT !.obj = (km.device :> [size |-> size(km),
                                           data |-> Zeros(size(km) \div PageSize)]) @@ @,
                    !.next = @ + 1]

TrackMap(mc, p, km, stat) ==
    [mc EXCEPT !.vm[p] = map(@, km, km, 0, stat, NoLocal)]

record_anonymous_mmap(mc, o, km) ==
    write_mapped_region(
        Recorded(TrackMap(sys_mmap(NewObject(mc, km), o.p, km), o.p, km, NoStat), <<>>, <<>>),
        km, size(km), {}, FALSE, "syscall")

FileKm(o) == new_with_opts(o.addr, Range1(o).end, Files[o.f].name, o.f, o.prot,
                           FlagsOf(o.kind), o.off)

\* The other writable descriptors of the file.
monitor_fd_for_mapping(mc, o) ==
    IF o.kind # "shared" THEN {}
    ELSE {d.fd : d \in {x \in mc.fds : x.f = o.f /\ x.w /\ x.fd # o.fd}}

MappedFdWritable(mc, o) == o.kind = "shared" /\ \E d \in mc.fds : d.fd = o.fd /\ d.w

RecordContents(r, o, km) ==
    IF r.mmaps[Len(r.mmaps)].source = "trace"
    THEN record_all(r, o.p, o.addr, MinOf(r.mc.obj[o.f].size - km.offset, size(km)))
    ELSE r

AddMonitors(mc, fds) ==
    [mc EXCEPT !.fds = {IF d.fd \in fds THEN [d EXCEPT !.mon = "live"] ELSE d : d \in @}]

MonitorsAdded(r, fds) == [r EXCEPT !.mc = AddMonitors(@, fds)]

record_file_mmap(mc, o, km) ==
    MonitorsAdded(
        RecordContents(
            write_mapped_region(
                Recorded(TrackMap(sys_mmap(mc, o.p, km), o.p, km,
                                  [device |-> o.f, size |-> mc.obj[o.f].size]), <<>>, <<>>),
                km, mc.obj[o.f].size, monitor_fd_for_mapping(mc, o),
                ~MappedFdWritable(mc, o), "syscall"), o, km),
        monitor_fd_for_mapping(mc, o) \cup (IF MappedFdWritable(mc, o) THEN {o.fd} ELSE {}))

record_mmap(mc, o) ==
    IF "ANONYMOUS" \in FlagsOf(o.kind) THEN record_anonymous_mmap(mc, o, AnonKm(mc, o))
    ELSE record_file_mmap(mc, o, FileKm(o))

record_munmap(mc, o) ==
    Recorded([sys_munmap(mc, o.p, Range1(o)) EXCEPT !.vm[o.p] = unmap(@, o.addr, o.len)],
             <<>>, <<>>)

\* The kernel gets the adjusted registers, the cached map the original ones.
record_mprotect(mc, o) ==
    LET a == fixup_mprotect_growsdown_parameters(mc.vm[o.p], o.addr, o.len, o.prot)
    IN  Recorded([sys_mprotect(mc, o.p, new_range(a[1], ceil_page_size(a[2])),
                               a[3] \cap {"r", "w", "x"})
                     EXCEPT !.vm[o.p] = protect(@, o.addr, o.len, o.prot)], <<>>, <<>>)

record_madvise(mc, o) ==
    Recorded([sys_madvise(mc, o.p, Range1(o), o.advice)
                 EXCEPT !.vm[o.p] = advise(@, o.addr, o.len, o.advice)], <<>>, <<>>)

BrkKm(oldBrk, newBrk) ==
    IF oldBrk < newBrk
    THEN new_with_opts(oldBrk, newBrk, "[heap]", NO_DEVICE, {"r", "w"}, {"PRIVATE"}, 0)
    ELSE new_with_opts(newBrk, oldBrk, "", NO_DEVICE, {}, {}, 0)

sys_brk(mc, p, km) ==
    IF km.flags # {} THEN sys_mmap(mc, p, km) ELSE sys_munmap(mc, p, km)

record_brk(mc, o) ==
    LET km == BrkKm(ceil_page_size(mc.vm[o.p].brk_end), ceil_page_size(o.addr))
    IN  write_mapped_region(
            Recorded([sys_brk(mc, o.p, km) EXCEPT !.vm[o.p] = brk(@, o.addr, km.prot)],
                     <<>>, <<>>),
            km, size(km), {}, FALSE, "syscall")

\* The grown part of the mapping m.
RecordGrown(r, o, m, stat) ==
    LET km == subrange(m.map, o.new + Range1(o).end - o.addr, o.new + ceil_page_size(o.newlen))
        st == IF stat.size = 0 THEN m.map.offset + ceil_page_size(o.newlen) ELSE stat.size
        w == write_mapped_region(r, km, st, {}, FALSE, "syscall")
    IN  IF w.mmaps[2].source = "trace"
        THEN record_remote_fallible(w, o.p, km.start,
                                    MinOf(IF km.offset > st THEN 0 ELSE st - km.offset, size(km)))
        ELSE w

RecordMoved(r, o, m) ==
    LET km == subrange(m.map, o.new,
                       o.new + MinOf(ceil_page_size(o.newlen), ceil_page_size(o.len)))
        st == IF m.mapped_file_stat = NoStat THEN fake_stat(km) ELSE m.mapped_file_stat
        w == write_mapped_region(r, km, st.size, {}, FALSE, "remap")
    IN  IF ceil_page_size(o.len) >= ceil_page_size(o.newlen) THEN w
        ELSE RecordGrown(w, o, m, st)

record_mremap(mc, o) ==
    LET done == [sys_mremap(mc, o.p, Range1(o), new_range(o.new, ceil_page_size(o.newlen)))
                    EXCEPT !.vm[o.p] = remap(@, o.addr, ceil_page_size(o.len), o.new,
                                             ceil_page_size(o.newlen))]
    IN  RecordMoved(Recorded(done, <<>>, <<>>), o, The(mapping_of(done.vm[o.p], o.new)))

ShmKm(o) == new_with_opts(o.addr, o.addr + Shms[o.f], "/SYSV", o.f, o.prot, {"SHARED"}, 0)

record_shmat(mc, o) ==
    LET km == ShmKm(o)
    IN  record_all(
            write_mapped_region(
                Recorded([sys_mmap(mc, o.p, km) EXCEPT
                            !.vm[o.p] = set_shm_size(map(@, km, km, 0, NoStat, NoLocal),
                                                     km.start, size(km))], <<>>, <<>>),
                km, size(km), {}, FALSE, "syscall"),
            o.p, o.addr, size(km))

record_shmdt(mc, o) ==
    Recorded([sys_munmap(mc, o.p, new_range(o.addr, mc.vm[o.p].shm_sizes[o.addr]))
                 EXCEPT !.vm[o.p] = process_shmdt(@, o.addr)], <<>>, <<>>)

\* A buffer shared between rd and the tracee: the segment, its mapping in the
\* tracee and the one in rd.
BufferKm(mc, o) ==
    new_with_opts(o.addr, Range1(o).end, "rd-shared", BufferDevice(mc), {"r", "w"}, {"SHARED"}, 0)

create_shared_mmap(mc, o, km) ==
    [sys_mmap(NewObject(mc, km), o.p, km) EXCEPT
        !.vm[o.p] = map(@, km, km, 0, NoStat, <<km.device, 0>>)]

MarkBuffer(mc, p, addr) ==
    [mc EXCEPT !.vm[p].mem = {IF m.map.start = addr THEN [m EXCEPT !.flags = {"IS_SYSCALLBUF"}]
                              ELSE m : m \in @}]

record_init_buffers(mc, o) ==
    LET km == BufferKm(mc, o)
    IN  write_mapped_region(
            Recorded(MarkBuffer(create_shared_mmap(mc, o, km), o.p, o.addr), <<>>, <<>>),
            km, size(km), {}, FALSE, "rdbuffer")

record_fork(mc, o) ==
    Recorded([sys_fork(mc, o.p, o.child) EXCEPT
                !.live = @ \cup {o.child},
                !.vm[o.child] = did_fork_into(new_after_fork_or_session_clone(mc.vm[o.p]),
                                              mc.vm[o.p].dont_fork)], <<>>, <<>>)

\* The last task of the address space is gone: Drop unmaps what rd shared
\* with it.
drop(vm) ==
    [NewVm(vm.brk_end) EXCEPT
        !.local = vm.local \ UNION {LocalPages(m.local_addr, 0, size(m.map)) : m \in vm.mem}]

record_exit(mc, o) ==
    Recorded([mc EXCEPT !.pg[o.p] = <<>>, !.live = @ \ {o.p}, !.vm[o.p] = drop(@)],
             <<>>, <<>>)

is_mapped_shared(mc, f) ==
    \E p \in mc.live : \E m \in mc.vm[p].mem :
        "SHARED" \in m.map.flags /\ m.mapped_file_stat.device = f

\* A new descriptor is monitored when the file is mapped shared.
handle_opened_file(mc, o) ==
    [fd |-> o.fd, f |-> o.f, w |-> o.w,
     mon |-> IF is_mapped_shared(mc, o.f) /\ o.w THEN "live" ELSE "none"]

record_open(mc, o) ==
    Recorded([mc EXCEPT !.fds = @ \cup {handle_opened_file(mc, o)}], <<>>, <<>>)

\* pwrite of one page, which may extend the file.
sys_pwrite(mc, o) ==
    [mc EXCEPT !.obj = WriteObject([@ EXCEPT ![o.f] = Grow(@, o.off + PageSize)],
                                   o.f, o.off \div PageSize, o.v)]

\* The part of mapping m that shows the bytes written at file offset off.
Written(m, off) ==
    LET s == m.map.start + off - m.map.offset
    IN  [start |-> MaxOf(m.map.start, s), end |-> MinOf(m.map.end, s + PageSize)]

Affected(mc, f, off) ==
    {<<p, m>> \in UNION {{p} \X mc.vm[p].mem : p \in mc.live} :
        m.map.device = f /\ "SHARED" \in m.map.flags}

Touched(mc, f, off) ==
    {a \in Affected(mc, f, off) : Written(a[2], off).start < Written(a[2], off).end}

\* did_write of the monitor of fd: one raw record per mapping that shows the
\* bytes; the monitor dies when no mapping of the file is left.
RECURSIVE RecordTouched(_, _, _)
RecordTouched(r, S, off) ==
    IF S = {} THEN r
    ELSE LET a == CHOOSE x \in S : TRUE
         IN  RecordTouched(record_remote_fallible(r, a[1], Written(a[2], off).start, PageSize),
                           S \ {a}, off)

did_write(r, o) ==
    IF \E d \in r.mc.fds : d.fd = o.fd /\ d.mon = "live"
    THEN RecordTouched([r EXCEPT !.mc.fds =
                           {IF d.fd = o.fd /\ Affected(r.mc, o.f, o.off) = {}
                            THEN [d EXCEPT !.mon = "dead"] ELSE d : d \in @}],
                       Touched(r.mc, o.f, o.off), o.off)
    ELSE r

record_write(mc, o) == did_write(Recorded(sys_pwrite(mc, o), <<>>, <<>>), o)

record_store(mc, o) == Recorded(Store(mc, o.p, o.page, o.v), <<>>, <<>>)

record_op(mc, o) ==
    CASE o.op = "mmap" -> record_mmap(mc, o)
      [] o.op = "munmap" -> record_munmap(mc, o)
      [] o.op = "mprotect" -> record_mprotect(mc, o)
      [] o.op = "mremap" -> record_mremap(mc, o)
      [] o.op = "madvise" -> record_madvise(mc, o)
      [] o.op = "brk" -> record_brk(mc, o)
      [] o.op = "shmat" -> record_shmat(mc, o)
      [] o.op = "shmdt" -> record_shmdt(mc, o)
      [] o.op = "init_buffers" -> record_init_buffers(mc, o)
      [] o.op = "fork" -> record_fork(mc, o)
      [] o.op = "exit" -> record_exit(mc, o)
      [] o.op = "open" -> record_open(mc, o)
      [] o.op = "write" -> record_write(mc, o)
      [] o.op = "store" -> record_store(mc, o)

(***************************************************************************)
(* Replaying. r = [mc, mmaps, raw] holds the replayer and the records of   *)
(* the current frame that have not been read.                              *)
(***************************************************************************)
Unread(mc, e) == [mc |-> mc, mmaps |-> e.mmaps, raw |-> e.raw]

\* read_mapped_region(..).unwrap(), after which body goes on with the region.
Skip(r) == [r EXCEPT !.mmaps = Tail(@)]

StoreAll(mc, w) ==
    FoldSet(LAMBDA i, m : Store(m, w.p, w.page + i - 1, w.vals[i]), mc, DOMAIN w.vals)

set_data_from_trace(r) ==
    IF r.raw = <<>> THEN [r EXCEPT !.mc.ok = FALSE]
    ELSE [r EXCEPT !.mc = StoreAll(@, Head(r.raw)), !.raw = Tail(@)]

RECURSIVE apply_all_data_records_from_trace(_)
apply_all_data_records_from_trace(r) ==
    IF r.raw = <<>> THEN r ELSE apply_all_data_records_from_trace(set_data_from_trace(r))

\* The emulated file of a recorded device, grown to cover the mapping.
EmuGrow(mc, dev, n) ==
    [mc EXCEPT !.obj = [@ EXCEPT ![mc.emu[dev].id] = Grow(@, n)],
               !.emu[dev].size = n]

ensure_size(mc, dev, n) == IF mc.emu[dev].size < n THEN EmuGrow(mc, dev, n) ELSE mc

CreateEmu(mc, dev, file) ==
    [mc EXCEPT !.emu = (dev :> [id |-> EmuDevice(mc), size |-> file.size]) @@ @,
               !.obj = (EmuDevice(mc) :> file) @@ @,
               !.next = @ + 1]

get_or_create(mc, km) ==
    IF km.device \in DOMAIN mc.emu THEN ensure_size(mc, km.device, km.offset + size(km))
    ELSE CreateEmu(mc, km.device, [size |-> km.offset + size(km),
                                   data |-> Zeros((km.offset + size(km)) \div PageSize)])

MapReplay(mc, p, km, recorded, emu) ==
    [mc EXCEPT !.vm[p] = map(@, km, recorded, emu, NoStat, NoLocal)]

\* The tracee maps the file real, and rd notes it.
finish_direct_mmap(mc, p, recorded, prot, flags, real, name, off, emu) ==
    LET km == new_with_opts(recorded.start, recorded.end, name, real, prot,
                            flags \ {"ANONYMOUS"}, off)
    IN  MapReplay(sys_mmap(mc, p, km), p,
                  [km EXCEPT !.flags = flags], recorded, emu)

\* read(2) of the backing file from data_offset_bytes on, up to its end.
FileRecord(p, start, n, region) ==
    LET first == region.km.offset \div PageSize
        have == Len(region.backing.file.data) - first
    IN  [p |-> p, page |-> start \div PageSize,
         vals |-> [i \in 1 .. MinOf(n \div PageSize, MaxOf(0, have)) |->
                      region.backing.file.data[first + i]]]

write_mapped_data(r, p, start, n, region, source) ==
    CASE source = "trace" -> set_data_from_trace(r)
      [] source = "file" -> [r EXCEPT !.mc = StoreAll(@, FileRecord(p, start, n, region))]
      [] source = "zero" -> r

\* A descriptor that has its monitor already gets it revived.
MonitorEmu(mc, fds) ==
    [mc EXCEPT !.fds = {IF d.fd \in fds THEN [d EXCEPT !.mon = "live"] ELSE d : d \in @}]

finish_shared_mmap(r, p, km, prot, flags, fds, off, region, source) ==
    LET made == get_or_create(r.mc, km)
        mapped == finish_direct_mmap(made, p, km, prot, flags, made.emu[km.device].id,
                                     "emufs", off, km.device)
        restored == write_mapped_data([r EXCEPT !.mc = mapped], p, km.start, size(km),
                                      region, source)
    IN  [restored EXCEPT !.mc = MonitorEmu(@, fds)]

AnonReplayKm(km, prot, flags, off) ==
    new_with_opts(km.start, km.end, "", NO_DEVICE, prot, flags \cup {"ANONYMOUS"}, off)

finish_private_mmap(r, p, km, prot, flags, off, region, source) ==
    LET anon == AnonReplayKm(km, prot, flags, off)
    IN  write_mapped_data([r EXCEPT !.mc = MapReplay(sys_mmap(@, p, anon), p, anon, km, 0)],
                          p, km.start, size(km), region, source)

finish_anonymous_mmap(r, o, region) ==
    LET flags == FlagsOf(o.kind)
        km == region.km
        made == get_or_create(r.mc, km)
    IN  IF "SHARED" \notin flags
        THEN [r EXCEPT !.mc = LET anon == AnonReplayKm(km, o.prot, flags, 0)
                              IN  MapReplay(sys_mmap(@, o.p, anon), o.p, anon, km, 0)]
        ELSE [r EXCEPT !.mc = finish_direct_mmap(made, o.p, km, o.prot, flags,
                                                 made.emu[km.device].id, "emufs", 0, km.device)]

WithBacking(mc, b) == [mc EXCEPT !.obj = (b.id :> b.file) @@ @]

\* What is left of a file mapping beyond the part mapped directly.
FinishMapping(r, o, km, region, source) ==
    IF size(km) = 0 THEN r
    ELSE IF "SHARED" \in FlagsOf(o.kind)
    THEN finish_shared_mmap(r, o.p, km, o.prot, FlagsOf(o.kind),
                            region.extra_fds \cup (IF region.skip THEN {} ELSE {o.fd}),
                            km.offset, region, source)
    ELSE [finish_private_mmap(r, o.p, km, o.prot, FlagsOf(o.kind), km.offset, region, source)
             EXCEPT !.mc.ok = @ /\ region.extra_fds = {}]

replay_file_mmap(r, o, region) ==
    LET km == region.km
        n == MinOf(ceil_page_size(region.size) - km.offset, size(km))
        direct == subrange(km, km.start, km.start + n)
    IN  IF region.source = "file" /\ region.size > km.offset
        THEN FinishMapping(
                [r EXCEPT !.mc = finish_direct_mmap(WithBacking(@, region.backing), o.p, direct,
                                                    o.prot, FlagsOf(o.kind), region.backing.id,
                                                    "backing", km.offset, 0)],
                o, subrange(km, direct.end, km.end), region, "zero")
        ELSE FinishMapping(r, o, km, region, region.source)

replay_mmap(r, o) ==
    apply_all_data_records_from_trace(
        IF "ANONYMOUS" \in FlagsOf(o.kind)
        THEN finish_anonymous_mmap(Skip(r), o, Head(r.mmaps))
        ELSE replay_file_mmap(Skip(r), o, Head(r.mmaps)))

\* munmap and mprotect are executed again, madvise only for MADV_DONTNEED.
replay_munmap(r, o) == [r EXCEPT !.mc = record_munmap(@, o).mc]

replay_mprotect(r, o) == [r EXCEPT !.mc = record_mprotect(@, o).mc]

replay_madvise(r, o) ==
    [r EXCEPT !.mc = [(IF o.advice = "DONTNEED" THEN sys_madvise(@, o.p, Range1(o), o.advice)
                       ELSE @) EXCEPT !.vm[o.p] = advise(@, o.addr, o.len, o.advice)]]

replay_brk(r, o) ==
    LET km == Head(r.mmaps).km
        heap == [km EXCEPT !.flags = @ \cup {"ANONYMOUS"}]
    IN  IF km.flags # {}
        THEN [Skip(r) EXCEPT !.mc = MapReplay(sys_mmap(@, o.p, [heap EXCEPT !.fsname = ""]),
                                              o.p, heap, km, 0)]
        ELSE IF size(km) > 0
        THEN [Skip(r) EXCEPT !.mc = [sys_munmap(@, o.p, km) EXCEPT
                                        !.vm[o.p] = unmap(@, km.start, size(km))]]
        ELSE Skip(r)

\* The part of the range that was mapped from a file becomes anonymous memory
\* with the same contents.
AnonymousCopy(mc, p, m) ==
    LET km == new_with_opts(m.map.start, m.map.end, "", NO_DEVICE, m.map.prot,
                            m.map.flags \cup {"ANONYMOUS"}, 0)
    IN  [mc EXCEPT !.pg[p] = [n \in PagesOf(km) |->
                                 [KernelPage(mc.obj, km, n) EXCEPT !.v = Value(mc, p, n)]] @@ @,
                   !.vm[p].mem = (@ \ {m}) \cup {Mapping(km, m.recorded_map, 0, NoStat, NoLocal, {})}]

Fixable(m) ==
    m.local_addr = NoLocal /\ "PRIVATE" \in m.map.flags /\ m.emu_file = 0 /\ m.flags = {}

FixMapping(mc, p, m, range) ==
    IF m.map.start = range.start /\ m.map.end = range.end THEN mc
    ELSE IF "ANONYMOUS" \in m.map.flags THEN [mc EXCEPT !.ok = @ /\ Fixable(m)]
    ELSE [AnonymousCopy(mc, p, m) EXCEPT !.ok = @ /\ Fixable(m)]

CoalesceRange(mc, p, range) ==
    [mc EXCEPT !.vm[p] = IF mapping_of(@, range.start) = {} THEN @
                         ELSE coalesce_around(@, The(mapping_of(@, range.start)))]

ensure_replay_matches_single_recorded_mapping(mc, p, range) ==
    CoalesceRange(FoldSet(LAMBDA m, x : FixMapping(x, p, m, range), mc,
                          IterateDefault(mc.vm[p].mem, range)), p, range)

\* The moved and grown mapping no longer fits its backing file.
ReplaceByAnonymous(mc, o, m) ==
    LET km == new_with_opts(o.new, o.new + ceil_page_size(o.newlen), "", NO_DEVICE, m.map.prot,
                            {"ANONYMOUS", "PRIVATE"}, m.map.offset)
        kept == (o.new \div PageSize) .. ((o.new + ceil_page_size(o.len)) \div PageSize - 1)
    IN  [mc EXCEPT
            !.pg[o.p] = [n \in PagesOf(km) |->
                            [KernelPage(mc.obj, km, n) EXCEPT
                                !.v = IF n \in kept THEN Value(mc, o.p, n) ELSE 0]] @@ @,
            !.vm[o.p] = map(unmap(@, km.start, size(km)), km, m.recorded_map, 0, NoStat, NoLocal)]

\* Mutant: the emulated file keeps its size.
FitNoResize(mc, o, m) == mc

FitMapping(mc, o, m) ==
    IF m.emu_file # 0
    THEN ensure_size(mc, m.emu_file, m.map.offset + ceil_page_size(o.newlen))
    ELSE IF ceil_page_size(o.newlen) <= ceil_page_size(o.len) \/ m.map.fsname = "" THEN mc
    ELSE IF m.map.device = NO_DEVICE THEN [mc EXCEPT !.ok = FALSE]
    ELSE IF ceil_page_size(mc.obj[m.map.device].size) < m.map.offset + ceil_page_size(o.newlen)
    THEN ReplaceByAnonymous(mc, o, m)
    ELSE mc

RestoreGrown(r, o, region, m) ==
    IF region.source # "file" \/ m.emu_file # 0 \/ m.map.fsname = ""
    THEN write_mapped_data(r, o.p, o.new + ceil_page_size(o.len),
                           ceil_page_size(o.newlen) - ceil_page_size(o.len), region, region.source)
    ELSE r

RemapReplay(mc, o) ==
    [sys_mremap(mc, o.p, Range1(o), new_range(o.new, ceil_page_size(o.newlen))) EXCEPT
        !.vm[o.p] = remap(@, o.addr, ceil_page_size(o.len), o.new, ceil_page_size(o.newlen))]

MappingAt(mc, o) == The(mapping_of(mc.vm[o.p], o.new))

Refit(mc, o) == FitMapping(mc, o, MappingAt(mc, o))

FinishRemap(r, o) ==
    IF r.mmaps = <<>> THEN r
    ELSE RestoreGrown(Skip(r), o, Head(r.mmaps), MappingAt(r.mc, o))

replay_mremap(r, o) ==
    FinishRemap([Skip(r) EXCEPT
        !.mc = Refit(RemapReplay(
                    ensure_replay_matches_single_recorded_mapping(
                        [@ EXCEPT !.ok = @ /\ Head(r.mmaps).source = "zero"],
                        o.p, Range1(o)), o), o)], o)

replay_shmat(r, o) ==
    LET km == Head(r.mmaps).km
        done == finish_shared_mmap(Skip(r), o.p, km, o.prot, {"SHARED"}, {}, 0,
                                   Head(r.mmaps), Head(r.mmaps).source)
    IN  apply_all_data_records_from_trace(
            [done EXCEPT !.mc.vm[o.p] = set_shm_size(@, km.start, size(km))])

replay_shmdt(r, o) == [r EXCEPT !.mc = record_shmdt(@, o).mc]

replay_init_buffers(r, o) ==
    [Skip(r) EXCEPT !.mc = MarkBuffer(create_shared_mmap(@, o, BufferKm(@, o)), o.p, o.addr)]

\* MADV_DONTFORK was not executed, so the child's areas are unmapped by hand.
UnmapDontFork(mc, q, ranges) ==
    FoldSet(LAMBDA a, m : sys_munmap(m, q, a), mc, ranges)

replay_fork(r, o) ==
    [r EXCEPT !.mc = UnmapDontFork(record_fork(@, o).mc, o.child, r.mc.vm[o.p].dont_fork)]

replay_exit(r, o) == [r EXCEPT !.mc = record_exit(@, o).mc]

\* Only descriptors the recorder noted get a monitor.
handle_opened_files(r, o, opened) ==
    [r EXCEPT !.mc.fds = @ \cup {[fd |-> o.fd, f |-> o.f, w |-> o.w,
                                  mon |-> IF opened THEN "live" ELSE "none"]},
              !.mc.ok = @ /\ (opened => o.f \in DOMAIN r.mc.emu)]

EmuAffected(mc, f) ==
    {m \in UNION {mc.vm[p].mem : p \in mc.live} : m.emu_file = f}

did_write_replay(mc, o) ==
    LET hit == {m \in EmuAffected(mc, o.f) : Written(m, o.off).start < Written(m, o.off).end}
        sized == IF hit = {} THEN mc ELSE ensure_size(mc, o.f, o.off + PageSize)
    IN  IF \E d \in mc.fds : d.fd = o.fd /\ d.mon = "live"
        THEN [sized EXCEPT !.fds = {IF d.fd = o.fd /\ EmuAffected(mc, o.f) = {}
                                    THEN [d EXCEPT !.mon = "dead"] ELSE d : d \in @}]
        ELSE mc

replay_write(r, o) ==
    apply_all_data_records_from_trace([r EXCEPT !.mc = did_write_replay(@, o)])

replay_store(r, o) == [r EXCEPT !.mc = Store(@, o.p, o.page, o.v)]

\* A replayer that would unwrap a missing record stops.
NeedsRegion(o) == o.op \in {"mmap", "mremap", "brk", "shmat", "init_buffers"}

replay_op(r, e) ==
    CASE NeedsRegion(e.o) /\ r.mmaps = <<>> -> [r EXCEPT !.mc.ok = FALSE]
      [] e.o.op = "mmap" /\ r.mmaps # <<>> -> replay_mmap(r, e.o)
      [] e.o.op = "munmap" -> replay_munmap(r, e.o)
      [] e.o.op = "mprotect" -> replay_mprotect(r, e.o)
      [] e.o.op = "mremap" /\ r.mmaps # <<>> -> replay_mremap(r, e.o)
      [] e.o.op = "madvise" -> replay_madvise(r, e.o)
      [] e.o.op = "brk" /\ r.mmaps # <<>> -> replay_brk(r, e.o)
      [] e.o.op = "shmat" /\ r.mmaps # <<>> -> replay_shmat(r, e.o)
      [] e.o.op = "shmdt" -> replay_shmdt(r, e.o)
      [] e.o.op = "init_buffers" /\ r.mmaps # <<>> -> replay_init_buffers(r, e.o)
      [] e.o.op = "fork" -> replay_fork(r, e.o)
      [] e.o.op = "exit" -> replay_exit(r, e.o)
      [] e.o.op = "open" -> handle_opened_files(r, e.o, e.opened)
      [] e.o.op = "write" -> replay_write(r, e.o)
      [] e.o.op = "store" -> replay_store(r, e.o)

\* An EmuFile lives as long as a mapping refers to it.
DropEmu(mc) ==
    [mc EXCEPT !.emu = Restrict(@, {d \in DOMAIN @ : \E p \in Procs :
                                       \E m \in mc.vm[p].mem : m.emu_file = d})]

(***************************************************************************)
(* Cloning a replay session.                                               *)
(***************************************************************************)
NeedsRemap(mc, m) ==
    /\ m.flags = {} /\ m.local_addr = NoLocal
    /\ "SHARED" \in m.recorded_map.flags
    /\ m.recorded_map.device \in DOMAIN mc.emu

\* Mutant: the clone uses the emulated file of the original session.
CloneSharesFile(mc, src, dev) == [mc EXCEPT !.emu = (dev :> src.emu[dev]) @@ @]

\* The emulated file of the new session: a copy of the one src has.
clone_file(mc, src, dev) ==
    IF dev \in DOMAIN mc.emu THEN mc ELSE CreateEmu(mc, dev, mc.obj[src.emu[dev].id])

RemapTo(mc, p, m) ==
    LET km == [m.map EXCEPT !.device = mc.emu[m.recorded_map.device].id]
    IN  MapReplay(sys_mmap(sys_munmap(mc, p, m.map), p, km), p, km, m.recorded_map,
                  m.recorded_map.device)

remap_shared_mmap(mc, src, p, m) == RemapTo(clone_file(mc, src, m.recorded_map.device), p, m)

RemapShared(mc, src, p) ==
    FoldSet(LAMBDA m, x : remap_shared_mmap(x, src, p, m), mc,
            {m \in mc.vm[p].mem : NeedsRemap(src, m)})

\* A buffer shared with rd: a new segment at its address with its contents.
recreate_shared_mmap(mc, p, m) ==
    LET km == [m.map EXCEPT !.device = BufferDevice(mc)]
        made == [sys_mmap(NewObject(mc, km), p, km) EXCEPT
                    !.vm[p] = map(@, km, km, 0, NoStat, <<km.device, 0>>)]
    IN  MarkBuffer([made EXCEPT !.obj = [@ EXCEPT ![km.device] = mc.obj[m.map.device]]],
                   p, km.start)

RecreateBuffers(mc, p) ==
    FoldSet(LAMBDA m, x : recreate_shared_mmap(x, p, m), mc,
            {m \in mc.vm[p].mem : "IS_SYSCALLBUF" \in m.flags})

\* Every process is forked, without its emulated files.
ForkAll(mc) ==
    [mc EXCEPT !.vm = [p \in Procs |-> IF p \in mc.live THEN new_after_fork_or_session_clone(@[p])
                                       ELSE @[p]],
               !.emu = <<>>]

copy_state_to_session(mc) ==
    FoldSet(LAMBDA p, x : RecreateBuffers(RemapShared(x, mc, p), p), ForkAll(mc), mc.live)

(***************************************************************************)
(* The system.                                                             *)
(***************************************************************************)
Free(mc, p, r) == PagesOf(r) \cap DOMAIN mc.pg[p] = {}

IsBuffer(mc, p, n) ==
    \E m \in mc.vm[p].mem : "IS_SYSCALLBUF" \in m.flags /\ n \in PagesOf(m.map)

\* The kernel completes the call, and rd's own buffers are left alone.
Possible(mc, o) ==
    /\ o.p \in mc.live
    /\ o.op \in {"mmap", "munmap", "mprotect", "madvise"} =>
          \A n \in PagesOf(Range1(o)) : ~IsBuffer(mc, o.p, n)
    /\ CASE o.op = "mmap" -> o.kind \in {"private", "shared"} => \E d \in mc.fds : d.fd = o.fd
         [] o.op = "munmap" -> ~Free(mc, o.p, Range1(o))
         [] o.op = "mprotect" -> o.addr \div PageSize \in DOMAIN mc.pg[o.p]
         [] o.op = "madvise" -> PagesOf(Range1(o)) \subseteq DOMAIN mc.pg[o.p]
         [] o.op = "mremap" ->
              /\ OneVma(mc, o.p, Range1(o))
              /\ PagesOf(new_range(o.new, ceil_page_size(o.newlen))) \cap DOMAIN mc.pg[o.p]
                    \subseteq (IF o.new = o.addr THEN PagesOf(Range1(o)) ELSE {})
         [] o.op = "brk" -> /\ o.addr # mc.vm[o.p].brk_end
                           /\ Free(mc, o.p, [start |-> ceil_page_size(mc.vm[o.p].brk_end),
                                             end |-> ceil_page_size(o.addr)])
         [] o.op = "shmat" -> Free(mc, o.p, ShmKm(o))
         [] o.op = "shmdt" -> /\ o.addr \in DOMAIN mc.vm[o.p].shm_sizes
                             /\ PagesOf(new_range(o.addr, mc.vm[o.p].shm_sizes[o.addr]))
                                    \subseteq {n \in DOMAIN mc.pg[o.p] :
                                                  mc.pg[o.p][n].dev \in DOMAIN Shms}
         [] o.op = "init_buffers" -> Free(mc, o.p, Range1(o))
         [] o.op = "fork" -> o.child \notin mc.live /\ mc.pg[o.p] # <<>>
         [] o.op = "exit" -> mc.live # {o.p}
         [] o.op = "open" -> \A d \in mc.fds : d.fd # o.fd
         [] o.op = "write" -> /\ \E d \in mc.fds : d.fd = o.fd /\ d.w
                             /\ o.off <= PageSize * Len(mc.obj[o.f].data)
         [] o.op = "store" -> /\ o.page \in DOMAIN mc.pg[o.p]
                             /\ "w" \in mc.pg[o.p][o.page].prot
                             /\ ~IsBuffer(mc, o.p, o.page)
                             /\ Value(mc, o.p, o.page) \notin {Bus, o.v}

\* What tracees can read, outside rd's buffers.
Visible(mc) ==
    [p \in mc.live |->
        [n \in {k \in DOMAIN mc.pg[p] : Value(mc, p, k) # Bus /\ ~IsBuffer(mc, p, k)} |->
            Value(mc, p, n)]]

Event(o, r) ==
    [o |-> o, mmaps |-> r.mmaps, raw |-> r.raw,
     opened |-> \E d \in r.mc.fds : o.op = "open" /\ d.fd = o.fd /\ d.mon = "live",
     after |-> Visible(r.mc)]

Stores == Cardinality({i \in DOMAIN trace : trace[i].o.op = "store"})

Record(o) ==
    /\ pos = Len(trace) /\ Len(trace) < scen.maxOps
    /\ o.op = "store" => Stores < scen.maxStores
    /\ Possible(rec, o)
    /\ \E r \in {record_op(rec, o)} : rec' = r.mc /\ trace' = Append(trace, Event(o, r))
    /\ UNCHANGED <<scen, rep, pos, ckpt>>

\* The replayer, and in left the number of records of the frame it did not read.
ReplayEvent(r) == [DropEmu(r.mc) EXCEPT !.left = Len(r.mmaps) + Len(r.raw)]

Replay ==
    /\ pos < Len(trace)
    /\ rep' = ReplayEvent(replay_op(Unread(rep, trace[pos + 1]), trace[pos + 1]))
    /\ pos' = pos + 1
    /\ UNCHANGED <<scen, rec, trace, ckpt>>

\* Kernel objects outlive the session that made them.
Checkpoint ==
    /\ scen.checkpoints /\ ckpt = <<>> /\ pos > 0 /\ pos = Len(trace)
    /\ \E c \in {copy_state_to_session(rep)} :
          /\ ckpt' = <<c, pos>>
          /\ rep' = [rep EXCEPT !.obj = c.obj, !.next = c.next]
    /\ UNCHANGED <<scen, rec, trace, pos>>

Restore ==
    /\ ckpt # <<>> /\ pos > ckpt[2] /\ pos = Len(trace)
    /\ rep' = copy_state_to_session([ckpt[1] EXCEPT !.obj = rep.obj, !.next = rep.next])
    /\ pos' = ckpt[2]
    /\ ckpt' = <<>>
    /\ UNCHANGED <<scen, rec, trace>>

Init ==
    /\ scen \in Scenarios
    /\ rec = [NewMachine EXCEPT
                !.fds = scen.fds,
                !.obj = [f \in DOMAIN Files |-> Files[f].file]
                        @@ [f \in DOMAIN Shms |-> [size |-> Shms[f], data |-> Zeros(Shms[f] \div PageSize)]]]
    /\ trace = <<>>
    /\ rep = [NewMachine EXCEPT !.fds = scen.fds]
    /\ pos = 0
    /\ ckpt = <<>>

Next == (\E o \in scen.ops : Record(o)) \/ Replay \/ Checkpoint \/ Restore

Spec == Init /\ [][Next]_vars

(***************************************************************************)
(* Properties.                                                             *)
(***************************************************************************)
\* The cached address space of every process agrees with the segments the
\* kernel reports, for recorder and replayer (AddressSpace::verify).
VerifyOK ==
    \A mc \in {rec, rep} : \A p \in mc.live : verify(mc.vm[p], KernelMaps(mc, p))

\* No ed_assert of the mapping code fails, no record is missing, and no write
\* goes to memory the tracee does not have.
AssertionsOK ==
    /\ \A mc \in {rec, rep} : mc.ok /\ \A p \in Procs : mc.vm[p].ok
    /\ \A mc \in {rec, rep} : \A p \in mc.live : \A a, b \in mc.vm[p].mem :
          a = b \/ ~intersects(a.map, b.map)

\* A replayed event reads exactly the records its frame has.
RecordsConsumed == rep.left = 0

\* Whatever the replayer has executed, the tracee reads what it read when it
\* was recorded, in every process.
ContentsReproduced ==
    pos > 0 =>
        LET want == trace[pos].after
        IN  /\ rep.live = DOMAIN want
            /\ \A p \in rep.live : \A n \in DOMAIN want[p] :
                  n \in DOMAIN rep.pg[p] /\ Value(rep, p, n) = want[p][n]

\* Every page as the recording's /proc/pid/maps had it.
PagesIn(kms) ==
    UNION {{[page |-> n, prot |-> k.prot, shared |-> "SHARED" \in k.flags, device |-> k.device] :
               n \in PagesOf(k)} : k \in kms}

\* recorded_map of the replayer's mappings is what the recorder had mapped:
\* the pages, their protection and the files they belong to.
RecordedMapsReproduced ==
    pos = Len(trace) =>
        \A p \in rep.live :
            PagesIn({m.map : m \in {x \in rec.vm[p].mem : x.flags = {}}})
            = PagesIn({m.recorded_map : m \in {x \in rep.vm[p].mem : x.flags = {}}})

\* rd keeps exactly the local mappings of the buffers its mappings name, so
\* none is leaked or used after its munmap.
LocalMappingsOwned ==
    \A mc \in {rec, rep} : \A p \in Procs :
        mc.vm[p].local = UNION {LocalPages(m.local_addr, 0, size(m.map)) : m \in mc.vm[p].mem}

\* A shared mapping of the replayer never extends beyond its emulated file.
EmuFileCovers ==
    \A p \in rep.live : \A m \in rep.vm[p].mem :
        m.emu_file # 0 => /\ m.emu_file \in DOMAIN rep.emu
                          /\ m.map.device = rep.emu[m.emu_file].id
                          /\ m.map.offset + size(m.map) <= ceil_page_size(rep.emu[m.emu_file].size)
=============================================================================
