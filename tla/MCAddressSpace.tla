--------------------------- MODULE MCAddressSpace ---------------------------
(***************************************************************************)
(* Address spaces, for TLC.  A behaviour records and replays the memory    *)
(* calls of a scenario (Mmap), each a set of calls tracees may make in any *)
(* order and any number of times; in the scenario Debugged a debugger sets *)
(* breakpoints and watchpoints in one replayed address space (Watchpoints).*)
(***************************************************************************)
EXTENDS Mmap

VARIABLES mem, truth, bps, wps, dr, asked, refused, due, allowed, quiet, steps

debug_vars == <<mem, truth, bps, wps, dr, asked, refused, due, allowed, quiet, steps>>

(* Breakpoints are on the first page, the watched ranges beside them and   *)
(* across the page boundary; one range needs three registers, so that the  *)
(* four can run out.                                                       *)
W(start, size_, type) == [start |-> start, size |-> size_, type |-> type]

MCWatches == {W(3, 1, "exec"), W(3, 1, "write"), W(5, 6, "write"), W(5, 2, "readwrite"), W(3, 0, "write")}
MCRecords == {[addr |-> 0, data |-> <<1, 0>>], [addr |-> 1, data |-> <<1, 1, 1>>], [addr |-> 7, data |-> <<1, 255>>]}

WP == INSTANCE Watchpoints WITH
          Tasks <- {"t1", "t2"}, BpAddrs <- {1}, Watches <- MCWatches, Records <- MCRecords,
          StoreAddrs <- {3, 6}, MaxRefs <- 1, MaxSteps <- 6

\* Regular, readable files: a system library that cannot be cloned, a data
\* file, a data file on a file system with reflinks, one on tmpfs.
MCFile(name, exe, root, clone, tmp, data) ==
    [name |-> name, named |-> TRUE, regular |-> TRUE, tmpfs |-> tmp, executable |-> exe,
     readable |-> TRUE, writable |-> ~root, rootOwned |-> root, cloneable |-> clone,
     file |-> [size |-> PageSize * Len(data), data |-> data]]

MCFiles ==
    <<MCFile("/lib", TRUE, TRUE, FALSE, FALSE, <<3, 4>>),
      MCFile("/data", FALSE, FALSE, FALSE, FALSE, <<5, 6>>),
      MCFile("/reflink", FALSE, FALSE, TRUE, FALSE, <<7, 8>>),
      MCFile("/tmp/x", FALSE, FALSE, FALSE, TRUE, <<9, 9, 9>>)>>

MCShms == 5 :> 2 * PageSize

RW == {"r", "w"}

At(n) == n * PageSize

Mmap1(p, n, len, kind, prot, f, off, fd) ==
    [op |-> "mmap", p |-> p, addr |-> At(n), len |-> len, kind |-> kind, prot |-> prot,
     f |-> f, off |-> At(off), fd |-> fd]

Call(op, p, n, len) == [op |-> op, p |-> p, addr |-> At(n), len |-> len]

Munmap(p, n, k) == Call("munmap", p, n, At(k))
Mprotect(p, n, k, prot) == [prot |-> prot] @@ Call("mprotect", p, n, At(k))
Madvise(p, n, k, a) == [advice |-> a] @@ Call("madvise", p, n, At(k))
Mremap(p, n, k, new, newk) == [new |-> At(new), newlen |-> At(newk)] @@ Call("mremap", p, n, At(k))
Brk(p, addr) == [op |-> "brk", p |-> p, addr |-> addr]
Shmat(p, n, prot) == [f |-> 5, prot |-> prot] @@ Call("shmat", p, n, 0)
Shmdt(p, n) == Call("shmdt", p, n, 0)
Buffers(p, n, k) == Call("init_buffers", p, n, At(k))
Fork(p, q) == [op |-> "fork", p |-> p, child |-> q]
Exit(p) == [op |-> "exit", p |-> p]
Open(p, fd, f, w) == [op |-> "open", p |-> p, fd |-> fd, f |-> f, w |-> w]
Write(p, fd, f, off, v) == [op |-> "write", p |-> p, fd |-> fd, f |-> f, off |-> At(off), v |-> v]
Sto(p, n, v) == [op |-> "store", p |-> p, page |-> n, v |-> v]

Fd(fd, f, w) == [fd |-> fd, f |-> f, w |-> w, mon |-> "none"]

Scenario(fds, ops, maxOps, maxStores, checkpoints) ==
    [fds |-> fds, ops |-> ops, maxOps |-> maxOps, maxStores |-> maxStores, checkpoints |-> checkpoints]

Anonymous == Scenario({},
    {Mmap1(1, 4, At(3), "anon", RW, 0, 0, 0), Mmap1(1, 7, At(1) + 1, "anon", RW, 0, 0, 0),
     Mmap1(1, 5, At(1), "anon", {"r"}, 0, 0, 0), Munmap(1, 5, 1), Munmap(1, 3, 3),
     Mprotect(1, 4, 2, {"r"}), Mprotect(1, 5, 4, RW), Mremap(1, 4, 2, 10, 3),
     Mremap(1, 5, 1, 5, 1), Mremap(1, 4, 3, 4, 2), Madvise(1, 4, 2, "DONTNEED"), Sto(1, 5, 1)},
    4, 1, FALSE)

Heap == Scenario({},
    {Brk(1, At(3) + 1), Brk(1, At(2)), Brk(1, At(5)), Mprotect(1, 2, 1, {"r"}),
     Mmap1(1, 4, At(2), "anon", RW, 0, 0, 0), Mmap1(1, 8, At(2), "stack", RW, 0, 0, 0),
     Mprotect(1, 9, 1, {"r", "growsdown"}), Sto(1, 2, 1), Munmap(1, 3, 1)},
    4, 1, FALSE)

Fork1 == Scenario({},
    {Mmap1(1, 4, At(2), "anon", RW, 0, 0, 0), Mmap1(1, 6, At(2), "shanon", RW, 0, 0, 0),
     Madvise(1, 4, 2, "DONTFORK"), Madvise(1, 4, 2, "DOFORK"), Madvise(1, 6, 2, "DONTFORK"), Fork(1, 2), Exit(1),
     Sto(1, 6, 1), Sto(2, 6, 2), Sto(2, 4, 1), Buffers(1, 10, 2)},
    5, 2, FALSE)

\* A library: mapped beyond its end, over itself, moved and grown.
Library == Scenario({Fd(3, 1, FALSE)},
    {Mmap1(1, 4, At(3), "private", {"r", "x"}, 1, 0, 3),
     Mmap1(1, 5, At(1), "private", RW, 1, 1, 3), Mmap1(1, 15, At(2), "shared", {"r"}, 1, 0, 3),
     Mmap1(1, 7, At(2), "private", {"r"}, 1, 1, 3),
     Mremap(1, 4, 2, 10, 3), Mremap(1, 5, 1, 13, 2), Mremap(1, 4, 3, 4, 2), Munmap(1, 5, 1),
     Mprotect(1, 4, 2, RW), Sto(1, 5, 1)},
    4, 1, FALSE)

\* A library whose changed pages are dropped and read again.
Reread == Scenario({Fd(3, 1, FALSE)},
    {Mmap1(1, 4, At(3), "private", RW, 1, 0, 3), Madvise(1, 5, 1, "DONTNEED"),
     Madvise(2, 4, 2, "DONTNEED"), Sto(1, 5, 1), Sto(2, 4, 2), Mprotect(1, 4, 2, {"r"}), Fork(1, 2)},
    5, 2, FALSE)

\* Private mappings of data files, written meanwhile, not grown.
Data == Scenario({Fd(3, 2, TRUE), Fd(4, 3, TRUE), Fd(5, 2, TRUE)},
    {Mmap1(1, 4, At(3), "private", RW, 2, 0, 3), Mmap1(1, 4, At(1), "private", RW, 3, 0, 4),
     Mmap1(1, 5, At(2), "private", RW, 3, 1, 4), Mremap(1, 4, 2, 10, 2), Mremap(1, 5, 1, 13, 1),
     Write(1, 3, 2, 1, 1), Write(1, 4, 3, 1, 1), Sto(1, 5, 2), Mprotect(1, 5, 1, {"r"})},
    5, 1, FALSE)

\* The same, grown and not written.
Grown == Scenario({Fd(3, 2, TRUE), Fd(4, 3, TRUE), Fd(5, 4, TRUE)},
    {Mmap1(1, 4, At(1), "private", RW, 2, 0, 3), Mmap1(1, 4, At(1), "private", RW, 3, 0, 4),
     Mmap1(1, 5, At(1), "private", RW, 3, 1, 4), Mmap1(1, 4, At(1), "shared", RW, 4, 0, 5),
     Mremap(1, 4, 1, 10, 2), Mremap(1, 4, 2, 14, 3), Mremap(1, 10, 2, 10, 4), Sto(1, 4, 2)},
    4, 1, FALSE)

\* Shared file mappings, the file written through descriptors.
Shared == Scenario({Fd(3, 4, TRUE)},
    {Mmap1(1, 4, At(2), "shared", RW, 4, 0, 3), Mmap1(1, 7, At(4), "shared", {"r"}, 4, 1, 3),
     Open(1, 4, 4, TRUE), Open(1, 5, 4, FALSE), Write(1, 3, 4, 1, 1), Write(1, 4, 4, 3, 2), Munmap(1, 4, 2),
     Munmap(1, 7, 4), Fork(1, 2), Write(2, 3, 4, 2, 3), Sto(2, 4, 4), Exit(1)},
    5, 1, FALSE)

Segments1 == Scenario({},
    {Shmat(1, 4, RW), Shmat(1, 7, {"r"}), Shmdt(1, 4), Shmdt(1, 7), Fork(1, 2), Shmat(2, 10, RW),
     Sto(1, 4, 1), Sto(2, 11, 2), Munmap(1, 5, 1), Exit(2)},
    5, 2, FALSE)

\* Checkpoints of a session with every kind of shared mapping.
Checkpoints1 == Scenario({Fd(3, 4, TRUE)},
    {Mmap1(1, 4, At(2), "shanon", RW, 0, 0, 0), Mmap1(1, 7, At(2), "shared", RW, 4, 0, 3),
     Mmap1(1, 6, At(1), "anon", RW, 0, 0, 0), Buffers(1, 10, 1), Fork(1, 2), Write(1, 3, 4, 0, 1), Mremap(1, 4, 2, 12, 3),
     Sto(1, 7, 2), Sto(1, 4, 1), Sto(2, 4, 2), Munmap(1, 7, 1)},
    4, 2, TRUE)

Debugged == Scenario({}, {}, 0, 0, FALSE)

MCScenarios ==
    {Debugged, Anonymous, Heap, Fork1, Library, Reread, Data, Grown, Shared, Segments1, Checkpoints1}

MCInit == Init /\ WP!Init

MCNext ==
    \/ scen # Debugged /\ Next /\ UNCHANGED debug_vars
    \/ scen = Debugged /\ WP!Next /\ UNCHANGED vars

MCSpec == MCInit /\ [][MCNext]_<<vars, debug_vars>>

\* No assertion of the mapping code fails and no mappings overlap
\* (AssertionsOK), a replayed event reads exactly its records
\* (RecordsConsumed), local mappings of buffers are neither leaked nor used
\* after they are gone (LocalMappingsOwned), a shared mapping never extends
\* beyond its emulated file (EmuFileCovers), and recorded_map is what the
\* recorder had mapped (RecordedMapsReproduced).
MappingsSound ==
    AssertionsOK /\ RecordsConsumed /\ LocalMappingsOwned /\ EmuFileCovers /\ RecordedMapsReproduced

\* What the debugger reads with the original bytes put back is the memory of
\* the program nobody debugs, and int3 is exactly where a breakpoint is set.
DebuggerSeesProgram == WP!DebuggerSeesProgram

\* Every task has the debug registers the granted watchpoints need and no
\* others, a watched change or access is on record until it is consumed, and
\* only what changed, was read or was executed is reported.
WatchesExact == WP!TypeOK /\ WP!EveryTaskArmed /\ WP!NothingMissed /\ WP!NothingInvented
=============================================================================
