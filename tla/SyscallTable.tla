---------------------------- MODULE SyscallTable ----------------------------
(***************************************************************************)
(* What rec_prepare_syscall_arch decides for each system call: the memory  *)
(* parameters it registers and in which order, whether other tasks may run *)
(* meanwhile, which argument it invalidates so that the kernel refuses the *)
(* call, whether the call is replaced by another one, which result is      *)
(* emulated and which error is expected.  A table is a function from a     *)
(* command (or a case the code distinguishes) to a plan.                   *)
(***************************************************************************)
EXTENDS Naturals, Sequences, TLC

(* ParamSize: a constant, the result of the call, or a length that the     *)
(* kernel stores in word `word' of the buffer of parameter number `at'.    *)
Fixed == [src |-> "fixed", at |-> 0, word |-> 0]
FromResult == [src |-> "result", at |-> 0, word |-> 0]
FromWord(j, w) == [src |-> "mem", at |-> j, word |-> w]
FromMem(j) == FromWord(j, 1)

(* reg_parameter: the buffer's address is in argument register r.          *)
Reg(r, mode, size) ==
    [reg |-> r, at |-> 0, mode |-> mode, size |-> size, mutator |-> FALSE]

(* mem_ptr_parameter: its address is in the buffer of parameter j (0: in   *)
(* memory that is no parameter).                                           *)
Mem(j, mode, size) ==
    [reg |-> 0, at |-> j, mode |-> mode, size |-> size, mutator |-> FALSE]

OutReg(r) == Reg(r, "Out", Fixed)
InOutReg(r) == Reg(r, "InOut", Fixed)

(* protect_rd_sigs(_sa_mask): an input mask that must not block the        *)
(* signals rd needs.                                                       *)
Mask(p) == [p EXCEPT !.mutator = TRUE]

Plan(params, sw) ==
    [params |-> params, sw |-> sw, disabled |-> 0, hijacked |-> FALSE,
     emulated |-> FALSE, expect |-> FALSE, after |-> FALSE, rd_writes |-> "no"]

PreventPlan(params) == Plan(params, "PreventSwitch")
AllowPlan(params) == Plan(params, "AllowSwitch")
Plain == PreventPlan(<<>>)
Blocking == AllowPlan(<<>>)
Expect == [Plain EXCEPT !.expect = TRUE]
Invalidate(r, plan) == [plan EXCEPT !.disabled = r]
Emulate(plan) == [plan EXCEPT !.emulated = TRUE]
Refuse(r) == Emulate(Invalidate(r, Plain))
Hijack(plan) == [plan EXCEPT !.hijacked = TRUE]
After(plan) == [plan EXCEPT !.after = TRUE]
RdWrites(when, plan) == [plan EXCEPT !.rd_writes = when]

Same(ops, plan) == [op \in ops |-> plan]

-----------------------------------------------------------------------------
(* Processes, memory, signals.                                             *)

ArchPrctl ==
    Same({"SET_FS", "SET_GS"}, Plain)
    @@ Same({"GET_FS", "GET_GS"}, PreventPlan(<<OutReg(2)>>))
    @@ Same({"SET_CPUID", "GET_CPUID"}, Refuse(1))
    @@ Same({"SET_CPUID_unfaulted", "GET_CPUID_unfaulted"}, Plain)
    @@ Same({"unknown"}, Expect)

Prctl ==
    Same({"GET_CHILD_SUBREAPER", "GET_ENDIAN", "GET_FPEMU", "GET_FPEXC", "GET_PDEATHSIG",
          "GET_UNALIGN", "GET_NAME"}, PreventPlan(<<OutReg(2)>>))
    @@ Same({"GET_KEEPCAPS", "SET_NAME", "CAPBSET_READ", "SET_THP_DISABLE",
             "SET_NO_NEW_PRIVS", "SET_DUMPABLE_1", "SET_SECCOMP_STRICT",
             "SET_SECCOMP_FILTER_by_rd"}, Plain)
    @@ Same({"GET_DUMPABLE", "GET_SECCOMP"}, Emulate(Plain))
    @@ Same({"SET_DUMPABLE_0", "SET_TSC", "SET_PTRACER"}, Refuse(1))
    @@ Same({"GET_TSC"}, RdWrites("prepare",
             Emulate(Invalidate(1, PreventPlan(<<Reg(2, "InOutNoScratch", Fixed)>>)))))
    @@ Same({"SET_SECCOMP_FILTER"}, Invalidate(1, Plain))
    @@ Same({"unknown", "SET_NO_NEW_PRIVS_0", "SET_SECCOMP_unknown"}, Expect)

Futex ==
    Same({"WAIT", "WAIT_BITSET"}, Blocking)
    @@ Same({"CMP_REQUEUE", "WAKE_OP"}, PreventPlan(<<Reg(5, "InOutNoScratch", Fixed)>>))
    @@ Same({"WAKE", "WAKE_BITSET"}, Plain)
    @@ Same({"LOCK_PI", "UNLOCK_PI", "TRYLOCK_PI", "CMP_REQUEUE_PI", "WAIT_REQUEUE_PI"},
            Refuse(2))
    @@ Same({"unknown"}, Expect)

(* prepare_mmap_register_params rewrites the address hint and the flags.   *)
Mmap ==
    Same({"struct_arguments"}, Plain)
    @@ Same({"chaos_hint"}, Invalidate(1, Plain))
    @@ Same({"register_arguments"}, Invalidate(4, Plain))

Madvise ==
    Same({"NORMAL", "WILLNEED", "DONTNEED", "REMOVE", "DODUMP"}, Plain)
    @@ Same({"FREE"}, Invalidate(3, Plain))
    @@ Same({"unknown"}, Expect)

(* A wait that can be answered at once from an emulated stop is made to    *)
(* fail and answered by rd; a wait for an emulated ptrace child by its tid *)
(* becomes pause().                                                        *)
Wait(params, options) ==
    Same({"emulated"}, RdWrites("process", Invalidate(options, PreventPlan(params))))
    @@ Same({"paused"}, Hijack(AllowPlan(params)))
    @@ Same({"real"}, AllowPlan(params))
Waitpid == Wait(<<InOutReg(2)>>, 3)
Wait4 == Wait(<<InOutReg(2), OutReg(4)>>, 3)
Waitid == Wait(<<InOutReg(3)>>, 4)

Seccomp ==
    Same({"SET_MODE_STRICT"}, Plain)
    @@ Same({"SET_MODE_FILTER"}, Invalidate(1, Plain))
    @@ Same({"unknown"}, Expect)

Personality ==
    Same({"query", "PER_LINUX"}, Plain) @@ Same({"unknown"}, Expect)

Keyctl ==
    Same({"GET_KEYRING_ID", "UPDATE", "REVOKE", "INVALIDATE"}, Plain)
    @@ Same({"DESCRIBE", "READ", "GET_SECURITY", "DH_COMPUTE"},
            PreventPlan(<<Reg(3, "Out", FromResult)>>))
    @@ Same({"unknown"}, Expect)

Quotactl ==
    Same({"GETQUOTA", "GETINFO", "GETFMT"}, PreventPlan(<<OutReg(4)>>))
    @@ Same({"QUOTAON", "QUOTAOFF", "SETINFO", "SYNC", "unknown"}, Plain)

Sysfs ==
    Same({"1", "3", "2_unreadable"}, Plain)
    @@ Same({"2"}, PreventPlan(<<OutReg(3)>>))
    @@ Same({"unknown"}, Expect)

prepare_bpf ==
    Same({"MAP_CREATE", "MAP_UPDATE_ELEM", "MAP_DELETE_ELEM"}, Plain)
    @@ Same({"PROG_LOAD"}, PreventPlan(<<Reg(2, "In", Fixed), Mem(1, "Out", Fixed)>>))
    @@ Same({"unknown"}, Expect)

-----------------------------------------------------------------------------
(* Files.                                                                  *)

Fcntl ==
    Same({"emulated", "SETFD_rd_fd"}, Refuse(1))
    @@ Same({"DUPFD", "GETFD", "GETFL", "SETFL", "SETLK", "SETOWN", "SETSIG", "ADD_SEALS",
             "SETFD"}, Plain)
    @@ Same({"GETLK", "OFD_GETLK", "GETLK64"}, PreventPlan(<<InOutReg(3)>>))
    @@ Same({"GETOWN_EX", "GET_RW_HINT", "GET_FILE_RW_HINT"}, PreventPlan(<<OutReg(3)>>))
    @@ Same({"SETLKW", "SETLKW64", "OFD_SETLKW"}, Blocking)
    @@ Same({"unknown"}, Expect)

(* close, dup2, dup3: a descriptor of rd looks closed.                     *)
RdFdCalls == Same({"rd_fd"}, Invalidate(1, Plain)) @@ Same({"other"}, Plain)

(* read, pread64.                                                          *)
Read ==
    Same({"emulated"}, Refuse(1))
    @@ Same({"real"}, AllowPlan(<<Reg(2, "Out", FromResult)>>))

(* readv, preadv: the vector, then two of its buffers.                     *)
Readv ==
    Same({"emulated"}, Emulate(Invalidate(1, PreventPlan(<<Reg(2, "In", Fixed)>>))))
    @@ Same({"real"}, AllowPlan(<<Reg(2, "In", Fixed),
                                  Mem(1, "Out", FromResult), Mem(1, "Out", FromResult)>>))

(* A length of the result, not blocking: getcwd, getdents, readlink...     *)
SizedByResult ==
    [getcwd |-> 1, getdents |-> 2, getdents64 |-> 2, readlink |-> 2, readlinkat |-> 3,
     getxattr |-> 3, lgetxattr |-> 3, fgetxattr |-> 3, listxattr |-> 2, llistxattr |-> 2,
     flistxattr |-> 2]
ResultSized == [s \in DOMAIN SizedByResult |->
    LET plan == PreventPlan(<<Reg(SizedByResult[s], "Out", FromResult)>>)
    IN  IF s \in {"getdents", "getdents64"} THEN RdWrites("process", plan) ELSE plan]

Getrandom ==
    Same({"NONBLOCK"}, PreventPlan(<<Reg(1, "Out", FromResult)>>))
    @@ Same({"blocking"}, AllowPlan(<<Reg(1, "Out", FromResult)>>))

MemfdCreate == Same({"pulseaudio"}, Refuse(1)) @@ Same({"other"}, Plain)

PerfEventOpen == Same({"virtualized"}, Hijack(Plain)) @@ Same({"other"}, Plain)

-----------------------------------------------------------------------------
(* Sockets.                                                                *)

(* prepare_recvmsg, for a msghdr that is parameter j, followed in the list *)
(* by its parameters: name, vector, one buffer of the vector, control      *)
(* data.  Word 1 of a msghdr is msg_namelen, 2 is msg_controllen, 3 (of a  *)
(* mmsghdr) is msg_len.                                                    *)
prepare_recvmsg(j, io_size) ==
    << Mem(j, "Out", FromWord(j, 1)),
       Mem(j, "In", Fixed), Mem(j + 2, "Out", io_size),
       Mem(j, "Out", FromWord(j, 2)) >>

Recvmsg == <<InOutReg(2)>> \o prepare_recvmsg(1, FromResult)
Recvmmsg == <<InOutReg(2)>> \o prepare_recvmsg(1, FromWord(1, 3))

(* MSG_DONTWAIT decides whether the call may block.                        *)
Waiting(params) == ("blocking" :> AllowPlan(params)) @@ ("DONTWAIT" :> PreventPlan(params))

(* A buffer whose length is in another argument.                           *)
Accept == AllowPlan(<<InOutReg(3), Reg(2, "Out", FromMem(1))>>)
Recvfrom == AllowPlan(<<Reg(2, "Out", FromResult), InOutReg(6), Reg(5, "Out", FromMem(2))>>)
Getsockname == PreventPlan(<<InOutReg(3), Reg(2, "Out", FromMem(1))>>)
Getsockopt == PreventPlan(<<InOutReg(5), Reg(4, "Out", FromMem(1))>>)

maybe_blacklist_connect(params) ==
    ("nscd" :> Hijack(PreventPlan(params))) @@ ("other" :> PreventPlan(params))

(* setsockopt's option buffer is no parameter, the counters it points to   *)
(* are one.                                                                *)
prepare_setsockopt(params) ==
    Same({"PACKET_RX_RING", "PACKET_TX_RING"}, Emulate(Invalidate(1, PreventPlan(params))))
    @@ Same({"SO_SET_REPLACE"}, PreventPlan(Append(params, Mem(0, "Out", Fixed))))
    @@ Same({"other"}, PreventPlan(params))

(* socketcall passes its arguments in memory: a structure in register 2.   *)
Args == Reg(2, "In", Fixed)
ArgsWithLength(sw) == Plan(<<Args, Mem(1, "InOut", Fixed), Mem(1, "Out", FromMem(2))>>, sw)
prepare_socketcall ==
    Same({"SOCKET", "BIND", "LISTEN", "SHUTDOWN", "SENDMSG_DONTWAIT"}, Plain)
    @@ Same({"SEND", "SENDTO", "SENDMSG"}, Blocking)
    @@ Same({"CONNECT"}, PreventPlan(<<Args>>))
    @@ Same({"CONNECT_nscd"}, Hijack(PreventPlan(<<Args>>)))
    @@ Same({"SETSOCKOPT"}, PreventPlan(<<Args>>))
    @@ Same({"SETSOCKOPT_RX_RING"}, Emulate(Invalidate(1, PreventPlan(<<Args>>))))
    @@ Same({"GETSOCKOPT", "GETPEERNAME", "GETSOCKNAME"}, ArgsWithLength("PreventSwitch"))
    @@ Same({"SOCKETPAIR"}, PreventPlan(<<Args, Mem(1, "Out", Fixed)>>))
    @@ Same({"RECV"}, AllowPlan(<<Args, Mem(1, "Out", FromResult)>>))
    @@ Same({"ACCEPT", "ACCEPT4"}, ArgsWithLength("AllowSwitch"))
    @@ Same({"RECVFROM"}, AllowPlan(<<Args, Mem(1, "Out", FromResult),
                                      Mem(1, "InOut", Fixed), Mem(1, "Out", FromMem(3))>>))
    @@ Same({"RECVMSG"}, AllowPlan(<<Args, Mem(1, "InOut", Fixed)>>
                                   \o prepare_recvmsg(2, FromResult)))
    @@ Same({"RECVMMSG"}, AllowPlan(<<Args, Mem(1, "InOut", Fixed)>>
                                    \o prepare_recvmsg(2, FromWord(2, 3))))
    @@ Same({"SENDMMSG"}, AllowPlan(<<Args, Mem(1, "InOut", Fixed)>>))
    @@ Same({"SENDMMSG_DONTWAIT"}, PreventPlan(<<Args, Mem(1, "InOut", Fixed)>>))
    @@ Same({"unknown"}, Expect)

-----------------------------------------------------------------------------
(* System V IPC, direct and through ipc().                                 *)

prepare_msgctl(r) ==
    Same({"IPC_STAT", "MSG_STAT", "IPC_INFO", "MSG_INFO"}, PreventPlan(<<OutReg(r)>>))
    @@ Same({"IPC_SET", "IPC_RMID"}, Plain) @@ Same({"unknown"}, Expect)

prepare_shmctl(r) ==
    Same({"IPC_SET", "IPC_RMID", "SHM_LOCK", "SHM_UNLOCK"}, Plain)
    @@ Same({"IPC_STAT", "SHM_STAT", "IPC_INFO", "SHM_INFO"}, PreventPlan(<<OutReg(r)>>))
    @@ Same({"unknown"}, Expect)

prepare_semctl(r, dereference) ==
    Same({"IPC_SET", "IPC_RMID", "GETVAL", "SETALL", "SETVAL"}, Plain)
    @@ Same({"IPC_STAT", "SEM_STAT", "IPC_INFO", "SEM_INFO", "GETALL"},
            PreventPlan(IF dereference THEN <<OutReg(r), Mem(1, "Out", Fixed)>>
                                       ELSE <<OutReg(r)>>))
    @@ Same({"unknown"}, Expect)

Ipc ==
    Same({"MSGGET", "SHMDT", "SHMGET", "SEMGET"}, Plain)
    @@ Same({"MSGSND", "SEMOP", "SEMTIMEDOP"}, Blocking)
    @@ Same({"MSGRCV"}, AllowPlan(<<Reg(5, "In", Fixed), Mem(1, "Out", Fixed)>>))
    @@ Same({"SHMAT"}, PreventPlan(<<OutReg(4)>>))
    @@ Same({"unknown"}, Expect)

-----------------------------------------------------------------------------
(* ioctl: some irregular requests, the ones without _IOC_READ, then the    *)
(* regular ones.                                                           *)
IoctlIrregular ==
    Same({"SIOCETHTOOL", "SIOCBONDINFOQUERY"},
         After(PreventPlan(<<Reg(3, "In", Fixed), Mem(1, "Out", Fixed)>>)))
    @@ Same({"SIOCGIFCONF"},
         After(PreventPlan(<<InOutReg(3), Mem(1, "Out", FromMem(1))>>)))
    @@ Same({"SIOCSIFADDR", "SIOCBRADDBR", "SIOCADDRT"}, Plain)
    @@ Same({"SIOCGIFADDR", "SIOCGIWFREQ"}, After(PreventPlan(<<OutReg(3)>>)))
    @@ Same({"SIOCGIWESSID"}, After(PreventPlan(<<InOutReg(3), Mem(1, "Out", Fixed)>>)))
    @@ Same({"SIOCGSTAMP", "TCGETS", "TIOCINQ", "TIOCGWINSZ", "TIOCGPGRP",
             "SNDRV_CTL_IOCTL_PVERSION", "HCIGETDEVINFO", "SG_GET_VERSION_NUM"},
            PreventPlan(<<OutReg(3)>>))
    @@ Same({"SG_IO"}, PreventPlan(<<InOutReg(3), Mem(1, "Out", Fixed), Mem(1, "Out", Fixed)>>))

IoctlWriteOnly ==
    Same({"TCSETS", "FIONBIO", "BTRFS_IOC_CLONE", "TUNSETQUEUE", "presumed_ignorable"}, Plain)
    @@ Same({"USBDEVFS_GETDRIVER", "TUNSETIFF"}, PreventPlan(<<OutReg(3)>>))
    @@ Same({"USBDEVFS_REAPURB", "USBDEVFS_REAPURBNDELAY"}, After(AllowPlan(<<OutReg(3)>>)))
    @@ Same({"irregular_type"}, Expect)

IoctlRegular ==
    Same({"EVIOCGBIT", "TIOCGPTN", "FS_IOC_GETFLAGS", "EVIOCGID", "JSIOCGAXES", "TUNGETIFF",
          "TUNGETFILTER"}, PreventPlan(<<OutReg(3)>>))
    @@ Same({"VIDIOC_QUERYCAP", "VIDIOC_QBUF", "VFAT_IOCTL_READDIR_BOTH"},
            PreventPlan(<<InOutReg(3)>>))
    @@ Same({"USBDEVFS_CLAIMINTERFACE", "USBDEVFS_SUBMITURB"}, Plain)
    @@ Same({"USBDEVFS_IOCTL", "USBDEVFS_CONTROL"},
            PreventPlan(<<Reg(3, "In", Fixed), Mem(1, "Out", Fixed)>>))
    @@ Same({"VIDIOC_DQBUF"}, After(AllowPlan(<<InOutReg(3)>>)))
    @@ Same({"unknown"}, Expect)

prepare_ioctl ==
    Same({"emulated"}, Refuse(1)) @@ IoctlIrregular @@ IoctlWriteOnly @@ IoctlRegular

-----------------------------------------------------------------------------
(* Calls without commands.                                                 *)

(* They store nothing, or block without storing anything.                  *)
NoOutput == {"brk", "munmap", "process_vm_readv", "process_vm_writev", "mremap", "shmat",
             "shmdt", "rdcall_notify_syscall_hook_exit"}
BlocksOnly == {"fdatasync", "fsync", "msgsnd", "msync", "open", "openat", "semop",
               "semtimedop", "sync", "sync_file_range", "syncfs"}
OtherNoOutput == Same({"mprotect", "sigreturn", "setpriority", "exit_group"}, Plain)
OtherBlocking == Same({"pause", "sched_yield", "sigsuspend", "execve", "exit", "clone"}, Blocking)

Sigprocmask == PreventPlan(<<OutReg(3), Mask(Reg(2, "In", Fixed))>>)
Sigaction == PreventPlan(<<Mask(Reg(2, "In", Fixed)), OutReg(3)>>)
ThreadArea == PreventPlan(<<InOutReg(1)>>)
InitBuffers == PreventPlan(<<InOutReg(1)>>)
Getgroups == PreventPlan(<<OutReg(2)>>)
SchedGetattr == PreventPlan(<<OutReg(2)>>)
SchedGetaffinity == RdWrites("process", PreventPlan(<<OutReg(3)>>))
Capget == PreventPlan(<<InOutReg(1), OutReg(2)>>)
Mincore == PreventPlan(<<OutReg(3)>>)
RtSigpending == PreventPlan(<<OutReg(1)>>)
GetMempolicy == PreventPlan(<<OutReg(1), OutReg(2)>>)
Sysctl == PreventPlan(<<Reg(1, "In", Fixed), Mem(1, "InOut", Fixed), Mem(1, "Out", FromMem(2))>>)

Nanosleep == AllowPlan(<<OutReg(2)>>)
ClockNanosleep == AllowPlan(<<OutReg(4)>>)
ClockNanosleepTime64 == AllowPlan(<<OutReg(4)>>)
Splice == AllowPlan(<<InOutReg(2), InOutReg(4)>>)
CopyFileRange == AllowPlan(<<InOutReg(2), InOutReg(4)>>)
Sendfile == AllowPlan(<<InOutReg(3)>>)
Poll == AllowPlan(<<InOutReg(1)>>)
Ppoll == AllowPlan(<<InOutReg(3), Mask(Reg(4, "In", Fixed)), InOutReg(1)>>)
Select == AllowPlan(<<InOutReg(2), InOutReg(3), InOutReg(4), InOutReg(5)>>)
SelectStruct == AllowPlan(<<Reg(1, "In", Fixed)>> \o [i \in 1..4 |-> Mem(1, "InOut", Fixed)])
Pselect6 == AllowPlan(<<InOutReg(2), InOutReg(3), InOutReg(4), InOutReg(5),
                        Reg(6, "In", Fixed), Mask(Mem(5, "In", Fixed))>>)
EpollWait == AllowPlan(<<OutReg(2)>>)
MqTimedreceive == AllowPlan(<<Reg(2, "Out", FromResult), OutReg(4)>>)
ModifyLdt == ("read" :> AllowPlan(<<Reg(2, "Out", FromResult)>>)) @@ ("write" :> Blocking)
NameToHandleAt == AllowPlan(<<OutReg(3), OutReg(4)>>)
RtSigtimedwait == AllowPlan(<<OutReg(2)>>)
Msgrcv == AllowPlan(<<OutReg(2)>>)

IoSetup == Refuse(2)
SchedSetaffinity == Refuse(1)
InitPreload == Emulate(Plain)
Unknown == Expect

Single ==
    Same(NoOutput, Plain) @@ Same(BlocksOnly, Blocking) @@ OtherNoOutput @@ OtherBlocking
    @@ ResultSized
    @@ [sigprocmask |-> Sigprocmask, sigaction |-> Sigaction, set_thread_area |-> ThreadArea,
        rdcall_init_buffers |-> InitBuffers, getgroups |-> Getgroups,
        sched_getattr |-> SchedGetattr, sched_getaffinity |-> SchedGetaffinity,
        capget |-> Capget, mincore |-> Mincore, rt_sigpending |-> RtSigpending,
        get_mempolicy |-> GetMempolicy, sysctl |-> Sysctl, nanosleep |-> Nanosleep,
        clock_nanosleep |-> ClockNanosleep, clock_nanosleep_time64 |-> ClockNanosleepTime64,
        splice |-> Splice, copy_file_range |-> CopyFileRange, sendfile |-> Sendfile,
        poll |-> Poll, ppoll |-> Ppoll, select |-> Select, select_struct |-> SelectStruct,
        pselect6 |-> Pselect6, epoll_wait |-> EpollWait, mq_timedreceive |-> MqTimedreceive,
        name_to_handle_at |-> NameToHandleAt, rt_sigtimedwait |-> RtSigtimedwait,
        msgrcv |-> Msgrcv, accept |-> Accept, recvfrom |-> Recvfrom,
        getsockname |-> Getsockname, getsockopt |-> Getsockopt, io_setup |-> IoSetup,
        sched_setaffinity |-> SchedSetaffinity, rdcall_init_preload |-> InitPreload,
        negative |-> Unknown, unknown |-> Unknown]

(* rec_prepare_syscall_arch: from the call and the case to the plan.       *)
Table ==
    [s \in DOMAIN Single |-> ("call" :> Single[s])]
    @@ [arch_prctl |-> ArchPrctl, prctl |-> Prctl, futex |-> Futex, mmap |-> Mmap, modify_ldt |-> ModifyLdt,
        madvise |-> Madvise,
        waitpid |-> Waitpid, wait4 |-> Wait4, waitid |-> Waitid,
        seccomp |-> Seccomp, personality |-> Personality, keyctl |-> Keyctl,
        quotactl |-> Quotactl, sysfs |-> Sysfs, bpf |-> prepare_bpf, fcntl |-> Fcntl,
        close |-> RdFdCalls, dup2 |-> RdFdCalls, read |-> Read, readv |-> Readv,
        getrandom |-> Getrandom, memfd_create |-> MemfdCreate,
        perf_event_open |-> PerfEventOpen, recvmsg |-> Waiting(Recvmsg),
        recvmmsg |-> Waiting(Recvmmsg), sendmmsg |-> Waiting(<<InOutReg(2)>>),
        sendto |-> Waiting(<<>>), connect |-> maybe_blacklist_connect(<<>>),
        setsockopt |-> prepare_setsockopt(<<>>), socketcall |-> prepare_socketcall,
        msgctl |-> prepare_msgctl(3), shmctl |-> prepare_shmctl(3),
        semctl |-> prepare_semctl(4, FALSE), ipc |-> Ipc,
        ipc_msgctl |-> prepare_msgctl(5), ipc_shmctl |-> prepare_shmctl(5),
        ipc_semctl |-> prepare_semctl(5, TRUE), ioctl |-> prepare_ioctl]

Calls == UNION {{[sys |-> s, op |-> op] : op \in DOMAIN Table[s]} : s \in DOMAIN Table}

PlanOf(c) == Table[c.sys][c.op]

-----------------------------------------------------------------------------
(* The argument registers that rec_process_syscall_arch sets back from     *)
(* syscall_entry_registers, and the calls whose number it sets back.       *)
RestoresFirstThree ==
    {"close", "dup2", "fcntl", "futex", "ioctl", "io_setup", "madvise", "memfd_create",
     "read", "readv", "ptrace", "sched_setaffinity", "mprotect"}
RestoresFirst == {"setsockopt", "socketcall", "seccomp", "prctl", "arch_prctl"}
Waits == {"waitpid", "wait4", "waitid"}

RestoredArgs(s) ==
    IF s \in RestoresFirstThree THEN 1..3
    ELSE IF s \in RestoresFirst THEN {1}
    ELSE IF s \in Waits THEN 1..4
    ELSE IF s = "mmap" THEN {1, 4}
    ELSE {}

RestoresNumber(s) == s \in Waits \cup {"socketcall", "connect", "perf_event_open"}

(* The sleeps whose output the kernel leaves alone when they complete, and *)
(* the ones it writes when they are interrupted.                           *)
NoWriteBackOnSuccess == {"nanosleep", "clock_nanosleep"}
Sleeps == {"nanosleep", "clock_nanosleep", "clock_nanosleep_time64"}

=============================================================================
