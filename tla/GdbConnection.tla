--------------------------- MODULE GdbConnection ---------------------------
(***************************************************************************)
(* The remote protocol: what a packet of gdb asks for.  A packet is a      *)
(* kind, the thread it names and an argument; a request is what            *)
(* GdbConnection hands to the server.  Packets that the connection answers *)
(* by itself yield no request.                                             *)
(*                                                                         *)
(* On the wire a packet is three symbols, of which only `#' ends it: the   *)
(* checksum after it is skipped with the junk before the next packet.      *)
(***************************************************************************)
EXTENDS Integers, Sequences

ANY == 0        \* GdbThreadId::ANY
ALL == -1       \* GdbThreadId::ALL

NoReq == [type |-> "NONE", tid |-> ANY, dir |-> "forward", acts |-> <<>>, arg |-> 0, from |-> ""]
Request(type) == [NoReq EXCEPT !.type = type]
With(type, arg) == [NoReq EXCEPT !.type = type, !.arg = arg]
Naming(type, tid) == [NoReq EXCEPT !.type = type, !.tid = tid]
Cont(dir, acts) == [NoReq EXCEPT !.type = "CONT", !.dir = dir, !.acts = acts]
Action(step, tid) == [step |-> step, tid |-> tid]

is_resume_request(r) == r.type = "CONT"
request_needs_immediate_response(r) == r.type \notin {"NONE", "CONT"}

Ask(r) == [req |-> r, reply |-> ""]
Answer(text) == [req |-> NoReq, reply |-> text]
Unhandled == Answer("empty")

-----------------------------------------------------------------------------
(* The kinds of packets, by the function that takes them apart.            *)

process_bpacket(p, dbg) ==
    CASE p.k = "bc" -> Ask(Cont("backward", <<Action(FALSE, dbg.resume)>>))
      [] p.k = "bs" -> Ask(Cont("backward", <<Action(TRUE, dbg.resume)>>))
      [] OTHER -> Unhandled

xfer_auxv(p, dbg) ==
    CASE p.k = "qXfer:auxv:annex" -> Answer("E00")
      [] p.k = "qXfer:auxv:write" -> Unhandled
      [] OTHER -> Ask(Naming("GET_AUXV", dbg.query))

xfer_exec_file(p) ==
    IF p.k = "qXfer:exec-file:write" THEN Unhandled ELSE Ask(Naming("GET_EXEC_FILE", p.t))

xfer_siginfo(p, dbg) ==
    CASE p.k = "qXfer:siginfo:annex" -> Answer("E00")
      [] p.k = "qXfer:siginfo:read" -> Ask(Naming("READ_SIGINFO", dbg.query))
      [] OTHER -> Ask(Naming("WRITE_SIGINFO", dbg.query))

\* write_xfer_response: a slice of the target description.
write_xfer_response(offset, len, size) ==
    CASE offset > size -> Answer("E01")
      [] offset = size -> Answer("l")
      [] offset < size /\ offset + len < size -> Answer("more")
      [] OTHER -> Answer("l")

xfer_features(p) ==
    IF p.k = "qXfer:features:write" THEN Unhandled ELSE write_xfer_response(p.a, 1, 2)

Auxv == {"qXfer:auxv:read", "qXfer:auxv:write", "qXfer:auxv:annex"}
ExecFile == {"qXfer:exec-file:read", "qXfer:exec-file:write"}
Siginfo == {"qXfer:siginfo:read", "qXfer:siginfo:write", "qXfer:siginfo:annex"}
Features == {"qXfer:features:read", "qXfer:features:write"}

xfer(p, dbg) ==
    CASE p.k \in Auxv -> xfer_auxv(p, dbg)
      [] p.k \in ExecFile -> xfer_exec_file(p)
      [] p.k \in Siginfo -> xfer_siginfo(p, dbg)
      [] p.k \in Features -> xfer_features(p)
      [] OTHER -> Unhandled

\* qSymbol::, and gdb's answers with and without an address.
query_symbol(p) ==
    Ask(With("QSYMBOL", CASE p.k = "qSymbol::" -> 0 [] p.k = "qSymbol:found" -> 1 [] OTHER -> 2))

Xfers == Auxv \cup ExecFile \cup Siginfo \cup Features \cup {"qXfer:other:read", "qXfer:mode"}
Symbols == {"qSymbol::", "qSymbol:found", "qSymbol:unknown"}

query(p, dbg) ==
    CASE p.k = "qRDCmd" -> Ask(With("RD_CMD", p.a))
      [] p.k = "qC" -> Ask(Request("GET_CURRENT_THREAD"))
      [] p.k = "qAttached" -> Answer("1")
      [] p.k = "qfThreadInfo" -> Ask(Request("GET_THREAD_LIST"))
      [] p.k = "qsThreadInfo" -> Answer("l")
      [] p.k = "qGetTLSAddr" -> Ask(Naming("TLS", p.t))
      [] p.k = "qOffsets" -> Ask(Naming("GET_OFFSETS", dbg.query))
      [] p.k = "qSupported" -> Answer("features")
      [] p.k \in Symbols -> query_symbol(p)
      [] p.k = "qThreadExtraInfo" -> Ask(Naming("GET_THREAD_EXTRA_INFO", p.t))
      [] p.k \in Xfers -> xfer(p, dbg)
      [] p.k = "qSearch:memory" -> Ask(Naming("SEARCH_MEM", dbg.query))
      [] p.k \in {"qP", "qTStatus", "qSearch:other", "q:other"} -> Unhandled

Queries == {"qRDCmd", "qC", "qAttached", "qfThreadInfo", "qsThreadInfo", "qGetTLSAddr",
            "qOffsets", "qSupported", "qThreadExtraInfo", "qSearch:memory", "qP", "qTStatus",
            "qSearch:other", "q:other"} \cup Symbols \cup Xfers

set_var(p) == IF p.k = "QStartNoAckMode" THEN Answer("OK") ELSE Unhandled

\* vCont: the actions that name a thread, the default action last.
vCont(p) ==
    CASE p.k = "vCont" ->
           LET named == IF p.t = ANY THEN <<>> ELSE <<Action(p.a \in {1, 3}, p.t)>>
               default == IF p.a < 2 /\ p.t # ANY THEN <<>> ELSE <<Action(p.a = 1 /\ p.t = ANY, ALL)>>
           IN Ask(Cont("forward", named \o default))
      [] p.k = "vCont?" -> Answer("vCont;c;C;s;S;")
      [] p.k \in {"vCont:command", "vCont:parameters", "vCont:defaults"} -> Unhandled

\* vRun: the restart point; what is no number means the previous one.
vRun(p) ==
    Ask([With("RESTART", p.a) EXCEPT !.from = CASE p.k = "vRun:c" -> "checkpoint"
                                                [] p.k = "vRun:event" -> "event"
                                                [] p.k \in {"vRun", "vRun:junk"} -> "previous"])

vFile(p) ==
    CASE p.k = "vFile:open" -> Ask(With("FILE_OPEN", p.a))
      [] p.k = "vFile:close" -> Ask(With("FILE_CLOSE", p.a))
      [] p.k = "vFile:pread" -> Ask(With("FILE_PREAD", p.a))
      [] p.k = "vFile:setfs" -> Ask(With("FILE_SETFS", p.a))
      [] p.k = "vFile:other" -> Unhandled

Conts == {"vCont", "vCont?", "vCont:command", "vCont:parameters", "vCont:defaults"}
Runs == {"vRun", "vRun:c", "vRun:event", "vRun:junk"}
Files == {"vFile:open", "vFile:close", "vFile:pread", "vFile:setfs", "vFile:other"}

process_vpacket(p) ==
    CASE p.k \in Conts -> vCont(p)
      [] p.k \in Runs -> vRun(p)
      [] p.k \in Files -> vFile(p)
      [] p.k = "vKill" -> Answer("OK")
      [] OTHER -> Unhandled

WatchKinds == {"SW_BREAK", "HW_BREAK", "WR_WATCH", "RD_WATCH", "RDWR_WATCH"}
\* Z and z: the request of the kind the packet numbers.
process_watch(p) ==
    CASE p.k = "Z" -> Ask(With("SET", p.a))
      [] p.k = "z" -> Ask(With("REMOVE", p.a))
      [] OTHER -> Unhandled

process_packet(p, dbg) ==
    CASE p.k \in {"bc", "bs", "b:other"} -> process_bpacket(p, dbg)
      [] p.k = "c" -> Ask(Cont("forward", <<Action(FALSE, ANY)>>))
      [] p.k = "D" -> Ask(Request("DETACH"))
      [] p.k = "g" -> Ask(Naming("GET_REGS", dbg.query))
      [] p.k = "Hc" -> Ask(Naming("SET_CONTINUE_THREAD", p.t))
      [] p.k = "Hg" -> Ask(Naming("SET_QUERY_THREAD", p.t))
      [] p.k = "m" -> Ask(Naming("GET_MEM", dbg.query))
      [] p.k = "p" -> Ask(Naming("GET_REG", dbg.query))
      [] p.k = "P" -> Ask([Naming("SET_REG", dbg.query) EXCEPT !.arg = p.a])
      [] p.k = "T" -> Ask(Naming("GET_IS_THREAD_ALIVE", p.t))
      [] p.k = "X" -> Ask([Naming("SET_MEM", dbg.query) EXCEPT !.arg = p.a])
      [] p.k \in {"Z", "z", "Z:type"} -> process_watch(p)
      [] p.k = "?" -> Ask(Naming("GET_STOP_REASON", dbg.query))
      [] p.k = "!" -> Answer("OK")
      [] p.k \in {"G", "M", "other"} -> Unhandled
      [] p.k \in Queries -> query(p, dbg)
      [] p.k \in {"QStartNoAckMode", "Q:other"} -> set_var(p)
      [] OTHER -> process_vpacket(p)

-----------------------------------------------------------------------------
(* Framing.                                                                *)

Dollar(p) == [b |-> "$", p |-> p]
Symbol(b) == [b |-> b, p |-> [k |-> "", t |-> ANY, a |-> 0]]
Interrupt == Symbol("interrupt")
Ack == Symbol("+")
Wire(p) == <<Dollar(p), Symbol("#"), Symbol("checksum")>>

\* Index of the first symbol in `bs', 0 when there is none.
memchr(buf, bs) ==
    IF \E i \in DOMAIN buf : buf[i].b \in bs
    THEN CHOOSE i \in DOMAIN buf : buf[i].b \in bs /\ \A j \in 1..(i - 1) : buf[j].b \notin bs
    ELSE 0

skip_to_packet_start(buf) ==
    LET i == memchr(buf, {"$", "interrupt"}) IN IF i = 0 THEN <<>> ELSE SubSeq(buf, i, Len(buf))

\* read_packet looks for `#' behind what it has already looked at.
find_packetend(buf, checkedlen) == memchr(SubSeq(buf, checkedlen + 1, Len(buf)), {"#"})

=============================================================================
