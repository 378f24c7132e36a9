----------------------------- MODULE GdbServer -----------------------------
(***************************************************************************)
(* The debugger stub: GdbServer serves the requests of one gdb connection  *)
(* (GdbConnection) from a replay (the timeline) or from a diversion of it. *)
(* rd is one thread; gdb sends packets, interrupts and closes the          *)
(* connection whenever it likes.                                           *)
(*                                                                         *)
(* A trace is a sequence of frames: the task that runs, what happens and   *)
(* the address it starts from.  The replay stands before frame `pos'.      *)
(***************************************************************************)
EXTENDS GdbConnection, FiniteSets, FiniteSetsExt

CONSTANTS
    Sessions,          \* a recording, the packets gdb may send, how many packets,
                       \* interrupts and connections there are at most, and whether a
                       \* packet may arrive in two reads
    ProcOf,            \* process of each task
    TargetEvent,       \* rd replay -g
    KeepListening,     \* rd replay -k
    MaxCheckpoints, MaxDiversions

\* A recording has at least one frame, of a task with a process; the numbers in
\* packets are not negative.
ASSUME SessionsAssumption ==
    \A s \in DOMAIN Sessions :
        /\ Sessions[s].trace \in Seq([t : DOMAIN ProcOf, k : STRING, to : Nat]) \ {<<>>}
        /\ \A p \in Sessions[s].packets : p.a \in Nat

VARIABLES
    session,
    gdb,       \* the debugger: what it waits for and believes (a stop it did not
               \* get from running forward selects no thread: it will say Hg)
    wire,      \* symbols under way to rd
    sock,      \* symbols that have arrived
    out,       \* replies under way to gdb
    pc, ctx,   \* where the server is, and who called get_request
    dbg,       \* GdbConnection
    srv,       \* GdbServer
    tl,        \* the ReplayTimeline: position, breakpoints, checkpoints
    div,       \* the diversion
    ends       \* why rd stopped serving

vars == <<session, gdb, wire, sock, out, pc, ctx, dbg, srv, tl, div, ends>>

trace == Sessions[session].trace
Tasks == DOMAIN ProcOf
Len_ == Len(trace)
Addresses == {1, 2}       \* 1: a breakpoint, 2: a watchpoint
NumSymbols == 2

At(pos) == trace[pos]
HasTask(pos) == pos <= Len_
Alive(pos, t) == t \in Tasks /\ \A i \in 1..(pos - 1) : ~(trace[i].t = t /\ trace[i].k = "exit")
Living(pos) == {t \in Tasks : Alive(pos, t)}
\* is_in_exec: the next step is a successful execve exit.
is_in_exec(pos) == HasTask(pos) /\ At(pos).k = "exec"
can_add_checkpoint(pos) == HasTask(pos) /\ At(pos).k \notin {"exec", "exit"}
\* is_last_thread_exit, for the break status of the frame at pos.
is_last_thread_exit(pos) ==
    At(pos).k = "exiting" /\ \A t \in Living(pos) : ProcOf[t] = ProcOf[At(pos).t] => t = At(pos).t

NoCheckpoint == [pos |-> 0, explicit |-> FALSE, tuid |-> 0]
Reply(k, t, pos) == [k |-> k, t |-> t, pos |-> pos]
NewConnection == [req |-> NoReq, inbuf |-> <<>>, packetend |-> 0, no_ack |-> FALSE,
                  alive |-> TRUE, resume |-> ALL, query |-> ALL]
NewGdb == [conns |-> 1, wait |-> "none", asked |-> "", thread |-> ANY, pos |-> 0, back |-> FALSE, open |-> TRUE,
           sent |-> 0, interrupts |-> 0, stray |-> FALSE, siginfo |-> 0, exited |-> FALSE, pending |-> FALSE]
NoDiversion == [ref |-> 0, bps |-> {}, wrote |-> FALSE, saved |-> 0, base |-> "normal"]

TypeOK ==
    /\ pc \in {"replay", "accept", "step", "request", "read", "packet", "dispatch", "returned",
               "resume", "gone"}
    /\ ctx \in {"normal", "dead", "lazy", "divert"}
    /\ gdb.wait \in {"none", "reply", "stop"}
    /\ tl.pos \in 1..(Len_ + 1)
    /\ tl.bps \subseteq Addresses /\ div.bps \subseteq Addresses
    /\ srv.lastC \in Tasks \cup {0} /\ srv.lastQ \in Tasks \cup {0}
    /\ div.ref \in Nat /\ tl.refs \in [1..(Len_ + 1) -> Nat]

Init ==
    /\ session \in DOMAIN Sessions
    /\ gdb = [NewGdb EXCEPT !.open = FALSE, !.conns = 0]
    /\ wire = <<>> /\ sock = <<>> /\ out = <<>>
    /\ pc = "replay" /\ ctx = "normal" /\ ends = ""
    /\ dbg = NewConnection
    /\ srv = [tguid |-> 0, lastC |-> 0, lastQ |-> 0, pending |-> FALSE, lastResume |-> NoReq,
              endState |-> FALSE, final |-> 1000, target |-> TargetEvent, targetPid |-> 0,
              stopping |-> FALSE, restart |-> NoCheckpoint, cps |-> <<>>, back |-> <<>>, now |-> 0, fwd |-> <<>>,
              cur |-> NoReq, lazy |-> 0, files |-> {}, next |-> 0, symloc |-> -1, registered |-> 0]
    /\ tl = [pos |-> 1, bps |-> {}, refs |-> [p \in 1..(Len_ + 1) |-> 0]]
    /\ div = NoDiversion

-----------------------------------------------------------------------------
(* gdb, and the connection to it.                                          *)

Opened(fd) == \E f \in srv.files : f.fd = fd
Ending(why) == pc' = "gone" /\ ends' = why

\* gdb answers rd's symbol lookups before it sends anything else.
MaySend(p) ==
    /\ p.k \in {"vCont", "c", "bc", "bs"} => ~gdb.exited
    /\ p.k = "qXfer:siginfo:read" => gdb.siginfo < MaxDiversions /\ ~gdb.exited
    /\ p.k = "qXfer:siginfo:write" => gdb.siginfo > 0
    /\ p.k \in {"qSymbol:found", "qSymbol:unknown"} => gdb.asked = "symbol"
    /\ p.k \in {"vFile:close", "vFile:pread"} => Opened(p.a) \/ p.a = 2
    /\ p.k = "vFile:open" => Cardinality(srv.files) < 1
    /\ p.k = "qRDCmd" /\ p.a = 4 => Len(srv.cps) < MaxCheckpoints
    /\ p.k = "qRDCmd" /\ p.a = 6 => Len(srv.back) < 1
    /\ p.k = "qThreadExtraInfo" => Alive(tl.pos, p.t)

GdbSend ==
    /\ gdb.open /\ gdb.wait = "none" /\ wire = <<>> /\ gdb.sent < Sessions[session].limit
    /\ \E p \in Sessions[session].packets :
         /\ MaySend(p)
         /\ gdb' = [gdb EXCEPT !.wait = IF p.k \in {"vCont", "c", "bc", "bs"} \cup Runs THEN "stop" ELSE "reply",
                               !.asked = IF p.k \in {"Hg", "?"} THEN p.k ELSE "",
                               !.thread = IF p.k = "Hg" THEN p.t ELSE gdb.thread,
                               !.back = p.k \notin {"vCont", "c"},
                               !.sent = @ + 1,
                               !.siginfo = @ + (CASE p.k = "qXfer:siginfo:read" -> 1
                                                  [] p.k = "qXfer:siginfo:write" -> -1
                                                  [] OTHER -> 0)]
         /\ \/ sock' = sock \o Wire(p) /\ wire' = wire
            \/ Sessions[session].split /\ sock' = Append(sock, Head(Wire(p))) /\ wire' = Tail(Wire(p))
    /\ UNCHANGED <<session, out, pc, ctx, dbg, srv, tl, div, ends>>

Deliver ==
    /\ wire # <<>>
    /\ sock' = sock \o wire /\ wire' = <<>>
    /\ UNCHANGED <<session, gdb, out, pc, ctx, dbg, srv, tl, div, ends>>

GdbInterrupt ==
    /\ gdb.open /\ gdb.wait = "stop" /\ gdb.interrupts < Sessions[session].interrupts /\ wire = <<>>
    /\ gdb' = [gdb EXCEPT !.interrupts = @ + 1, !.pending = TRUE]
    /\ sock' = Append(sock, Interrupt)
    /\ UNCHANGED <<session, wire, out, pc, ctx, dbg, srv, tl, div, ends>>

\* An interrupt of gdb that rd has not turned into a stop yet.
InterruptUnderWay ==
    \/ \E i \in DOMAIN sock : sock[i] = Interrupt
    \/ \E i \in DOMAIN dbg.inbuf : dbg.inbuf[i] = Interrupt
    \/ "INTERRUPT" \in {dbg.req.type, srv.cur.type} \/ (gdb.pending /\ srv.pending)

GdbReceive ==
    /\ gdb.open /\ out # <<>>
    /\ LET r == Head(out) IN
         gdb' = [gdb EXCEPT !.wait = "none",
                            !.asked = IF r.k = "qSymbol" THEN "symbol" ELSE "",
                            !.thread = CASE r.k = "T" -> IF gdb.back THEN ANY ELSE r.t
                                         [] r.k \in {"E01", "E10"} /\ gdb.asked = "Hg" -> ANY
                                         [] OTHER -> gdb.thread,
                            !.pos = CASE r.k \in {"T", "rd"} -> r.pos [] r.k = "W" -> 0 [] OTHER -> gdb.pos,
                            !.stray = @ \/ (r.k \in {"T", "W"} /\ (InterruptUnderWay \/ Len(out) > 1 \/ (gdb.wait # "stop" /\ gdb.asked # "?"))),
                            !.pending = IF r.k \in {"T", "W"} THEN FALSE ELSE gdb.pending,
                            !.exited = (r.k = "W") \/ (r.k # "T" /\ gdb.exited)]
    /\ out' = Tail(out)
    /\ sock' = IF dbg.no_ack THEN sock ELSE Append(sock, Ack)
    /\ UNCHANGED <<session, wire, pc, ctx, dbg, srv, tl, div, ends>>

GdbClose ==
    /\ gdb.open /\ gdb.wait # "reply" /\ Sessions[session].connections > 1
    /\ gdb' = [gdb EXCEPT !.open = FALSE] /\ out' = <<>>
    /\ UNCHANGED <<session, wire, sock, pc, ctx, dbg, srv, tl, div, ends>>

-----------------------------------------------------------------------------
(* get_request.                                                            *)

Panics(why) ==
    /\ Ending(why)
    /\ UNCHANGED <<session, gdb, wire, sock, out, ctx, dbg, srv, tl, div>>

sniff_packet_NoPoll == skip_to_packet_start(dbg.inbuf) # <<>> \/ ~gdb.open
\* sniff_packet: junk is dropped, and poll sees bytes and hang-ups.
sniff_packet == skip_to_packet_start(dbg.inbuf) # <<>> \/ sock # <<>> \/ ~gdb.open

\* A served RESTART turns into the question for the stop reason.
notify_restart ==
    /\ pc = "request" /\ dbg.req.type = "RESTART"
    /\ dbg' = [dbg EXCEPT !.resume = ANY, !.query = ANY, !.req = Naming("GET_STOP_REASON", ANY)]
    /\ pc' = "dispatch"
    /\ UNCHANGED <<session, gdb, wire, sock, out, ctx, srv, tl, div, ends>>

get_request ==
    /\ pc = "request" /\ dbg.req.type # "RESTART"
    /\ IF request_needs_immediate_response(dbg.req) THEN Panics("unanswered")
       ELSE /\ dbg' = [dbg EXCEPT !.inbuf = skip_to_packet_start(dbg.inbuf)]
            /\ pc' = IF ~sniff_packet /\ is_resume_request(dbg.req) THEN "dispatch" ELSE "read"
            /\ UNCHANGED <<session, gdb, wire, sock, out, ctx, srv, tl, div, ends>>

\* Index of the end of the packet at the start of buf, 0 when it is not complete.
packet_end(buf, checkedlen) ==
    CASE buf = <<>> -> 0
      [] buf # <<>> /\ Head(buf) = Interrupt -> 1
      [] OTHER -> find_packetend(buf, checkedlen)

\* Blocks until a packet has been read, looking only at what is new.
read_packet ==
    /\ pc = "read"
    /\ LET old == dbg.inbuf
           buf == skip_to_packet_start(old \o sock)
           checked == IF old = <<>> \/ packet_end(old, 0) # 0 THEN 0 ELSE Len(old)
           end == packet_end(buf, checked)
       IN \/ /\ packet_end(old, 0) # 0
             /\ dbg' = [dbg EXCEPT !.packetend = packet_end(old, 0)]
             /\ pc' = "packet" /\ UNCHANGED sock
          \/ /\ packet_end(old, 0) = 0 /\ sock # <<>>
             /\ dbg' = [dbg EXCEPT !.inbuf = buf, !.packetend = end]
             /\ pc' = IF end = 0 THEN "read" ELSE "packet"
             /\ sock' = <<>>
          \/ /\ packet_end(old, 0) = 0 /\ sock = <<>> /\ ~gdb.open
             /\ dbg' = [dbg EXCEPT !.alive = FALSE, !.req = Request("DETACH")]
             /\ pc' = "dispatch" /\ UNCHANGED sock
    /\ UNCHANGED <<session, gdb, wire, out, ctx, srv, tl, div, ends>>

\* The packet is taken apart and dropped up to `#'; what the connection answers
\* itself is consumed at once.
receive_packet ==
    /\ pc = "packet"
    /\ \/ /\ Head(dbg.inbuf) = Interrupt
          /\ dbg' = [dbg EXCEPT !.req = Request("INTERRUPT"), !.inbuf = Tail(@)]
          /\ pc' = "dispatch" /\ UNCHANGED <<out, ends>>
       \/ /\ Head(dbg.inbuf) # Interrupt /\ memchr(dbg.inbuf, {"#"}) = dbg.packetend
          /\ Head(dbg.inbuf).p.k # "k"
          /\ LET p == Head(dbg.inbuf).p
                 r == process_packet(p, dbg)
             IN /\ dbg' = [dbg EXCEPT !.req = r.req,
                                      !.inbuf = skip_to_packet_start(SubSeq(@, dbg.packetend + 1, Len(@))),
                                      !.no_ack = @ \/ p.k = "QStartNoAckMode"]
                /\ pc' = IF r.reply = "" THEN "dispatch" ELSE "read"
                /\ out' = IF r.reply = "" THEN out ELSE Append(out, Reply(r.reply, ANY, 0))
          /\ UNCHANGED ends
       \/ /\ Head(dbg.inbuf) # Interrupt /\ memchr(dbg.inbuf, {"#"}) # dbg.packetend
          /\ Ending("packetend") /\ UNCHANGED <<dbg, out>>
       \/ /\ Head(dbg.inbuf).p.k = "k" /\ memchr(dbg.inbuf, {"#"}) = dbg.packetend
          /\ Ending("killed") /\ out' = Append(out, Reply("OK", ANY, 0)) /\ UNCHANGED dbg
    /\ UNCHANGED <<session, gdb, wire, sock, ctx, srv, tl, div>>

-----------------------------------------------------------------------------
(* Replies.  Consumed is the connection after consume_request.             *)

Consumed(d) == [d EXCEPT !.req = NoReq]

\* notify_stop: gdb expects ANY after running backwards.
notify_stop(d, t) ==
    LET back == is_resume_request(d.req) /\ d.req.dir = "backward"
    IN [Consumed(d) EXCEPT !.resume = IF back THEN ANY ELSE t, !.query = IF back THEN ANY ELSE t]
MayNotifyStop == is_resume_request(dbg.req) \/ dbg.req.type = "INTERRUPT"

reply_select_thread(d, ok) ==
    IF ~ok THEN Consumed(d)
    ELSE IF d.req.type = "SET_CONTINUE_THREAD" THEN [Consumed(d) EXCEPT !.resume = d.req.tid]
    ELSE [Consumed(d) EXCEPT !.query = d.req.tid]

-----------------------------------------------------------------------------
(* dispatch_debugger_request: requests that need no target, requests that  *)
(* choose it, and requests that must have one.                             *)

Dispatching(types) == pc = "dispatch" /\ ctx # "lazy" /\ dbg.req.type \in types
Diverted == ctx = "divert"
Answers(r) ==
    /\ out' = Append(out, r) /\ pc' = "request"
    /\ UNCHANGED <<session, gdb, wire, sock, ctx, div, ends>>

Untargeted == {"GET_CURRENT_THREAD", "GET_OFFSETS", "GET_THREAD_LIST", "GET_EXEC_FILE"}
dispatch_untargeted ==
    /\ Dispatching(Untargeted)
    /\ Answers(CASE dbg.req.type = "GET_CURRENT_THREAD" -> Reply("thread", srv.lastC, tl.pos)
                 [] dbg.req.type = "GET_THREAD_LIST" ->
                      Reply(IF ctx = "dead" THEN "no threads" ELSE "threads", ANY, tl.pos)
                 [] OTHER -> Reply("text", ANY, tl.pos))
    /\ dbg' = Consumed(dbg) /\ UNCHANGED <<srv, tl>>

\* open_file hands out a number for whatever it is asked for; file 0 is the one
\* whose contents can be served.  Opening for writing is refused.
open_file == [srv EXCEPT !.files = @ \cup {[fd |-> srv.next, good |-> dbg.req.arg = 0]}, !.next = @ + 1]

dispatch_file ==
    /\ Dispatching({"FILE_SETFS", "FILE_OPEN", "FILE_PREAD", "FILE_CLOSE"})
    /\ LET type == dbg.req.type
           fd == dbg.req.arg
           readable == type = "FILE_PREAD" /\ \E f \in srv.files : f.fd = fd /\ f.good
       IN /\ srv' = CASE type = "FILE_OPEN" /\ dbg.req.arg < 2 -> open_file
                      [] type = "FILE_CLOSE" -> [srv EXCEPT !.files = {f \in @ : f.fd # fd}]
                      [] OTHER -> srv
          /\ Answers(CASE type = "FILE_SETFS" -> Reply("F0", ANY, 0)
                       [] type = "FILE_OPEN" -> Reply(IF dbg.req.arg < 2 THEN "fd" ELSE "EACCES", ANY, srv.next)
                       [] type = "FILE_CLOSE" -> Reply(IF Opened(fd) THEN "F0" ELSE "EBADF", ANY, 0)
                       [] readable -> Reply("data", ANY, 0)
                       [] OTHER -> Reply("EBADF", ANY, 0))
    /\ dbg' = Consumed(dbg) /\ UNCHANGED tl

Targeted == {"GET_IS_THREAD_ALIVE", "GET_THREAD_EXTRA_INFO", "SET_CONTINUE_THREAD",
             "SET_QUERY_THREAD", "GET_AUXV", "GET_MEM", "SET_MEM", "SEARCH_MEM", "GET_REG",
             "GET_REGS", "SET_REG", "GET_STOP_REASON", "SET", "REMOVE", "WRITE_SIGINFO",
             "RD_CMD", "QSYMBOL", "TLS"}

is_query == dbg.req.type # "SET_CONTINUE_THREAD"
Wanted == IF dbg.req.tid > 0 THEN dbg.req.tid ELSE IF is_query THEN srv.lastQ ELSE srv.lastC
Target == IF Alive(tl.pos, Wanted) THEN Wanted ELSE 0
Aimed ==
    CASE Target = 0 -> srv
      [] Target # 0 /\ is_query -> [srv EXCEPT !.lastQ = Target]
      [] OTHER -> [srv EXCEPT !.lastC = Target]

dispatch_select ==
    /\ Dispatching({"GET_IS_THREAD_ALIVE", "SET_CONTINUE_THREAD", "SET_QUERY_THREAD"})
    /\ srv' = Aimed
    /\ dbg' = IF dbg.req.type = "GET_IS_THREAD_ALIVE" THEN Consumed(dbg)
              ELSE reply_select_thread(dbg, Target # 0)
    /\ Answers(Reply(IF Target # 0 THEN "OK" ELSE "E01", ANY, 0))
    /\ UNCHANGED tl

\* The name of a thread that is gone is asked for in vain.
dispatch_extra_info ==
    /\ Dispatching({"GET_THREAD_EXTRA_INFO"})
    /\ IF Target = 0 THEN Panics("extra info")
       ELSE srv' = Aimed /\ dbg' = Consumed(dbg) /\ UNCHANGED tl /\ Answers(Reply("text", ANY, 0))

notify_no_such_thread ==
    /\ Dispatching(Targeted \ {"GET_IS_THREAD_ALIVE", "GET_THREAD_EXTRA_INFO",
                               "SET_CONTINUE_THREAD", "SET_QUERY_THREAD"})
    /\ Diverted => dbg.req.type \notin {"WRITE_SIGINFO", "RD_CMD"}
    /\ Target = 0
    /\ dbg' = Consumed(dbg) /\ UNCHANGED <<srv, tl>>
    /\ Answers(Reply("E10", ANY, 0))

dispatch_query ==
    /\ Dispatching({"GET_AUXV", "GET_MEM", "SEARCH_MEM", "GET_REG", "GET_REGS", "GET_STOP_REASON", "TLS"})
    /\ Target # 0
    /\ srv' = Aimed /\ dbg' = Consumed(dbg) /\ UNCHANGED tl
    /\ Answers(CASE dbg.req.type \in {"GET_REG", "GET_REGS"} -> Reply("regs", Target, tl.pos)
                 [] dbg.req.type = "GET_STOP_REASON" -> Reply("T", srv.lastC, tl.pos)
                 [] OTHER -> Reply("text", Target, tl.pos))

\* Memory and registers are written in a diversion only; an empty write and a
\* write of orig_rax (argument 0) are no writes.
dispatch_write ==
    /\ Dispatching({"SET_MEM", "SET_REG"}) /\ Target # 0
    /\ srv' = Aimed /\ dbg' = Consumed(dbg) /\ UNCHANGED tl
    /\ out' = Append(out, Reply(IF Diverted \/ dbg.req.arg = 0 THEN "OK" ELSE "E01", ANY, 0))
    /\ div' = IF Diverted THEN [div EXCEPT !.wrote = TRUE] ELSE div
    /\ pc' = "request"
    /\ UNCHANGED <<session, gdb, wire, sock, ctx, ends>>

mirror_Never(bps) == div
\* Breakpoints go to the timeline and are mirrored to the diversion.
mirror(bps) == IF Diverted THEN [div EXCEPT !.bps = bps] ELSE div
dispatch_break ==
    /\ Dispatching({"SET", "REMOVE"}) /\ Target # 0
    /\ srv' = Aimed /\ dbg' = Consumed(dbg)
    /\ tl' = [tl EXCEPT !.bps = IF dbg.req.type = "SET" THEN @ \cup {dbg.req.arg} ELSE @ \ {dbg.req.arg}]
    /\ div' = mirror(IF dbg.req.type = "SET" THEN div.bps \cup {dbg.req.arg} ELSE div.bps \ {dbg.req.arg})
    /\ out' = Append(out, Reply("OK", ANY, 0)) /\ pc' = "request"
    /\ UNCHANGED <<session, gdb, wire, sock, ctx, ends>>

dispatch_write_siginfo ==
    /\ Dispatching({"WRITE_SIGINFO"}) /\ ~Diverted /\ Target # 0
    /\ srv' = Aimed /\ dbg' = Consumed(dbg) /\ UNCHANGED tl
    /\ Answers(Reply("OK", ANY, 0))

\* qSymbol: the address of a symbol asked for, or the start of a new round.
dispatch_qsymbol ==
    /\ Dispatching({"QSYMBOL"}) /\ Target # 0
    /\ LET loc == IF dbg.req.arg = 0 THEN 0 ELSE srv.symloc
           done == loc \in {-1, NumSymbols}
       IN /\ srv' = [Aimed EXCEPT !.symloc = IF done THEN loc ELSE loc + 1,
                                  !.registered = CASE dbg.req.arg = 0 -> 0
                                                   [] dbg.req.arg = 1 -> @ + 1
                                                   [] OTHER -> @]
          /\ Answers(Reply(IF done THEN "OK" ELSE "qSymbol", ANY, 0))
    /\ dbg' = Consumed(dbg) /\ UNCHANGED tl

-----------------------------------------------------------------------------
(* The commands gdb's script sends to rd, by number.  The first three need *)
(* the replay and end a diversion.                                         *)

EndsDiversion == {1, 2, 3}      \* when (and its kin), back, forward
CmdCheckpoint == 4
CmdDelete == 5                  \* of the first checkpoint
CmdHistoryPush == 6
CmdInfo == 7

seek_to_mark(t, pos) == [t EXCEPT !.pos = pos]
add_explicit_checkpoint(t, pos) == [t EXCEPT !.refs[pos] = @ + 1]
remove_explicit_checkpoint(t, pos) == [t EXCEPT !.refs[pos] = @ - 1]
\* Checkpoint::new at the timeline's position.
Checkpoint == [pos |-> tl.pos, explicit |-> can_add_checkpoint(tl.pos), tuid |-> srv.lastC]

invoke_checkpoint(s) ==
    [srv |-> [s EXCEPT !.cps = Append(@, Checkpoint)],
     tl |-> IF Checkpoint.explicit THEN add_explicit_checkpoint(tl, tl.pos) ELSE tl]
invoke_delete_checkpoint(s) ==
    IF Len(s.cps) = 0 \/ s.cps[1] = NoCheckpoint THEN [srv |-> s, tl |-> tl]
    ELSE [srv |-> [s EXCEPT !.cps[1] = NoCheckpoint],
          tl |-> IF s.cps[1].explicit THEN remove_explicit_checkpoint(tl, s.cps[1].pos) ELSE tl]
rd_history_push(s) ==
    IF Diverted THEN [srv |-> s, tl |-> tl]
    ELSE [srv |-> [s EXCEPT !.back = IF s.now = 0 THEN @ ELSE Append(@, s.now), !.now = tl.pos, !.fwd = <<>>],
          tl |-> tl]
back(s) ==
    IF s.back = <<>> THEN [srv |-> s, tl |-> tl]
    ELSE LET m == s.back[Len(s.back)]
         IN [srv |-> [s EXCEPT !.back = SubSeq(@, 1, Len(@) - 1), !.now = m, !.fwd = Append(@, s.now)],
             tl |-> seek_to_mark(tl, m)]
forward(s) ==
    IF s.fwd = <<>> THEN [srv |-> s, tl |-> tl]
    ELSE LET m == s.fwd[Len(s.fwd)]
         IN [srv |-> [s EXCEPT !.fwd = SubSeq(@, 1, Len(@) - 1), !.now = m, !.back = Append(@, s.now)],
             tl |-> seek_to_mark(tl, m)]

process_command(s, cmd) ==
    CASE cmd = 2 -> back(s)
      [] cmd = 3 -> forward(s)
      [] cmd = CmdCheckpoint -> invoke_checkpoint(s)
      [] cmd = CmdDelete -> invoke_delete_checkpoint(s)
      [] cmd = CmdHistoryPush -> rd_history_push(s)
      [] OTHER -> [srv |-> s, tl |-> tl]

dispatch_rd_cmd ==
    /\ Dispatching({"RD_CMD"}) /\ ~Diverted /\ Target # 0
    /\ LET r == process_command(Aimed, dbg.req.arg)
       IN srv' = r.srv /\ tl' = r.tl /\ Answers(Reply("rd", dbg.req.arg, r.tl.pos))
    /\ dbg' = Consumed(dbg)

-----------------------------------------------------------------------------
(* maybe_notify_stop, for a break status [stop, t].                        *)

NoBreak == [stop |-> FALSE, t |-> 0]
Break(t) == [stop |-> TRUE, t |-> t]
\* An exec about to complete stops whatever the break status says.
Observed(pos, br) == IF is_in_exec(pos) THEN Break(At(pos).t) ELSE br
Reported(pos, br) == Observed(pos, br).stop /\ ProcOf[Observed(pos, br).t] = srv.tguid
\* The stop is told at position `at', with the session standing at `pos'.
maybe_notify_stop(s, pos, br, at) ==
    LET t == Observed(pos, br).t IN
    IF Reported(pos, br)
    THEN /\ dbg' = notify_stop(dbg, t)
         /\ out' = Append(out, Reply("T", t, at))
         /\ srv' = [s EXCEPT !.lastC = t, !.lastQ = t]
    ELSE srv' = s /\ UNCHANGED <<dbg, out>>

-----------------------------------------------------------------------------
(* try_lazy_reverse_singlesteps: steps back along known marks, without     *)
(* moving the session until gdb asks for more than registers.              *)

Now == IF ctx = "lazy" THEN srv.lazy ELSE tl.pos
LazyRequest ==
    /\ HasTask(tl.pos)
    /\ is_resume_request(dbg.req) /\ dbg.req.dir = "backward"
    /\ Len(dbg.req.acts) = 1 /\ dbg.req.acts[1].step
    /\ dbg.req.acts[1].tid \in {ANY, ALL, At(tl.pos).t}
\* A mark one singlestep before `from' may be known, within one event.
lazy_reverse_singlestep(from) ==
    from > 1 /\ HasTask(from) /\ At(from).t = At(from - 1).t /\ At(from - 1).k = "run" /\ At(from - 1).to \notin tl.bps

LazyStep ==
    /\ pc = "dispatch" /\ ctx \in {"normal", "lazy"} /\ LazyRequest
    /\ lazy_reverse_singlestep(Now)
    /\ maybe_notify_stop([srv EXCEPT !.lazy = Now - 1], tl.pos, Break(At(tl.pos).t), Now - 1)
    /\ pc' = "request" /\ ctx' = "lazy"
    /\ UNCHANGED <<session, gdb, wire, sock, tl, div, ends>>

LazyRegs ==
    /\ pc = "dispatch" /\ ctx = "lazy" /\ dbg.req.type = "GET_REGS"
    /\ dbg' = Consumed(dbg) /\ pc' = "request"
    /\ out' = Append(out, Reply("regs", At(tl.pos).t, srv.lazy))
    /\ UNCHANGED <<session, gdb, wire, sock, ctx, srv, tl, div, ends>>

\* Any other request, or a step whose mark is not known: the session catches up.
LazyEnd_NoSeek ==
    /\ pc = "dispatch" /\ ctx = "lazy" /\ dbg.req.type # "GET_REGS"
    /\ ctx' = "normal" /\ srv' = [srv EXCEPT !.lazy = 0, !.cur = dbg.req]
    /\ pc' = IF is_resume_request(dbg.req) THEN "returned" ELSE "dispatch"
    /\ UNCHANGED <<session, gdb, wire, sock, out, dbg, tl, div, ends>>
LazyEnd ==
    /\ pc = "dispatch" /\ ctx = "lazy" /\ dbg.req.type # "GET_REGS"
    /\ tl' = seek_to_mark(tl, srv.lazy)
    /\ ctx' = "normal" /\ srv' = [srv EXCEPT !.lazy = 0, !.cur = dbg.req]
    /\ pc' = IF is_resume_request(dbg.req) THEN "returned" ELSE "dispatch"
    /\ UNCHANGED <<session, gdb, wire, sock, out, dbg, div, ends>>

-----------------------------------------------------------------------------
(* Diversions: gdb's calls into the program run in a clone of the replay.  *)

divert ==
    /\ Dispatching({"READ_SIGINFO"}) /\ ~Diverted
    /\ div' = [ref |-> 1, bps |-> tl.bps, wrote |-> FALSE, saved |-> srv.lastQ, base |-> ctx]
    /\ ctx' = "divert" /\ dbg' = Consumed(dbg)
    /\ out' = Append(out, Reply("siginfo", ANY, 0)) /\ pc' = "request"
    /\ UNCHANGED <<session, gdb, wire, sock, srv, tl, ends>>

diverter_siginfo ==
    /\ Dispatching({"READ_SIGINFO", "WRITE_SIGINFO"}) /\ Diverted
    /\ dbg.req.type = "WRITE_SIGINFO" => div.ref > 0
    /\ div' = [div EXCEPT !.ref = IF dbg.req.type = "READ_SIGINFO" THEN @ + 1 ELSE @ - 1]
    /\ dbg' = Consumed(dbg) /\ pc' = "request"
    /\ out' = Append(out, Reply("siginfo", ANY, 0))
    /\ UNCHANGED <<session, gdb, wire, sock, ctx, srv, tl, ends>>

diverter_unbalanced ==
    /\ Dispatching({"WRITE_SIGINFO"}) /\ Diverted /\ div.ref = 0
    /\ Panics("siginfo")

diverter_rd_cmd ==
    /\ Dispatching({"RD_CMD"}) /\ Diverted
    /\ Alive(tl.pos, srv.lastC) /\ dbg.req.arg \notin EndsDiversion
    /\ LET r == process_command(srv, dbg.req.arg)
       IN srv' = r.srv /\ tl' = r.tl /\ Answers(Reply("rd", dbg.req.arg, r.tl.pos))
    /\ dbg' = Consumed(dbg)

\* The diversion's tasks are killed; the query thread is the replay's again.
end_diversion(s) == [s EXCEPT !.lastQ = div.saved]

\* The diversion ends and hands on the request that ended it.
divert_return ==
    /\ pc = "dispatch" /\ Diverted
    /\ \/ is_resume_request(dbg.req) /\ div.ref = 0
       \/ dbg.req.type \in {"RESTART", "DETACH"}
       \/ dbg.req.type = "RD_CMD" /\ (dbg.req.arg \in EndsDiversion \/ ~Alive(tl.pos, srv.lastC))
    /\ ctx' = div.base /\ div' = NoDiversion
    /\ srv' = [end_diversion(srv) EXCEPT !.cur = dbg.req]
    /\ pc' = IF is_resume_request(dbg.req) THEN "returned" ELSE "dispatch"
    /\ UNCHANGED <<session, gdb, wire, sock, out, dbg, tl, ends>>

DivertResumes == pc = "dispatch" /\ Diverted /\ is_resume_request(dbg.req) /\ div.ref > 0

\* No reverse execution in a diversion: an immediate stop.
divert_backward ==
    /\ DivertResumes /\ dbg.req.dir = "backward" /\ Alive(tl.pos, srv.lastC)
    /\ dbg' = notify_stop(dbg, srv.lastC)
    /\ srv' = [srv EXCEPT !.lastQ = srv.lastC] /\ UNCHANGED tl
    /\ Answers(Reply("T", srv.lastC, tl.pos))

\* diversion_step: it stops, runs on, or the task exits and with it the
\* diversion; then the same resume request is served by the replay.
divert_forward ==
    /\ DivertResumes /\ dbg.req.dir = "forward" /\ Alive(tl.pos, srv.lastC)
    /\ \/ /\ maybe_notify_stop(srv, tl.pos, Break(srv.lastC), tl.pos)
          /\ UNCHANGED <<ctx, div>>
       \/ /\ maybe_notify_stop(srv, tl.pos, NoBreak, tl.pos)
          /\ UNCHANGED <<ctx, div>>
       \/ /\ ctx' = div.base /\ div' = NoDiversion /\ srv' = end_diversion(srv)
          /\ UNCHANGED <<dbg, out>>
    /\ pc' = "request"
    /\ UNCHANGED <<session, gdb, wire, sock, tl, ends>>

divert_interrupt ==
    /\ Dispatching({"INTERRUPT"}) /\ Diverted /\ Alive(tl.pos, srv.lastC)
    /\ dbg' = notify_stop(dbg, srv.lastC)
    /\ srv' = [srv EXCEPT !.lastQ = srv.lastC] /\ UNCHANGED tl
    /\ Answers(Reply("T", srv.lastC, tl.pos))

\* The thread to run is gone: the diversion ends, or the stop goes nowhere.
divert_no_task ==
    /\ pc = "dispatch" /\ Diverted /\ ~Alive(tl.pos, srv.lastC)
    /\ \/ /\ DivertResumes /\ dbg.req.dir = "forward"
          /\ ctx' = div.base /\ div' = NoDiversion /\ srv' = end_diversion(srv)
       \/ /\ DivertResumes /\ dbg.req.dir = "backward"
          /\ srv' = [srv EXCEPT !.lastQ = srv.lastC] /\ UNCHANGED <<ctx, div>>
       \/ /\ dbg.req.type = "INTERRUPT" /\ UNCHANGED <<ctx, div, srv>>
    /\ pc' = "request"
    /\ UNCHANGED <<session, gdb, wire, sock, out, dbg, tl, ends>>

-----------------------------------------------------------------------------
(* process_debugger_requests hands resumes, interrupts, restarts and       *)
(* detaches to debug_one_step.                                             *)

return_request ==
    /\ pc = "dispatch" /\ ctx \in {"normal", "dead"}
    /\ dbg.req.type \in {"CONT", "INTERRUPT", "RESTART", "DETACH"}
    /\ ctx = "dead" => dbg.req.type \in {"RESTART", "DETACH"}
    /\ srv' = [srv EXCEPT !.cur = dbg.req]
    /\ IF dbg.req.type = "DETACH"
       THEN dbg' = Consumed(dbg) /\ out' = IF gdb.open THEN Append(out, Reply("OK", ANY, 0)) ELSE out
       ELSE UNCHANGED <<dbg, out>>
    /\ pc' = "returned" /\ ctx' = "normal"
    /\ UNCHANGED <<session, gdb, wire, sock, tl, div, ends>>

\* handle_exited_state: after the exit gdb may restart or detach, no more.
handle_exited_state ==
    /\ ctx = "dead" /\ pc = "dispatch" /\ dbg.req.type \in {"CONT", "INTERRUPT"}
    /\ Panics("after end-of-trace")

notify_exit_code(s) ==
    \/ /\ MayNotifyStop
       /\ out' = Append(out, Reply("W", ANY, tl.pos)) /\ dbg' = Consumed(dbg)
       /\ srv' = [s EXCEPT !.final = tl.pos]
       /\ ctx' = "dead" /\ pc' = "request"
       /\ UNCHANGED <<session, gdb, wire, sock, tl, div, ends>>
    \/ ~MayNotifyStop /\ Panics("notify_exit")

-----------------------------------------------------------------------------
(* debug_one_step.                                                         *)

\* A pending interrupt goes on with the last resume; otherwise gdb is asked.
debug_one_step ==
    /\ pc = "step"
    /\ IF srv.endState \/ ~srv.pending \/ srv.lastResume.type = "NONE"
       THEN pc' = "request" /\ UNCHANGED srv
       ELSE pc' = "returned" /\ srv' = [srv EXCEPT !.cur = srv.lastResume]
    /\ UNCHANGED <<session, gdb, wire, sock, out, ctx, dbg, tl, div, ends>>

\* What the end state makes of a request: TRUE when it fakes the exit.
FakeExit == srv.endState /\ is_resume_request(srv.cur) /\ srv.cur.dir = "forward" /\ ~srv.pending
AfterEndState(s) ==
    IF srv.cur.type = "DETACH" \/ (is_resume_request(srv.cur) /\ srv.cur.dir = "forward")
    THEN s ELSE [s EXCEPT !.endState = FALSE]

fake_exit ==
    /\ pc = "returned" /\ FakeExit
    /\ notify_exit_code(srv)

detach ==
    /\ pc = "returned" /\ srv.cur.type = "DETACH"
    /\ tl' = [tl EXCEPT !.bps = {}]
    /\ IF KeepListening THEN pc' = "accept" /\ UNCHANGED ends ELSE Ending("served")
    /\ srv' = [srv EXCEPT !.cur = NoReq, !.lastResume = NoReq]
    /\ UNCHANGED <<session, gdb, wire, sock, out, ctx, dbg, div>>

\* The resume to serve: the request itself, or the last one, interrupted.
Resuming ==
    IF is_resume_request(srv.cur) THEN [AfterEndState(srv) EXCEPT !.lastResume = srv.cur]
    ELSE [AfterEndState(srv) EXCEPT !.pending = TRUE]

\* current_task().unwrap() would fail.
NeedsTask == ~HasTask(tl.pos) /\ (Resuming.pending \/ Resuming.lastResume.dir = "forward")
Interrupted(s) == s.pending /\ HasTask(tl.pos) /\ ProcOf[At(tl.pos).t] = s.tguid

resume ==
    /\ pc = "returned" /\ srv.cur.type \in {"CONT", "INTERRUPT"} /\ ~FakeExit
    /\ is_resume_request(Resuming.lastResume) /\ ~NeedsTask
    /\ ~Interrupted(Resuming)
    /\ srv' = [Resuming EXCEPT !.cur = Resuming.lastResume] /\ pc' = "resume"
    /\ UNCHANGED <<session, gdb, wire, sock, out, ctx, dbg, tl, div, ends>>

interrupt_stop ==
    /\ pc = "returned" /\ srv.cur.type \in {"CONT", "INTERRUPT"} /\ ~FakeExit
    /\ is_resume_request(Resuming.lastResume) /\ ~NeedsTask
    /\ Interrupted(Resuming)
    /\ \/ /\ MayNotifyStop
          /\ dbg' = notify_stop(dbg, At(tl.pos).t)
          /\ out' = Append(out, Reply("T", At(tl.pos).t, tl.pos))
          /\ srv' = [Resuming EXCEPT !.pending = FALSE] /\ pc' = "step"
          /\ UNCHANGED <<session, gdb, wire, sock, ctx, tl, div, ends>>
       \/ ~MayNotifyStop /\ Panics("notify_stop")

\* An interrupt with nothing to interrupt, or no task left to run.
resume_fails ==
    /\ pc = "returned" /\ srv.cur.type \in {"CONT", "INTERRUPT"} /\ ~FakeExit
    /\ \/ ~is_resume_request(Resuming.lastResume) /\ Panics("interrupt")
       \/ is_resume_request(Resuming.lastResume) /\ NeedsTask /\ Panics("no task")

-----------------------------------------------------------------------------
(* Running the replay.                                                     *)

compute_run_command_from_actions(t, r) ==
    LET match == {i \in DOMAIN r.acts : r.acts[i].tid \in {ANY, ALL, t}}
    IN match # {} /\ r.acts[Min(match)].step        \* TRUE: singlestep

\* Break status of the frame at pos.  External: see ReplaySession.
FrameBreak(pos, step) ==
    LET f == At(pos) IN
    IF \/ f.k = "signal"
       \/ is_last_thread_exit(pos)
       \/ f.k \in {"run", "write"} /\ (step \/ f.to \in tl.bps)
       \/ f.k = "write" /\ 2 \in tl.bps
    THEN Break(f.t) ELSE NoBreak

\* After the step: the stop is told, or an assertion of notify_stop fails.
Stops(s, pos, br) ==
    \/ /\ Reported(pos, br) => MayNotifyStop
       /\ maybe_notify_stop(s, pos, br, pos)
       /\ tl' = seek_to_mark(tl, pos) /\ pc' = "step"
       /\ UNCHANGED <<session, gdb, wire, sock, ctx, div, ends>>
    \/ Reported(pos, br) /\ ~MayNotifyStop /\ Panics("notify_stop")

\* The exec of the debuggee is as far forward as it goes.
run_forward_exec ==
    /\ pc = "resume" /\ srv.cur.dir = "forward"
    /\ is_in_exec(tl.pos) /\ ProcOf[At(tl.pos).t] = srv.tguid
    /\ Stops(srv, tl.pos, NoBreak)

run_forward ==
    /\ pc = "resume" /\ srv.cur.dir = "forward"
    /\ ~(is_in_exec(tl.pos) /\ ProcOf[At(tl.pos).t] = srv.tguid)
    /\ At(tl.pos).k # "termination"
    /\ LET step == compute_run_command_from_actions(At(tl.pos).t, srv.cur)
           last == is_last_thread_exit(tl.pos) /\ ProcOf[At(tl.pos).t] = srv.tguid
       IN Stops([srv EXCEPT !.endState = @ \/ last], tl.pos + 1, FrameBreak(tl.pos, step))

run_to_termination ==
    /\ pc = "resume" /\ srv.cur.dir = "forward"
    /\ HasTask(tl.pos) /\ At(tl.pos).k = "termination"
    /\ notify_exit_code(srv)

\* compute_run_command_for_reverse_exec and the stop filter.
reverse_step == \E i \in DOMAIN srv.cur.acts : srv.cur.acts[i].step
stop_filter(t) ==
    /\ ProcOf[t] = srv.tguid
    /\ \E i \in DOMAIN srv.cur.acts :
         LET a == srv.cur.acts[i].tid IN a \notin Tasks \/ ~Alive(tl.pos, a) \/ a = t

\* reverse_continue and reverse_singlestep, as ReplayTimeline promises them: the
\* latest stop before now, or the barrier at the debuggee's first run.
Barrier == Min({p \in 1..Len_ : ProcOf[trace[p].t] = srv.tguid} \cup {tl.pos})
Landings ==
    {<<p + 1, trace[p].t>> : p \in {p \in Barrier..(tl.pos - 2) : trace[p].k \in {"run", "write"} /\ trace[p].to \in tl.bps}}
    \cup {<<p, trace[p].t>> : p \in {p \in Barrier..(tl.pos - 1) : trace[p].k = "signal" \/ (trace[p].k = "write" /\ 2 \in tl.bps)}}
    \cup (IF reverse_step
          THEN {<<p, trace[p].t>> : p \in {p \in Barrier..(tl.pos - 1) : trace[p].t = srv.lastC}} ELSE {})
Allowed == {l \in Landings : stop_filter(l[2])}

run_backward ==
    /\ pc = "resume" /\ srv.cur.dir = "backward"
    /\ reverse_step => Alive(tl.pos, srv.lastC)
    /\ \/ /\ Allowed # {}
          /\ \E l \in Allowed : (\A m \in Allowed : m[1] <= l[1]) /\ Stops(srv, l[1], Break(l[2]))
       \/ Allowed = {} /\ Stops(srv, Barrier, Break(trace[Barrier].t))
       \/ sniff_packet /\ \E p \in Barrier..tl.pos : HasTask(p) /\ Stops(srv, p, NoBreak)

run_backward_fails ==
    /\ pc = "resume" /\ srv.cur.dir = "backward" /\ reverse_step /\ ~Alive(tl.pos, srv.lastC)
    /\ Panics("reverse step")

-----------------------------------------------------------------------------
(* Reaching the target, serving connections, restarting.                   *)

at_target(s, pos) ==
    /\ can_add_checkpoint(pos)
    /\ s.stopping \/ (pos > s.target /\ s.targetPid \in {0, ProcOf[At(pos).t]})

\* activate_debugger at the timeline's position pos: what a restart returns to.
activate_debugger(s, pos) ==
    [s EXCEPT !.target = pos, !.targetPid = ProcOf[At(pos).t],
              !.lastC = At(pos).t, !.lastQ = At(pos).t,
              !.restart = [pos |-> pos, explicit |-> can_add_checkpoint(pos), tuid |-> At(pos).t]]
Activated(t, pos) ==
    IF can_add_checkpoint(pos) THEN add_explicit_checkpoint(seek_to_mark(t, pos), pos) ELSE seek_to_mark(t, pos)

serve_replay ==
    /\ pc = "replay"
    /\ IF At(tl.pos).k = "termination" \/ tl.pos = Len_
       THEN Ending("end before target") /\ UNCHANGED <<tl, srv>>
       ELSE /\ tl' = seek_to_mark(tl, tl.pos + 1)
            /\ IF at_target(srv, tl.pos + 1)
               THEN pc' = "accept" /\ srv' = [srv EXCEPT !.tguid = ProcOf[At(tl.pos + 1).t]]
               ELSE UNCHANGED <<pc, srv>>
            /\ UNCHANGED ends
    /\ UNCHANGED <<session, gdb, wire, sock, out, ctx, dbg, div>>

interrupt_replay_to_target ==
    /\ pc = "replay" /\ ~srv.stopping
    /\ srv' = [srv EXCEPT !.stopping = TRUE]
    /\ UNCHANGED <<session, gdb, wire, sock, out, pc, ctx, dbg, tl, div, ends>>

\* await_connection, for the first debugger and, with -k, for every later one.
await_connection ==
    /\ pc = "accept" /\ ~gdb.open /\ HasTask(tl.pos)
    /\ gdb.conns < Sessions[session].connections
    /\ gdb' = [NewGdb EXCEPT !.conns = gdb.conns + 1, !.sent = gdb.sent, !.interrupts = gdb.interrupts]
    /\ wire' = <<>> /\ sock' = <<>> /\ out' = <<>> /\ dbg' = NewConnection
    /\ srv' = activate_debugger(srv, tl.pos) /\ tl' = Activated(tl, tl.pos)
    /\ pc' = "step" /\ ctx' = "normal"
    /\ UNCHANGED <<session, div, ends>>

\* restart_session: whatever the restart point, the breakpoints go.
Cleared == [tl EXCEPT !.bps = {}]
Restarting == [srv EXCEPT !.endState = FALSE, !.cur = NoReq, !.lastResume = NoReq]
Returning(s, t) ==
    /\ srv' = s /\ tl' = t /\ pc' = "step"
    /\ UNCHANGED <<session, gdb, wire, sock, ctx, div, ends>>
RestartsFrom(from) == pc = "returned" /\ srv.cur.type = "RESTART" /\ srv.cur.from = from

KnownCheckpoint(i) == i \in DOMAIN srv.cps /\ srv.cps[i] # NoCheckpoint

restart_failed ==
    /\ RestartsFrom("checkpoint") /\ ~KnownCheckpoint(srv.cur.arg)
    /\ dbg' = Consumed(dbg) /\ out' = Append(out, Reply("E01", ANY, 0))
    /\ Returning(Restarting, Cleared)

\* The reference moves from the old restart checkpoint to the new one.
restore_checkpoint_NoAdd(c) ==
    LET t == seek_to_mark(Cleared, c.pos)
    IN IF srv.restart.explicit THEN remove_explicit_checkpoint(t, srv.restart.pos) ELSE t
restore_checkpoint(c) ==
    LET t == seek_to_mark(Cleared, c.pos)
        u == IF srv.restart.explicit THEN remove_explicit_checkpoint(t, srv.restart.pos) ELSE t
    IN IF can_add_checkpoint(c.pos) THEN add_explicit_checkpoint(u, c.pos) ELSE u

restart_from_checkpoint ==
    /\ \/ RestartsFrom("previous")
       \/ RestartsFrom("checkpoint") /\ KnownCheckpoint(srv.cur.arg)
    /\ LET c == IF srv.cur.from = "previous" THEN srv.restart ELSE srv.cps[srv.cur.arg]
       IN Returning([Restarting EXCEPT !.pending = TRUE, !.lastQ = c.tuid, !.lastC = c.tuid, !.restart = c],
                    restore_checkpoint(c))
    /\ UNCHANGED <<dbg, out>>

\* Forward from the event to the target process, or to the exit of its last thread.
restart_from_event ==
    /\ RestartsFrom("event")
    /\ LET event == Min({srv.final - 1, srv.cur.arg})
           s == [Restarting EXCEPT !.pending = TRUE, !.stopping = FALSE, !.target = event]
           exits(p) == is_last_thread_exit(p) /\ ProcOf[trace[p].t] = srv.targetPid
           ends_at == {p \in (event + 1)..Len_ : exits(p - 1) \/ at_target(s, p)}
       IN IF ends_at = {} THEN Panics("restart")
          ELSE LET p == Min(ends_at) IN
               /\ Returning(activate_debugger([s EXCEPT !.endState = exits(p - 1)], p), Activated(Cleared, p))
               /\ UNCHANGED <<dbg, out>>

-----------------------------------------------------------------------------
Server ==
    \/ notify_restart \/ get_request \/ read_packet \/ receive_packet
    \/ dispatch_untargeted \/ dispatch_file \/ dispatch_select \/ dispatch_extra_info
    \/ notify_no_such_thread \/ dispatch_query \/ dispatch_write \/ dispatch_break
    \/ dispatch_write_siginfo \/ dispatch_qsymbol \/ dispatch_rd_cmd
    \/ LazyStep \/ LazyRegs \/ LazyEnd
    \/ divert \/ diverter_siginfo \/ diverter_unbalanced \/ diverter_rd_cmd \/ divert_return
    \/ divert_backward \/ divert_forward \/ divert_interrupt \/ divert_no_task
    \/ return_request \/ handle_exited_state \/ debug_one_step \/ fake_exit \/ detach
    \/ resume \/ interrupt_stop \/ resume_fails
    \/ run_forward_exec \/ run_forward \/ run_to_termination \/ run_backward \/ run_backward_fails
    \/ serve_replay \/ restart_failed \/ restart_from_checkpoint \/ restart_from_event

Debugger == GdbSend \/ Deliver \/ GdbInterrupt \/ GdbReceive \/ GdbClose
Next == Server \/ Debugger \/ interrupt_replay_to_target \/ await_connection

Spec == Init /\ [][Next]_vars
FairSpec == Spec /\ WF_vars(Server) /\ WF_vars(Deliver) /\ WF_vars(GdbReceive)

-----------------------------------------------------------------------------
(* What the stub promises gdb.                                             *)

\* An interrupt that crosses a stop brings gdb a second stop reply; until then
\* its requests and rd's answers are in step.
InStep == ~gdb.stray /\ \A i \in DOMAIN out : out[i].k \notin {"T", "W"}

\* The registers rd reports are those of the thread gdb is looking at: the one
\* of the last forward stop, or the one it has selected since (notify_stop's
\* query_thread against last_query_tuid, across lazy steps and diversions).
StopSelectsThread ==
    \A i \in DOMAIN out : InStep /\ out[i].k = "regs" /\ gdb.thread # ANY => out[i].t = gdb.thread

\* ... and of the position gdb was last told: lazy reverse steps, seeks and
\* restarts never leave the session elsewhere than where gdb believes it is.
PositionAgrees ==
    /\ \A i \in DOMAIN out : InStep /\ out[i].k = "regs" /\ gdb.pos # 0 => out[i].pos = gdb.pos
    /\ InStep /\ gdb.open /\ gdb.wait = "none" /\ gdb.pos # 0 /\ out = <<>> => gdb.pos = Now

\* A diversion has the breakpoints gdb has set: those of the timeline.
BreakpointsMirrored == Diverted => div.bps = tl.bps

\* Every checkpoint that something may restart from is still referenced in the
\* timeline (Checkpoint::new, restart_session, invoke_delete_checkpoint).
CheckpointsKept ==
    \A p \in DOMAIN tl.refs :
       tl.refs[p] >= Cardinality({i \in DOMAIN srv.cps : srv.cps[i].explicit /\ srv.cps[i].pos = p})
                     + (IF srv.restart.explicit /\ srv.restart.pos = p THEN 1 ELSE 0)

\* Once gdb has asked for an interrupt it hears of a stop or of the exit, unless
\* it diverts a thread that is gone.
InterruptAnswered ==
    gdb.pending ~> (~gdb.pending \/ ~gdb.open \/ pc = "gone" \/ (Diverted /\ ~Alive(tl.pos, srv.lastC)))

=============================================================================
