--------------------------- MODULE GdbServerProofs ---------------------------
(***************************************************************************)
(* Proofs about the debugger stub, for every recording, every sequence of  *)
(* packets, interrupts and connections: a diversion has the breakpoints of *)
(* the timeline, and every checkpoint that something may restart from is   *)
(* referenced in the timeline.                                             *)
(***************************************************************************)
EXTENDS GdbServer, SequenceTheorems, FiniteSetTheorems, WellFoundedInduction, TLAPS

-----------------------------------------------------------------------------
(* The inductive invariant, part by part.                                  *)

SrvFields ==
    {"tguid", "lastC", "lastQ", "pending", "lastResume", "endState", "final", "target",
     "targetPid", "stopping", "restart", "cps", "back", "now", "fwd", "cur", "lazy",
     "files", "next", "symloc", "registered"}
TlFields == {"pos", "bps", "refs"}
DivFields == {"ref", "bps", "wrote", "saved", "base"}
DbgFields == {"req", "inbuf", "packetend", "no_ack", "alive", "resume", "query"}

\* The records of the server have their fields.
Fields ==
    /\ session \in DOMAIN Sessions
    /\ DOMAIN srv = SrvFields /\ DOMAIN tl = TlFields
    /\ DOMAIN div = DivFields /\ DOMAIN dbg = DbgFields

\* What travels and waits is made of the session's packets.
Sendable(s) ==
    {Dollar(p) : p \in Sessions[s].packets}
    \cup {Symbol("#"), Symbol("checksum"), Interrupt, Ack}
Buffers ==
    /\ wire \in Seq(Sendable(session)) /\ sock \in Seq(Sendable(session))
    /\ dbg.inbuf \in Seq(Sendable(session))
    /\ pc = "packet" => dbg.inbuf # <<>>

-----------------------------------------------------------------------------
(* Facts about the operators.                                              *)

\* A nonempty set of natural numbers has a least element.
LEMMA LeastNat ==
    ASSUME NEW S, S \subseteq Nat, S # {}
    PROVE  \E x \in S : \A y \in S : x <= y
<1> DEFINE R == OpToRel(<, Nat)
<1>1. IsWellFoundedOn(R, Nat)
  BY NatLessThanWellFounded, Zenon
<1> HIDE DEF R
<1>2. \E x \in S : \A y \in S : ~(<<y, x>> \in R)
  BY Zenon, <1>1, WFMin
<1>3. PICK x \in S : \A y \in S : ~(<<y, x>> \in R)
  BY <1>2
<1>4. ASSUME NEW y \in S, y < x
      PROVE  FALSE
  <2>1. <<y, x>> \in Nat \X Nat /\ <<y, x>>[1] < <<y, x>>[2]
    BY <1>4
  <2>2. <<y, x>> \in R
    BY <2>1, Zenon DEF OpToRel, R
  <2> QED BY <1>3, <2>2
<1> QED BY <1>4

\* Min of such a set is that element.
LEMMA MinOfNats ==
    ASSUME NEW S, S \subseteq Nat, S # {}
    PROVE  Min(S) \in S /\ \A y \in S : Min(S) <= y
BY Zenon, LeastNat DEF Min

\* memchr finds an index of the buffer, or says 0.
LEMMA MemchrIn ==
    ASSUME NEW S, NEW buf \in Seq(S), NEW bs, memchr(buf, bs) # 0
    PROVE  memchr(buf, bs) \in 1 .. Len(buf)
<1> DEFINE T == {i \in DOMAIN buf : buf[i].b \in bs}
<1>1. DOMAIN buf = 1 .. Len(buf) /\ Len(buf) \in Nat
  OBVIOUS
<1>2. T \subseteq Nat /\ T # {}
  BY <1>1 DEF memchr
<1>3. PICK i \in T : \A j \in T : i <= j
  BY Zenon, <1>2, LeastNat
<1>4. i \in DOMAIN buf /\ buf[i].b \in bs /\ \A j \in 1 .. (i - 1) : buf[j].b \notin bs
  BY <1>1, <1>3
<1> QED BY <1>1, <1>4 DEF memchr

\* What is left after junk is skipped.
LEMMA SkipIn ==
    ASSUME NEW S, NEW buf \in Seq(S)
    PROVE  skip_to_packet_start(buf) \in Seq(S)
<1> DEFINE i == memchr(buf, {"$", "interrupt"})
<1>1. CASE i = 0
  BY <1>1 DEF skip_to_packet_start
<1>2. CASE i # 0
  <2>1. i \in 1 .. Len(buf)
    BY <1>2, MemchrIn
  <2>2. SubSeq(buf, i, Len(buf)) \in Seq(S)
    BY <2>1, SubSeqProperties
  <2> QED BY <1>2, <2>2 DEF skip_to_packet_start
<1> QED BY <1>1, <1>2

\* A packet that has ended is there.
LEMMA EndedPacket ==
    ASSUME NEW buf, NEW n, packet_end(buf, n) # 0
    PROVE  buf # <<>>
BY DEF packet_end

-----------------------------------------------------------------------------
(* The records keep their fields.                                          *)

\* Whatever a command does to the server, its records keep their fields.
LEMMA CommandFields ==
    ASSUME NEW s, NEW cmd, DOMAIN s = SrvFields, DOMAIN tl = TlFields
    PROVE  /\ DOMAIN process_command(s, cmd).srv = SrvFields
           /\ DOMAIN process_command(s, cmd).tl = TlFields
<1>1. DOMAIN back(s).srv = SrvFields /\ DOMAIN back(s).tl = TlFields
  BY DEF back, seek_to_mark
<1>2. DOMAIN forward(s).srv = SrvFields /\ DOMAIN forward(s).tl = TlFields
  BY DEF forward, seek_to_mark
<1>3. DOMAIN invoke_checkpoint(s).srv = SrvFields /\ DOMAIN invoke_checkpoint(s).tl = TlFields
  BY DEF invoke_checkpoint, add_explicit_checkpoint
<1>4. DOMAIN invoke_delete_checkpoint(s).srv = SrvFields /\ DOMAIN invoke_delete_checkpoint(s).tl = TlFields
  BY DEF invoke_delete_checkpoint, remove_explicit_checkpoint
<1>5. DOMAIN rd_history_push(s).srv = SrvFields /\ DOMAIN rd_history_push(s).tl = TlFields
  BY DEF rd_history_push
<1> QED BY Zenon, <1>1, <1>2, <1>3, <1>4, <1>5 DEF process_command, CmdCheckpoint, CmdDelete, CmdHistoryPush

\* So do the server's other steps to the next request.
LEMMA StepFields ==
    ASSUME Fields
    PROVE  /\ DOMAIN Aimed = SrvFields /\ DOMAIN Resuming = SrvFields
           /\ DOMAIN Restarting = SrvFields /\ DOMAIN Cleared = TlFields
           /\ DOMAIN Consumed(dbg) = DbgFields
           /\ \A t : DOMAIN notify_stop(dbg, t) = DbgFields
           /\ \A ok : DOMAIN reply_select_thread(dbg, ok) = DbgFields
<1>1. DOMAIN Aimed = SrvFields
  BY DEF Aimed, Fields
<1>2. DOMAIN Resuming = SrvFields
  BY DEF Resuming, AfterEndState, Fields
<1>3. DOMAIN Restarting = SrvFields /\ DOMAIN Cleared = TlFields
  BY DEF Restarting, Cleared, Fields
<1>4. DOMAIN Consumed(dbg) = DbgFields
  BY DEF Consumed, Fields
<1>5. \A t : DOMAIN notify_stop(dbg, t) = DbgFields
  BY <1>4 DEF notify_stop
<1>6. \A ok : DOMAIN reply_select_thread(dbg, ok) = DbgFields
  BY <1>4 DEF reply_select_thread
<1> QED BY <1>1, <1>2, <1>3, <1>4, <1>5, <1>6

\* Every step keeps the fields.
LEMMA NextFields ==
    ASSUME Fields, Next
    PROVE  Fields'
<1> USE StepFields, CommandFields
<1>1. CASE Debugger
  BY Zenon, <1>1 DEF Debugger, GdbSend, Deliver, GdbInterrupt, GdbReceive, GdbClose, Fields
<1>2. CASE notify_restart \/ get_request \/ read_packet \/ receive_packet
  BY Zenon, <1>2 DEF notify_restart, get_request, read_packet, receive_packet, Panics, Ending, Fields
<1>3. CASE dispatch_untargeted \/ dispatch_select \/ dispatch_extra_info \/ notify_no_such_thread \/ dispatch_query
  BY Zenon, <1>3 DEF dispatch_untargeted, dispatch_select, dispatch_extra_info, notify_no_such_thread, dispatch_query,
              Answers, Panics, Ending, Fields
<1>4. CASE dispatch_file \/ dispatch_write \/ dispatch_break \/ dispatch_write_siginfo \/ dispatch_qsymbol
  BY Zenon, <1>4 DEF dispatch_file, open_file, dispatch_write, dispatch_break, mirror, dispatch_write_siginfo,
              dispatch_qsymbol, Answers, Fields
<1>5. CASE dispatch_rd_cmd \/ diverter_rd_cmd
  BY <1>5 DEF dispatch_rd_cmd, diverter_rd_cmd, Answers, Fields
<1>6. CASE LazyStep \/ LazyRegs \/ LazyEnd
  BY Zenon, <1>6 DEF LazyStep, LazyRegs, LazyEnd, maybe_notify_stop, seek_to_mark, Fields
<1>7. CASE divert \/ diverter_siginfo \/ diverter_unbalanced
  BY <1>7 DEF divert, diverter_siginfo, diverter_unbalanced, Panics, Ending, Fields, DivFields
<1>8. CASE divert_return \/ divert_backward \/ divert_forward \/ divert_interrupt \/ divert_no_task
  BY Zenon, <1>8 DEF divert_return, divert_backward, divert_forward, divert_interrupt, divert_no_task, end_diversion,
              NoDiversion, maybe_notify_stop, Answers, Fields, DivFields
<1>9. CASE return_request \/ handle_exited_state \/ debug_one_step \/ fake_exit \/ run_to_termination
  BY Zenon, <1>9 DEF return_request, handle_exited_state, debug_one_step, fake_exit, run_to_termination,
              notify_exit_code, Panics, Ending, Fields
<1>10. CASE detach \/ resume \/ interrupt_stop \/ resume_fails
  BY Zenon, <1>10 DEF detach, resume, interrupt_stop, resume_fails, Panics, Ending, Fields
<1>11. ASSUME NEW s, NEW pos, NEW br, DOMAIN s = SrvFields, Stops(s, pos, br)
       PROVE  Fields'
  BY Zenon, <1>11 DEF Stops, maybe_notify_stop, seek_to_mark, Panics, Ending, Fields
<1>12. CASE run_forward_exec \/ run_forward \/ run_backward \/ run_backward_fails
  <2>1. CASE run_forward_exec
    BY <1>11, <2>1 DEF run_forward_exec, Fields
  <2>2. CASE run_forward
    <3> DEFINE s(b) == [srv EXCEPT !.endState = b]
    <3>1. PICK b, br : Stops(s(b), tl.pos + 1, br)
      BY Zenon, <2>2 DEF run_forward
    <3>2. DOMAIN s(b) = SrvFields
      BY DEF Fields
    <3> QED BY <1>11, <3>1, <3>2
  <2>3. CASE run_backward
    BY <1>11, <2>3 DEF run_backward, Fields
  <2>4. CASE run_backward_fails
    BY Zenon, <2>4 DEF run_backward_fails, Panics, Ending, Fields
  <2> QED BY <1>12, <2>1, <2>2, <2>3, <2>4
<1>13. CASE serve_replay \/ interrupt_replay_to_target \/ await_connection
  BY Zenon, <1>13 DEF serve_replay, seek_to_mark, interrupt_replay_to_target, await_connection, NewConnection,
               activate_debugger, Activated, add_explicit_checkpoint, Ending, Fields, DbgFields
<1>14. CASE restart_failed \/ restart_from_checkpoint
  BY Zenon, <1>14 DEF restart_failed, restart_from_checkpoint, Returning, restore_checkpoint, seek_to_mark,
               remove_explicit_checkpoint, add_explicit_checkpoint, Fields
<1>15. CASE restart_from_event
  BY Zenon, <1>15 DEF restart_from_event, Returning, Activated, activate_debugger, seek_to_mark,
               add_explicit_checkpoint, Panics, Ending, Fields
<1> QED
  BY Zenon, <1>1, <1>2, <1>3, <1>4, <1>5, <1>6, <1>7, <1>8, <1>9, <1>10, <1>12, <1>13, <1>14, <1>15
     DEF Next, Server

-----------------------------------------------------------------------------
(* Where the server is, and the breakpoints of a diversion.                *)

AskingGdb == {"request", "read", "packet", "dispatch", "gone"}

\* A diversion and lazy reverse steps live only between requests, a diversion
\* returns to its caller, and it has the timeline's breakpoints.
Callers ==
    /\ pc \in {"replay", "accept", "step", "returned", "resume"} \cup AskingGdb
    /\ ctx \in {"normal", "dead", "lazy", "divert"}
    /\ ctx \in {"lazy", "divert"} => pc \in AskingGdb
    /\ ctx = "divert" => div.base \in {"normal", "dead"} /\ div.bps = tl.bps

\* Every step keeps that.
LEMMA NextCallers ==
    ASSUME Fields, Callers, Next
    PROVE  Callers'
<1> USE DEF Fields, Callers, AskingGdb, TlFields, DivFields
<1>1. CASE Debugger
  BY Zenon, <1>1 DEF Debugger, GdbSend, Deliver, GdbInterrupt, GdbReceive, GdbClose
<1>2. CASE notify_restart \/ get_request \/ read_packet \/ receive_packet
  BY Zenon, <1>2 DEF notify_restart, get_request, read_packet, receive_packet, Panics, Ending
<1>3. CASE dispatch_untargeted \/ dispatch_select \/ dispatch_extra_info \/ notify_no_such_thread \/ dispatch_query
  BY Zenon, <1>3 DEF dispatch_untargeted, dispatch_select, dispatch_extra_info, notify_no_such_thread, dispatch_query,
              Answers, Panics, Ending
<1>4. CASE dispatch_file \/ dispatch_write \/ dispatch_write_siginfo \/ dispatch_qsymbol
  BY <1>4 DEF dispatch_file, dispatch_write, dispatch_write_siginfo, dispatch_qsymbol, Answers
<1>5. CASE dispatch_break
  BY Zenon, <1>5 DEF dispatch_break, mirror, Diverted
<1>6. CASE dispatch_rd_cmd \/ diverter_rd_cmd
  <2>1. ASSUME NEW s, NEW cmd PROVE process_command(s, cmd).tl.bps = tl.bps
    <3>1. back(s).tl.bps = tl.bps /\ forward(s).tl.bps = tl.bps
      BY DEF back, forward, seek_to_mark
    <3>2. invoke_checkpoint(s).tl.bps = tl.bps /\ invoke_delete_checkpoint(s).tl.bps = tl.bps
      BY DEF invoke_checkpoint, invoke_delete_checkpoint, add_explicit_checkpoint, remove_explicit_checkpoint
    <3>3. rd_history_push(s).tl.bps = tl.bps
      BY DEF rd_history_push
    <3> QED BY Zenon, <3>1, <3>2, <3>3 DEF process_command, CmdCheckpoint, CmdDelete, CmdHistoryPush
  <2> QED BY <1>6, <2>1 DEF dispatch_rd_cmd, diverter_rd_cmd, Answers
<1>7. CASE LazyStep \/ LazyRegs \/ LazyEnd
  BY <1>7 DEF LazyStep, LazyRegs, LazyEnd
<1>8. CASE divert \/ diverter_siginfo \/ diverter_unbalanced
  BY <1>8 DEF divert, diverter_siginfo, diverter_unbalanced, Dispatching, Diverted, Panics, Ending
<1>9. CASE divert_return \/ divert_backward \/ divert_forward \/ divert_interrupt \/ divert_no_task
  BY <1>9 DEF divert_return, divert_backward, divert_forward, divert_interrupt, divert_no_task, DivertResumes,
              Diverted, Answers
<1>10. CASE return_request \/ handle_exited_state \/ debug_one_step \/ fake_exit \/ run_to_termination
  BY Zenon, <1>10 DEF return_request, handle_exited_state, debug_one_step, fake_exit, run_to_termination,
               notify_exit_code, Panics, Ending
<1>11. CASE detach \/ resume \/ interrupt_stop \/ resume_fails
  BY Zenon, <1>11 DEF detach, resume, interrupt_stop, resume_fails, Panics, Ending
<1>12. CASE run_forward_exec \/ run_forward \/ run_backward \/ run_backward_fails
  <2>1. pc = "resume" /\ ctx' = ctx /\ pc' \in {"step", "gone"}
    BY Zenon, <1>12 DEF run_forward_exec, run_forward, run_backward, run_backward_fails, Stops, Panics, Ending
  <2> QED BY <2>1
<1>13. CASE serve_replay \/ interrupt_replay_to_target \/ await_connection
  BY Zenon, <1>13 DEF serve_replay, interrupt_replay_to_target, await_connection, Ending
<1>14. CASE restart_failed \/ restart_from_checkpoint \/ restart_from_event
  <2>1. pc = "returned" /\ ctx' = ctx /\ pc' \in {"step", "gone"}
    BY Zenon, <1>14 DEF restart_failed, restart_from_checkpoint, restart_from_event, RestartsFrom, Returning, Panics, Ending
  <2> QED BY <2>1
<1> QED
  BY Zenon, <1>1, <1>2, <1>3, <1>4, <1>5, <1>6, <1>7, <1>8, <1>9, <1>10, <1>11, <1>12, <1>13, <1>14
     DEF Next, Server

\* Both hold at the start.
LEMMA InitCallers ==
    ASSUME Init
    PROVE  Fields /\ Callers
BY Zenon DEF Init, NewConnection, NoDiversion, Fields, Callers, AskingGdb, SrvFields, TlFields, DivFields, DbgFields

\* For every recording and whatever gdb sends: while a diversion is served, the
\* breakpoints in it are those of the timeline, set and removed before or during
\* the diversion (dispatch_debugger_request, GdbServer::divert).
THEOREM GdbBreakpointsMirrored == Spec => []BreakpointsMirrored
<1>1. Init => Fields /\ Callers
  BY InitCallers
<1>2. Fields /\ Callers /\ [Next]_vars => (Fields /\ Callers)'
  <2>1. ASSUME Fields, Callers, Next PROVE (Fields /\ Callers)'
    BY Zenon, <2>1, NextFields, NextCallers
  <2>2. ASSUME Fields, Callers, UNCHANGED vars PROVE (Fields /\ Callers)'
    BY Zenon, <2>2 DEF vars, Fields, Callers
  <2> QED BY Zenon, <2>1, <2>2
<1>3. Fields /\ Callers => BreakpointsMirrored
  BY Zenon DEF Callers, BreakpointsMirrored, Diverted
<1> QED BY <1>1, <1>2, <1>3, PTL DEF Spec

-----------------------------------------------------------------------------
(* What arrives, and the numbers in it.                                    *)

\* The number in a request is what the packet gave, or 0.
LEMMA RequestNumbers ==
    /\ NoReq.arg \in Nat
    /\ \A ty : Request(ty).arg \in Nat /\ Ask(Request(ty)).req.arg \in Nat
    /\ \A ty, a : Naming(ty, a).arg \in Nat /\ Ask(Naming(ty, a)).req.arg \in Nat
    /\ \A ty, a : Ask(Cont(ty, a)).req.arg \in Nat
    /\ \A ty : \A a \in Nat : Ask(With(ty, a)).req.arg \in Nat
    /\ \A ty, x : \A a \in Nat : Ask([With(ty, a) EXCEPT !.from = x]).req.arg \in Nat
    /\ \A ty, x : \A a \in Nat : Ask([Naming(ty, x) EXCEPT !.arg = a]).req.arg \in Nat
    /\ \A x : Answer(x).req.arg \in Nat
    /\ Unhandled.req.arg \in Nat
<1>1. NoReq.arg = 0 /\ \A r : Ask(r).req = r
  BY DEF NoReq, Ask
<1>2. \A ty, a : Request(ty).arg = 0 /\ With(ty, a).arg = a /\ Naming(ty, a).arg = 0
  BY DEF NoReq, Request, With, Naming
<1>3. \A ty, a : Cont(ty, a).arg = 0
  BY DEF NoReq, Cont
<1> DEFINE V(ty, a, x) == [With(ty, a) EXCEPT !.from = x]
           W(ty, a, x) == [Naming(ty, x) EXCEPT !.arg = a]
<1>4. \A ty, a, x : V(ty, a, x).arg = a /\ W(ty, a, x).arg = a
  BY DEF NoReq, With, Naming
<1> HIDE DEF V, W
<1>5. Unhandled.req = NoReq /\ \A x : Answer(x).req = NoReq
  BY DEF Unhandled, Answer
<1>6. \A ty, a : Ask(Request(ty)).req.arg = 0 /\ Ask(Naming(ty, a)).req.arg = 0 /\ Ask(Cont(ty, a)).req.arg = 0
  BY <1>1, <1>2, <1>3
<1>7. \A ty, a, x : /\ Ask(With(ty, a)).req.arg = a
                   /\ Ask(V(ty, a, x)).req.arg = a /\ Ask(W(ty, a, x)).req.arg = a
  BY <1>1, <1>2, <1>4
<1>8. Unhandled.req.arg = 0 /\ \A x : Answer(x).req.arg = 0
  BY Zenon, <1>1, <1>5
<1>9. 0 \in Nat
  OBVIOUS
<1>10. \A ty, x : \A a \in Nat : /\ Ask(With(ty, a)).req.arg \in Nat
                                 /\ Ask(V(ty, a, x)).req.arg \in Nat /\ Ask(W(ty, a, x)).req.arg \in Nat
  BY <1>7
<1>11. \A ty, a : /\ Request(ty).arg \in Nat /\ Ask(Request(ty)).req.arg \in Nat
                  /\ Naming(ty, a).arg \in Nat /\ Ask(Naming(ty, a)).req.arg \in Nat
                  /\ Ask(Cont(ty, a)).req.arg \in Nat
  BY <1>2, <1>6
<1>12. NoReq.arg \in Nat /\ Unhandled.req.arg \in Nat /\ \A x : Answer(x).req.arg \in Nat
  BY <1>1, <1>8
<1> QED BY Zenon, <1>10, <1>11, <1>12 DEF V, W

\* The number in a request comes from the packet.
LEMMA RequestArg ==
    ASSUME NEW p, NEW d, p.a \in Nat
    PROVE  process_packet(p, d).req.arg \in Nat
<1> USE RequestNumbers
<1>0. 0 \in Nat /\ 1 \in Nat /\ 2 \in Nat
  OBVIOUS
<1>1. process_bpacket(p, d).req.arg \in Nat
  BY Zenon DEF process_bpacket
<1>2. process_watch(p).req.arg \in Nat
  BY Zenon DEF process_watch
<1>3. set_var(p).req.arg \in Nat
  BY Zenon DEF set_var
<1>4. xfer(p, d).req.arg \in Nat
  <2>1. xfer_auxv(p, d).req.arg \in Nat /\ xfer_exec_file(p).req.arg \in Nat
    BY Zenon DEF xfer_auxv, xfer_exec_file
  <2>2. xfer_siginfo(p, d).req.arg \in Nat /\ xfer_features(p).req.arg \in Nat
    BY Zenon DEF xfer_siginfo, xfer_features, write_xfer_response
  <2> QED BY Zenon, <2>1, <2>2 DEF xfer
<1>5. query_symbol(p).req.arg \in Nat
  BY Zenon, <1>0 DEF query_symbol
<1>6. p.k \in Queries => query(p, d).req.arg \in Nat
  BY Zenon, <1>4, <1>5 DEF query, Queries
<1>7. process_vpacket(p).req.arg \in Nat
  <2>1. p.k \in Conts => vCont(p).req.arg \in Nat
    BY Zenon DEF vCont, Conts
  <2>2. vRun(p).req.arg \in Nat
    BY Zenon DEF vRun
  <2>3. p.k \in Files => vFile(p).req.arg \in Nat
    BY Zenon DEF vFile, Files
  <2> QED BY Zenon, <2>1, <2>2, <2>3 DEF process_vpacket
<1> QED BY ZenonT(60), <1>1, <1>2, <1>3, <1>6, <1>7 DEF process_packet

\* The numbers in the session's packets are not negative.
LEMMA SendableNumbers ==
    ASSUME Fields, NEW x \in Sendable(session)
    PROVE  x.p.a \in Nat
<1>1. CASE \E p \in Sessions[session].packets : x = Dollar(p)
  <2>1. PICK p \in Sessions[session].packets : x = Dollar(p)
    BY <1>1
  <2>2. p.a \in Nat
    BY SessionsAssumption DEF Fields
  <2> QED BY <2>1, <2>2 DEF Dollar
<1>2. CASE \E b : x = Symbol(b)
  <2>1. PICK b : x = Symbol(b)
    BY <1>2
  <2> QED BY Zenon, <2>1 DEF Symbol
<1> QED BY Zenon, <1>1, <1>2 DEF Sendable, Interrupt, Ack

\* What has arrived and the numbers in the request that is served.
Traffic == Buffers /\ dbg.req.arg \in Nat

\* A reply leaves the input alone and ends the request.
LEMMA Replies ==
    ASSUME Fields
    PROVE  /\ Consumed(dbg).inbuf = dbg.inbuf /\ Consumed(dbg).req = NoReq
           /\ \A t : notify_stop(dbg, t).inbuf = dbg.inbuf /\ notify_stop(dbg, t).req = NoReq
           /\ \A ok : /\ reply_select_thread(dbg, ok).inbuf = dbg.inbuf
                      /\ reply_select_thread(dbg, ok).req = NoReq
<1>1. Consumed(dbg).inbuf = dbg.inbuf /\ Consumed(dbg).req = NoReq
  BY DEF Consumed, Fields, DbgFields
<1>2. DOMAIN Consumed(dbg) = DbgFields
  BY StepFields
<1>3. \A t : notify_stop(dbg, t).inbuf = dbg.inbuf /\ notify_stop(dbg, t).req = NoReq
  BY <1>1, <1>2 DEF notify_stop, DbgFields
<1>4. \A ok : reply_select_thread(dbg, ok).inbuf = dbg.inbuf /\ reply_select_thread(dbg, ok).req = NoReq
  BY <1>1, <1>2 DEF reply_select_thread, DbgFields
<1> QED BY <1>1, <1>3, <1>4

\* Steps that read nothing.
Quiet ==
    /\ UNCHANGED <<session, wire, sock>> /\ pc' # "packet"
    /\ dbg'.inbuf = dbg.inbuf /\ dbg'.req.arg \in Nat

\* The steps of the server that read nothing are quiet.
LEMMA QuietSteps ==
    ASSUME Fields, Traffic, Server, ~read_packet, ~receive_packet, ~get_request
    PROVE  Quiet
<1>1. NoReq.arg \in Nat /\ \A ty, t : Naming(ty, t).arg \in Nat
  BY Zenon, RequestNumbers
<1> USE <1>1, Replies DEF Traffic, Quiet
<1>2. CASE notify_restart
  BY <1>2 DEF notify_restart, Fields, DbgFields
<1>3. CASE dispatch_untargeted \/ dispatch_select \/ dispatch_extra_info \/ notify_no_such_thread \/ dispatch_query
  BY Zenon, <1>3 DEF dispatch_untargeted, dispatch_select, dispatch_extra_info, notify_no_such_thread, dispatch_query,
              Answers, Panics, Ending
<1>4. CASE dispatch_file \/ dispatch_write \/ dispatch_break \/ dispatch_write_siginfo \/ dispatch_qsymbol
  BY <1>4 DEF dispatch_file, dispatch_write, dispatch_break, dispatch_write_siginfo, dispatch_qsymbol, Answers
<1>5. CASE dispatch_rd_cmd \/ diverter_rd_cmd
  BY <1>5 DEF dispatch_rd_cmd, diverter_rd_cmd, Answers
<1>6. CASE LazyStep \/ LazyRegs \/ LazyEnd
  BY <1>6 DEF LazyStep, LazyRegs, LazyEnd, maybe_notify_stop
<1>7. CASE divert \/ diverter_siginfo \/ diverter_unbalanced
  BY <1>7 DEF divert, diverter_siginfo, diverter_unbalanced, Panics, Ending
<1>8. CASE divert_return \/ divert_backward \/ divert_forward \/ divert_interrupt \/ divert_no_task
  BY <1>8 DEF divert_return, divert_backward, divert_forward, divert_interrupt, divert_no_task,
              maybe_notify_stop, Answers
<1>9. CASE return_request \/ handle_exited_state \/ debug_one_step \/ fake_exit \/ run_to_termination
  BY Zenon, <1>9 DEF return_request, handle_exited_state, debug_one_step, fake_exit, run_to_termination,
              notify_exit_code, Panics, Ending
<1>10. CASE detach \/ resume \/ interrupt_stop \/ resume_fails
  <2>1. CASE detach \/ resume
    BY Zenon, <2>1 DEF detach, resume, Ending
  <2>2. CASE interrupt_stop \/ resume_fails
    <3>1. UNCHANGED <<session, wire, sock>> /\ pc' \in {"step", "gone"}
      BY Zenon, <2>2 DEF interrupt_stop, resume_fails, Panics, Ending
    <3>2. dbg' = dbg \/ dbg' = notify_stop(dbg, At(tl.pos).t)
      BY Zenon, <2>2 DEF interrupt_stop, resume_fails, Panics
    <3> QED BY <3>1, <3>2
  <2> QED BY Zenon, <1>10, <2>1, <2>2
<1>11. ASSUME NEW s, NEW pos, NEW br, Stops(s, pos, br)
       PROVE  Quiet
  BY <1>11 DEF Stops, maybe_notify_stop, Panics, Ending
<1>12. CASE run_forward_exec \/ run_forward \/ run_backward \/ run_backward_fails
  <2>1. CASE \E s, pos, br : Stops(s, pos, br)
    BY Zenon, <1>11, <2>1
  <2>2. CASE Panics("reverse step")
    BY Zenon, <2>2 DEF Panics, Ending
  <2> QED BY Zenon, <1>12, <2>1, <2>2 DEF run_forward_exec, run_forward, run_backward, run_backward_fails
<1>13. CASE serve_replay
  BY Zenon, <1>13 DEF serve_replay, Ending
<1>14. CASE restart_failed \/ restart_from_checkpoint \/ restart_from_event
  BY Zenon, <1>14 DEF restart_failed, restart_from_checkpoint, restart_from_event, Returning, Panics, Ending
<1> QED
  BY Zenon, <1>2, <1>3, <1>4, <1>5, <1>6, <1>7, <1>8, <1>9, <1>10, <1>12, <1>13, <1>14 DEF Server

\* Reading packets takes apart what gdb has sent.
LEMMA ReadingTraffic ==
    ASSUME Fields, Traffic, get_request \/ read_packet \/ receive_packet
    PROVE  Traffic'
<1> DEFINE S == Sendable(session)
<1>0. dbg.inbuf \in Seq(S) /\ sock \in Seq(S) /\ wire \in Seq(S) /\ dbg.req.arg \in Nat
  BY DEF Traffic, Buffers
<1>1. S' = S /\ wire' = wire
  BY Zenon DEF get_request, Panics, read_packet, receive_packet, Sendable
<1>s. SUFFICES /\ sock' \in Seq(S) /\ dbg'.inbuf \in Seq(S) /\ dbg'.req.arg \in Nat
               /\ pc' = "packet" => dbg'.inbuf # <<>>
  BY Zenon, <1>0, <1>1 DEF Traffic, Buffers
<1> HIDE DEF S
<1>2. \A b \in Seq(S) : skip_to_packet_start(b) \in Seq(S)
  BY Zenon, SkipIn
<1>3. CASE get_request
  <2>1. CASE Panics("unanswered")
    BY <1>0, <2>1 DEF Panics, Ending
  <2>2. CASE /\ dbg' = [dbg EXCEPT !.inbuf = skip_to_packet_start(dbg.inbuf)]
             /\ pc' = IF ~sniff_packet /\ is_resume_request(dbg.req) THEN "dispatch" ELSE "read"
             /\ sock' = sock
    <3>1. pc' \in {"dispatch", "read"} /\ sock' = sock
      BY Zenon, <2>2
    <3>2. dbg'.inbuf = skip_to_packet_start(dbg.inbuf) /\ dbg'.req = dbg.req
      BY <2>2 DEF Fields, DbgFields
    <3>3. skip_to_packet_start(dbg.inbuf) \in Seq(S)
      BY Zenon, <1>0, <1>2
    <3> QED BY <1>0, <3>1, <3>2, <3>3
  <2> QED BY Zenon, <1>3, <2>1, <2>2 DEF get_request
<1>4. CASE read_packet
  <2> DEFINE old == dbg.inbuf
             buf == skip_to_packet_start(old \o sock)
             end == packet_end(buf, IF old = <<>> \/ packet_end(old, 0) # 0 THEN 0 ELSE Len(old))
  <2>0. buf \in Seq(S)
    <3>1. dbg.inbuf \o sock \in Seq(S)
      BY <1>0
    <3> QED BY Zenon, <1>2, <3>1
  <2> HIDE DEF buf
  <2>1. CASE /\ packet_end(old, 0) # 0
             /\ dbg' = [dbg EXCEPT !.packetend = packet_end(old, 0)]
             /\ pc' = "packet" /\ UNCHANGED sock
    <3>1. old # <<>>
      BY Zenon, <2>1, EndedPacket
    <3> QED BY <1>0, <2>1, <3>1 DEF Fields, DbgFields
  <2>2. CASE /\ dbg' = [dbg EXCEPT !.inbuf = buf, !.packetend = end]
             /\ pc' = IF end = 0 THEN "read" ELSE "packet"
             /\ sock' = <<>>
    <3>1. end # 0 => buf # <<>>
      BY Zenon, EndedPacket
    <3> HIDE DEF end
    <3> QED BY <1>0, <2>0, <2>2, <3>1 DEF Fields, DbgFields
  <2>3. CASE /\ dbg' = [dbg EXCEPT !.alive = FALSE, !.req = Request("DETACH")]
             /\ pc' = "dispatch" /\ UNCHANGED sock
    <3>1. Request("DETACH").arg \in Nat
      BY Zenon, RequestNumbers
    <3>2. dbg'.inbuf = dbg.inbuf /\ dbg'.req = Request("DETACH")
      BY <2>3 DEF Fields, DbgFields
    <3> QED BY <1>0, <2>3, <3>1, <3>2
  <2> QED BY Zenon, <1>4, <2>1, <2>2, <2>3 DEF read_packet, buf
<1>5. CASE receive_packet
  <2>0. sock' = sock
    BY Zenon, <1>5 DEF receive_packet
  <2>1. CASE pc # "packet"
    BY Zenon, <1>5, <2>1 DEF receive_packet
  <2>2. dbg.inbuf # <<>> /\ pc = "packet"
    BY Zenon, <1>5 DEF receive_packet, Traffic, Buffers
  <2>3. CASE /\ dbg' = [dbg EXCEPT !.req = Request("INTERRUPT"), !.inbuf = Tail(@)]
             /\ pc' = "dispatch"
    <3>1. Request("INTERRUPT").arg \in Nat
      BY Zenon, RequestNumbers
    <3>2. dbg'.inbuf = Tail(dbg.inbuf) /\ dbg'.req = Request("INTERRUPT")
      BY <2>3 DEF Fields, DbgFields
    <3>3. Tail(dbg.inbuf) \in Seq(S)
      BY <1>0, <2>2
    <3> QED BY <1>0, <2>0, <2>3, <3>1, <3>2, <3>3
  <2>4. CASE dbg' = dbg /\ pc' = "gone"
    BY <1>0, <2>0, <2>4
  <2>5. CASE /\ memchr(dbg.inbuf, {"#"}) = dbg.packetend
             /\ \E r : /\ dbg' = [dbg EXCEPT !.req = process_packet(Head(dbg.inbuf).p, dbg).req,
                                   !.inbuf = skip_to_packet_start(SubSeq(@, dbg.packetend + 1, Len(@))),
                                   !.no_ack = r]
                       /\ pc' \in {"dispatch", "read"}
    <3> DEFINE n == memchr(dbg.inbuf, {"#"})
               rest == skip_to_packet_start(SubSeq(dbg.inbuf, n + 1, Len(dbg.inbuf)))
               req == process_packet(Head(dbg.inbuf).p, dbg).req
    <3>1. n \in 0 .. Len(dbg.inbuf)
      <4>1. CASE n = 0
        BY <1>0, <4>1
      <4>2. CASE n # 0
        BY <1>0, <4>2, MemchrIn
      <4> QED BY <4>1, <4>2
    <3>2. SubSeq(dbg.inbuf, n + 1, Len(dbg.inbuf)) \in Seq(S)
      BY <1>0, <3>1
    <3>3. rest \in Seq(S)
      BY Zenon, <1>2, <3>2
    <3>4. Head(dbg.inbuf) \in S
      BY <1>0, <2>2
    <3>5. req.arg \in Nat
      BY Zenon, <3>4, SendableNumbers, RequestArg DEF S
    <3>6. dbg'.inbuf = rest /\ dbg'.req = req
      <4> HIDE DEF req, n
      <4>1. PICK r : dbg' = [dbg EXCEPT !.req = req, !.inbuf = rest, !.no_ack = r]
        BY Zenon, <2>5 DEF req, n
      <4> HIDE DEF rest
      <4> QED BY <4>1 DEF Fields, DbgFields
    <3> HIDE DEF req, rest, n
    <3> QED BY <1>0, <2>0, <2>5, <3>3, <3>5, <3>6
  <2> QED BY ZenonT(60), <1>5, <2>3, <2>4, <2>5 DEF receive_packet, Ending
<1> QED BY Zenon, <1>3, <1>4, <1>5

\* What gdb sends is made of its packets, acknowledgements and interrupts.
LEMMA SendingTraffic ==
    ASSUME Fields, Traffic, Debugger
    PROVE  Traffic'
<1> DEFINE S == Sendable(session)
<1>0. sock \in Seq(S) /\ wire \in Seq(S)
  BY DEF Traffic, Buffers
<1>1. S' = S /\ dbg' = dbg /\ pc' = pc
  BY Zenon DEF Debugger, GdbSend, Deliver, GdbInterrupt, GdbReceive, GdbClose, Sendable
<1>s. SUFFICES sock' \in Seq(S) /\ wire' \in Seq(S)
  BY Zenon, <1>1 DEF Traffic, Buffers
<1>2. /\ Interrupt \in S /\ Ack \in S /\ Symbol("#") \in S /\ Symbol("checksum") \in S
      /\ \A p \in Sessions[session].packets : Dollar(p) \in S
  BY Zenon DEF Sendable
<1> HIDE DEF S
<1>3. CASE GdbSend
  <2>1. PICK p \in Sessions[session].packets :
           \/ sock' = sock \o Wire(p) /\ wire' = wire
           \/ sock' = Append(sock, Head(Wire(p))) /\ wire' = Tail(Wire(p))
    BY Zenon, <1>3 DEF GdbSend
  <2> DEFINE d == Dollar(p)
             h == Symbol("#")
             c == Symbol("checksum")
  <2>2. d \in S /\ h \in S /\ c \in S /\ Wire(p) = <<d, h, c>>
    BY Zenon, <1>2 DEF Wire
  <2> HIDE DEF d, h, c
  <2>3. Wire(p) \in Seq(S) /\ Head(Wire(p)) \in S /\ Tail(Wire(p)) \in Seq(S)
    BY <2>2
  <2>4. sock \o Wire(p) \in Seq(S) /\ Append(sock, Head(Wire(p))) \in Seq(S)
    BY <1>0, <2>3
  <2> QED BY Zenon, <1>0, <2>1, <2>3, <2>4
<1>4. CASE Deliver
  BY <1>0, <1>4 DEF Deliver
<1>5. CASE GdbInterrupt
  <2>1. wire' = wire /\ sock' = Append(sock, Interrupt)
    BY Zenon, <1>5 DEF GdbInterrupt
  <2> QED BY <1>0, <1>2, <2>1
<1>6. CASE GdbReceive
  <2>1. wire' = wire /\ (sock' = sock \/ sock' = Append(sock, Ack))
    BY Zenon, <1>6 DEF GdbReceive
  <2> QED BY <1>0, <1>2, <2>1
<1>7. CASE GdbClose
  BY Zenon, <1>0, <1>7 DEF GdbClose
<1> QED BY Zenon, <1>3, <1>4, <1>5, <1>6, <1>7 DEF Debugger

\* Every step keeps what is known of the traffic.
LEMMA NextTraffic ==
    ASSUME Fields, Traffic, Next
    PROVE  Traffic'
<1>1. CASE Debugger
  BY Zenon, <1>1, SendingTraffic
<1>2. CASE get_request \/ read_packet \/ receive_packet
  BY Zenon, <1>2, ReadingTraffic
<1>3. CASE Server /\ ~(get_request \/ read_packet \/ receive_packet)
  <2>1. Quiet
    BY Zenon, <1>3, QuietSteps
  <2> QED BY Zenon, <2>1 DEF Quiet, Traffic, Buffers, Sendable
<1>4. CASE interrupt_replay_to_target
  BY Zenon, <1>4 DEF interrupt_replay_to_target, Traffic, Buffers, Sendable
<1>5. CASE await_connection
  <2>1. /\ wire' = <<>> /\ sock' = <<>> /\ dbg'.inbuf = <<>> /\ dbg'.req = NoReq /\ pc' = "step"
    BY <1>5 DEF await_connection, NewConnection
  <2>2. NoReq.arg \in Nat
    BY Zenon, RequestNumbers
  <2> QED BY <2>1, <2>2 DEF Traffic, Buffers
<1> QED BY Zenon, <1>1, <1>2, <1>3, <1>4, <1>5 DEF Next

-----------------------------------------------------------------------------
(* Where the replay stands, and the threads the server names.              *)

Places == 1 .. (Len_ + 1)
TaskOrNone == Tasks \cup {0}

\* The replay stands in the recording, before a frame when a frame is to be
\* replayed; the debuggee is a process of the recording.
Standing ==
    /\ tl.pos \in Places
    /\ ctx = "lazy" => srv.lazy \in Places
    /\ pc = "resume" /\ srv.cur.dir = "forward" => HasTask(tl.pos)
    /\ pc = "replay" => HasTask(tl.pos)
    /\ pc \notin {"replay", "gone"} => \E p \in 1 .. Len_ : ProcOf[trace[p].t] = srv.tguid

\* The threads selected are threads of the recording.
Threads == srv.lastC \in TaskOrNone /\ srv.lastQ \in TaskOrNone /\ div.saved \in TaskOrNone

\* The numbers in the requests at hand, and the event of the exit.
Numbers == srv.cur.arg \in Nat /\ srv.lastResume.arg \in Nat /\ srv.final \in Nat \ {0}

\* Where gdb's `back' and `forward' commands lead.
History ==
    /\ srv.back \in Seq(Places) /\ srv.fwd \in Seq(Places) /\ srv.now \in {0} \cup Places
    /\ srv.back # <<>> \/ srv.fwd # <<>> => srv.now # 0

Cps == [pos : {0} \cup Places, explicit : BOOLEAN, tuid : TaskOrNone]
\* A checkpoint with a reference is at a place that can have one.
Sound(c) == c \in Cps /\ (c.explicit => can_add_checkpoint(c.pos)) /\ (c.pos = 0 => c = NoCheckpoint)

\* The checkpoints, their references, and the one to restart from.
Checkpoints ==
    /\ srv.cps \in Seq(Cps) /\ \A i \in DOMAIN srv.cps : Sound(srv.cps[i])
    /\ Sound(srv.restart)
    /\ pc \notin {"replay", "accept", "gone"} => srv.restart.pos # 0
    /\ tl.refs \in [Places -> Nat]
    /\ CheckpointsKept

Placed == Standing /\ Threads /\ Numbers /\ History /\ Checkpoints
ServerInv == Fields /\ Callers /\ Traffic /\ Placed

\* Recordings have frames, of known threads.
LEMMA Recorded ==
    ASSUME Fields
    PROVE  /\ trace \in Seq([t : Tasks, k : STRING, to : Nat]) /\ Len_ \in Nat \ {0}
           /\ \A p \in 1 .. Len_ : trace[p].t \in Tasks
<1>1. trace \in Seq([t : DOMAIN ProcOf, k : STRING, to : Nat]) \ {<<>>}
  BY Zenon, SessionsAssumption DEF Fields, trace
<1> DEFINE R == [t : DOMAIN ProcOf, k : STRING, to : Nat]
<1>2. \A r \in R : r.t \in DOMAIN ProcOf
  OBVIOUS
<1> HIDE DEF R
<1>3. trace \in Seq(R) /\ trace # <<>>
  BY Zenon, <1>1 DEF R
<1>4. Len(trace) \in Nat \ {0} /\ \A p \in 1 .. Len(trace) : trace[p] \in R
  BY <1>3
<1> QED BY Zenon, <1>1, <1>2, <1>4 DEF Len_, Tasks

\* The commands of gdb's script move along the history.
LEMMA Commands ==
    ASSUME Fields, NEW s, DOMAIN s = SrvFields, NEW cmd
    PROVE  LET r == process_command(s, cmd) IN
           /\ \A f \in SrvFields \ {"cps", "back", "now", "fwd"} : r.srv[f] = s[f]
           /\ cmd # 2 /\ cmd # 3 => r.tl.pos = tl.pos
           /\ cmd # 4 /\ cmd # 5 => r.srv.cps = s.cps /\ r.tl.refs = tl.refs
           /\ cmd \notin {2, 3, 6} => r.srv.back = s.back /\ r.srv.now = s.now /\ r.srv.fwd = s.fwd
<1> DEFINE Rest == SrvFields \ {"cps", "back", "now", "fwd"}
<1> USE DEF Fields, TlFields
<1>1. /\ \A f \in Rest : back(s).srv[f] = s[f] /\ forward(s).srv[f] = s[f]
      /\ back(s).srv.cps = s.cps /\ forward(s).srv.cps = s.cps
      /\ back(s).tl.refs = tl.refs /\ forward(s).tl.refs = tl.refs
  BY Zenon DEF back, forward, seek_to_mark, SrvFields
<1>2. /\ \A f \in Rest : rd_history_push(s).srv[f] = s[f]
      /\ rd_history_push(s).srv.cps = s.cps /\ rd_history_push(s).tl = tl
  BY Zenon DEF rd_history_push, SrvFields
<1>3. LET r == invoke_checkpoint(s) IN
      /\ \A f \in SrvFields \ {"cps"} : r.srv[f] = s[f]
      /\ r.tl.pos = tl.pos
  BY DEF invoke_checkpoint, add_explicit_checkpoint, SrvFields
<1>4. LET r == invoke_delete_checkpoint(s) IN
      /\ \A f \in SrvFields \ {"cps"} : r.srv[f] = s[f]
      /\ r.tl.pos = tl.pos
  BY DEF invoke_delete_checkpoint, remove_explicit_checkpoint, SrvFields
<1>5. {"back", "now", "fwd"} \subseteq SrvFields \ {"cps"} /\ Rest \subseteq SrvFields \ {"cps"}
  BY DEF SrvFields
<1>6. CASE cmd = 2
  <2>1. process_command(s, cmd) = back(s)
    BY <1>6 DEF process_command, CmdCheckpoint, CmdDelete, CmdHistoryPush
  <2> QED BY Zenon, <1>1, <1>6, <2>1
<1>7. CASE cmd = 3
  <2>1. process_command(s, cmd) = forward(s)
    BY <1>7 DEF process_command, CmdCheckpoint, CmdDelete, CmdHistoryPush
  <2> QED BY Zenon, <1>1, <1>7, <2>1
<1>8. CASE cmd = 4
  <2>1. process_command(s, cmd) = invoke_checkpoint(s)
    BY <1>8 DEF process_command, CmdCheckpoint, CmdDelete, CmdHistoryPush
  <2> QED BY Zenon, <1>3, <1>5, <1>8, <2>1
<1>9. CASE cmd = 5
  <2>1. process_command(s, cmd) = invoke_delete_checkpoint(s)
    BY <1>9 DEF process_command, CmdCheckpoint, CmdDelete, CmdHistoryPush
  <2> QED BY Zenon, <1>4, <1>5, <1>9, <2>1
<1>10. CASE cmd = 6
  <2>1. process_command(s, cmd) = rd_history_push(s)
    BY <1>10 DEF process_command, CmdCheckpoint, CmdDelete, CmdHistoryPush
  <2> QED BY Zenon, <1>2, <1>10, <2>1
<1>11. CASE cmd \notin {2, 3, 4, 5, 6}
  <2>1. process_command(s, cmd) = [srv |-> s, tl |-> tl]
    BY <1>11 DEF process_command, CmdCheckpoint, CmdDelete, CmdHistoryPush
  <2> QED BY <2>1
<1> QED BY Zenon, <1>6, <1>7, <1>8, <1>9, <1>10, <1>11

\* The intermediate states of the server's steps.
LEMMA Intermediate ==
    ASSUME Fields
    PROVE  /\ \A f \in SrvFields \ {"lastC", "lastQ"} : Aimed[f] = srv[f]
           /\ Threads => Aimed.lastC \in TaskOrNone /\ Aimed.lastQ \in TaskOrNone
           /\ \A f \in SrvFields \ {"endState", "lastResume", "pending"} : Resuming[f] = srv[f]
           /\ Resuming.lastResume = IF is_resume_request(srv.cur) THEN srv.cur ELSE srv.lastResume
           /\ \A f \in SrvFields \ {"endState", "cur", "lastResume"} : Restarting[f] = srv[f]
           /\ Restarting.cur = NoReq /\ Restarting.lastResume = NoReq
           /\ Cleared.pos = tl.pos /\ Cleared.refs = tl.refs
<1> USE DEF Fields
<1>1. \A f \in SrvFields \ {"lastC", "lastQ"} : Aimed[f] = srv[f]
  BY DEF Aimed
<1>2. ASSUME Threads PROVE Aimed.lastC \in TaskOrNone /\ Aimed.lastQ \in TaskOrNone
  <2>1. Target # 0 => Target \in Tasks
    BY Zenon DEF Target, Alive
  <2> QED BY <1>2, <2>1 DEF Aimed, Threads, TaskOrNone, SrvFields
<1>3. /\ \A f \in SrvFields \ {"endState", "lastResume", "pending"} : Resuming[f] = srv[f]
      /\ Resuming.lastResume = IF is_resume_request(srv.cur) THEN srv.cur ELSE srv.lastResume
  <2>1. /\ DOMAIN AfterEndState(srv) = SrvFields
        /\ \A f \in SrvFields \ {"endState"} : AfterEndState(srv)[f] = srv[f]
    BY DEF AfterEndState
  <2>2. "lastResume" \in SrvFields \ {"endState"} /\ "lastResume" # "pending"
    BY DEF SrvFields
  <2> HIDE DEF SrvFields
  <2>3. CASE is_resume_request(srv.cur)
    <3>1. Resuming = [AfterEndState(srv) EXCEPT !.lastResume = srv.cur]
      BY Zenon, <2>3 DEF Resuming
    <3> QED BY <2>1, <2>2, <2>3, <3>1
  <2>4. CASE ~is_resume_request(srv.cur)
    <3>1. Resuming = [AfterEndState(srv) EXCEPT !.pending = TRUE]
      BY Zenon, <2>4 DEF Resuming
    <3> QED BY <2>1, <2>2, <2>4, <3>1
  <2> QED BY <2>3, <2>4
<1>4. /\ \A f \in SrvFields \ {"endState", "cur", "lastResume"} : Restarting[f] = srv[f]
      /\ Restarting.cur = NoReq /\ Restarting.lastResume = NoReq
  BY Zenon DEF Restarting, SrvFields
<1>5. Cleared.pos = tl.pos /\ Cleared.refs = tl.refs
  BY DEF Cleared, TlFields
<1> QED BY Zenon, <1>1, <1>2, <1>3, <1>4, <1>5

\* A stop that is reported is a stop of a thread of the recording.
Plausible(br) == br = NoBreak \/ \E t \in Tasks : br = Break(t)

\* The thread a stop is reported for is a thread of the recording.
LEMMA ReportedThread ==
    ASSUME Fields, NEW pos \in Places, NEW br, Plausible(br), Reported(pos, br)
    PROVE  Observed(pos, br).t \in Tasks
<1>0. NoBreak.stop = FALSE /\ \A t : Break(t).t = t
  BY DEF NoBreak, Break
<1>1. CASE is_in_exec(pos)
  <2>1. pos \in 1 .. Len_
    BY <1>1, Recorded DEF is_in_exec, HasTask, Places
  <2>2. At(pos).t \in Tasks
    BY Zenon, <2>1, Recorded DEF At
  <2>3. Observed(pos, br) = Break(At(pos).t)
    BY Zenon, <1>1 DEF Observed
  <2> QED BY Zenon, <1>0, <2>2, <2>3
<1>2. CASE ~is_in_exec(pos)
  <2>1. Observed(pos, br) = br
    BY Zenon, <1>2 DEF Observed
  <2>2. br # NoBreak
    BY Zenon, <1>0, <2>1 DEF Reported
  <2> QED BY Zenon, <1>0, <2>1, <2>2 DEF Plausible
<1> QED BY <1>1, <1>2

\* What telling gdb of a stop changes.
LEMMA Told ==
    ASSUME Fields, NEW s, DOMAIN s = SrvFields, NEW pos \in Places, NEW at, NEW br, Plausible(br),
           maybe_notify_stop(s, pos, br, at)
    PROVE  /\ \A f \in SrvFields \ {"lastC", "lastQ"} : srv'[f] = s[f]
           /\ s.lastC \in TaskOrNone /\ s.lastQ \in TaskOrNone =>
                 srv'.lastC \in TaskOrNone /\ srv'.lastQ \in TaskOrNone
<1>1. CASE srv' = s
  BY <1>1
<1>2. CASE Reported(pos, br)
  <2> DEFINE t == Observed(pos, br).t
  <2>1. t \in TaskOrNone
    BY Zenon, <1>2, ReportedThread DEF TaskOrNone
  <2>2. srv' = [s EXCEPT !.lastC = t, !.lastQ = t]
    BY Zenon, <1>2 DEF maybe_notify_stop
  <2> HIDE DEF t
  <2> QED BY Zenon, <2>1, <2>2 DEF SrvFields
<1> QED BY Zenon, <1>1, <1>2 DEF maybe_notify_stop

\* The end of a step of the replay.
Settled(s, pos, br) ==
    /\ DOMAIN s = SrvFields /\ pos \in Places /\ Plausible(br)
    /\ \A f \in SrvFields \ {"endState"} : s[f] = srv[f]
    /\ Stops(s, pos, br)

\* The barrier of reverse execution is a frame of the debuggee.
LEMMA BarrierInTrace ==
    ASSUME Fields, Standing, pc = "resume"
    PROVE  Barrier \in 1 .. Len_ /\ Barrier <= tl.pos
<1> DEFINE T == {p \in 1 .. Len_ : ProcOf[trace[p].t] = srv.tguid} \cup {tl.pos}
<1>0. Len_ \in Nat /\ tl.pos \in 1 .. (Len_ + 1)
  BY Recorded DEF Standing, Places
<1>1. PICK q \in T : q \in 1 .. Len_
  BY Zenon DEF Standing
<1>2. tl.pos \in T /\ \A p \in T : p \in 1 .. (Len_ + 1)
  BY <1>0
<1> HIDE DEF T
<1>3. T \subseteq Nat /\ T # {}
  BY <1>0, <1>2
<1>4. Min(T) \in T /\ \A y \in T : Min(T) <= y
  BY Zenon, <1>3, MinOfNats
<1>5. Barrier = Min(T)
  BY Zenon DEF Barrier, T
<1>6. Barrier \in 1 .. (Len_ + 1) /\ Barrier <= q /\ Barrier <= tl.pos
  BY Zenon, <1>1, <1>2, <1>4, <1>5
<1> QED BY <1>0, <1>1, <1>6

\* Where reverse execution lands.
LEMMA Landed ==
    ASSUME Fields, Standing, pc = "resume", NEW l \in Landings
    PROVE  l[1] \in Places /\ l[2] \in Tasks
<1>0. Len_ \in Nat /\ tl.pos \in 1 .. (Len_ + 1) /\ Barrier \in 1 .. Len_
  BY Recorded, BarrierInTrace DEF Standing, Places
<1>1. \A p \in Barrier .. (tl.pos - 1) : p \in 1 .. Len_ /\ p \in Places /\ p + 1 \in Places
  BY <1>0 DEF Places
<1>2. Barrier .. (tl.pos - 2) \subseteq Barrier .. (tl.pos - 1)
  BY <1>0
<1>3. \E p \in Barrier .. (tl.pos - 1) : l = <<p, trace[p].t>> \/ l = <<p + 1, trace[p].t>>
  BY Zenon, <1>2 DEF Landings
<1>4. PICK p \in Barrier .. (tl.pos - 1) : l = <<p, trace[p].t>> \/ l = <<p + 1, trace[p].t>>
  BY <1>3
<1>5. trace[p].t \in Tasks
  BY Zenon, <1>1, Recorded
<1> QED BY <1>1, <1>4, <1>5

\* Every step of the replay ends at a place of the recording, or rd is gone.
LEMMA ReplaySteps ==
    ASSUME Fields, Standing, run_forward_exec \/ run_forward \/ run_backward \/ run_backward_fails
    PROVE  Panics("reverse step") \/ \E s, pos, br : Settled(s, pos, br)
<1>0. Len_ \in Nat /\ tl.pos \in 1 .. (Len_ + 1) /\ \A p \in 1 .. Len_ : trace[p].t \in Tasks
  BY Recorded DEF Standing, Places
<1>1. Plausible(NoBreak) /\ \A t \in Tasks : Plausible(Break(t))
  BY Zenon DEF Plausible
<1>2. DOMAIN srv = SrvFields /\ tl.pos \in Places
  BY DEF Fields, Standing
<1>3. CASE run_forward_exec
  <2>1. Settled(srv, tl.pos, NoBreak)
    BY Zenon, <1>1, <1>2, <1>3 DEF Settled, run_forward_exec
  <2> QED BY Zenon, <2>1
<1>4. CASE run_forward
  <2>1. tl.pos \in 1 .. Len_
    BY <1>0, <1>4 DEF Standing, HasTask, run_forward
  <2>2. \A step : Plausible(FrameBreak(tl.pos, step))
    BY Zenon, <1>0, <1>1, <2>1 DEF FrameBreak, At
  <2>3. tl.pos + 1 \in Places
    BY <1>0, <2>1 DEF Places
  <2> DEFINE s(b) == [srv EXCEPT !.endState = b]
  <2>4. PICK b, step : Stops(s(b), tl.pos + 1, FrameBreak(tl.pos, step))
    BY Zenon, <1>4 DEF run_forward
  <2>5. DOMAIN s(b) = SrvFields /\ \A f \in SrvFields \ {"endState"} : s(b)[f] = srv[f]
    BY <1>2
  <2> HIDE DEF s
  <2>6. Settled(s(b), tl.pos + 1, FrameBreak(tl.pos, step))
    BY Zenon, <2>2, <2>3, <2>4, <2>5 DEF Settled
  <2> QED BY Zenon, <2>6
<1>5. CASE run_backward
  <2>0. pc = "resume"
    BY Zenon, <1>5 DEF run_backward
  <2>1. ASSUME NEW l \in Allowed, Stops(srv, l[1], Break(l[2]))
        PROVE  Settled(srv, l[1], Break(l[2]))
    <3>1. l \in Landings
      BY Zenon DEF Allowed
    <3>2. l[1] \in Places /\ l[2] \in Tasks
      BY Zenon, <2>0, <3>1, Landed
    <3> QED BY Zenon, <1>1, <1>2, <2>1, <3>2 DEF Settled
  <2>2. ASSUME Stops(srv, Barrier, Break(trace[Barrier].t))
        PROVE  Settled(srv, Barrier, Break(trace[Barrier].t))
    <3>1. Barrier \in 1 .. Len_
      BY Zenon, <2>0, BarrierInTrace
    <3>2. Barrier \in Places
      BY <1>0, <3>1 DEF Places
    <3>3. trace[Barrier].t \in Tasks
      BY Zenon, <1>0, <3>1
    <3> QED BY Zenon, <1>1, <1>2, <2>2, <3>2, <3>3 DEF Settled
  <2>3. ASSUME NEW p \in Barrier .. tl.pos, Stops(srv, p, NoBreak)
        PROVE  Settled(srv, p, NoBreak)
    <3>1. Barrier \in 1 .. Len_
      BY Zenon, <2>0, BarrierInTrace
    <3>2. p \in Places
      BY <1>0, <3>1 DEF Places
    <3> QED BY Zenon, <1>1, <1>2, <2>3, <3>2 DEF Settled
  <2> QED BY Zenon, <1>5, <2>1, <2>2, <2>3 DEF run_backward
<1>6. CASE run_backward_fails
  BY Zenon, <1>6 DEF run_backward_fails
<1> QED BY Zenon, <1>3, <1>4, <1>5, <1>6

\* What a step of the replay changes.
LEMMA ReplayEffect ==
    ASSUME Fields, Standing, run_forward_exec \/ run_forward \/ run_backward \/ run_backward_fails
    PROVE  \/ pc' = "gone" /\ UNCHANGED <<session, ctx, srv, tl, div>>
           \/ /\ pc' = "step" /\ UNCHANGED <<session, ctx, div>>
              /\ tl'.pos \in Places /\ tl'.refs = tl.refs
              /\ \A f \in SrvFields \ {"lastC", "lastQ", "endState"} : srv'[f] = srv[f]
              /\ Threads => Threads'
<1>1. CASE \E why : Panics(why)
  BY Zenon, <1>1 DEF Panics, Ending
<1>2. ASSUME NEW s, NEW pos, NEW br, Settled(s, pos, br), ~\E why : Panics(why)
      PROVE  /\ pc' = "step" /\ UNCHANGED <<session, ctx, div>>
             /\ tl'.pos \in Places /\ tl'.refs = tl.refs
             /\ \A f \in SrvFields \ {"lastC", "lastQ", "endState"} : srv'[f] = srv[f]
             /\ Threads => Threads'
  <2>1. /\ DOMAIN s = SrvFields /\ pos \in Places /\ Plausible(br)
        /\ \A f \in SrvFields \ {"endState"} : s[f] = srv[f]
    BY Zenon, <1>2 DEF Settled
  <2>2. /\ maybe_notify_stop(s, pos, br, pos)
        /\ tl' = seek_to_mark(tl, pos) /\ pc' = "step"
        /\ UNCHANGED <<session, ctx, div>>
    BY Zenon, <1>2 DEF Settled, Stops
  <2>3. /\ \A f \in SrvFields \ {"lastC", "lastQ"} : srv'[f] = s[f]
        /\ s.lastC \in TaskOrNone /\ s.lastQ \in TaskOrNone =>
              srv'.lastC \in TaskOrNone /\ srv'.lastQ \in TaskOrNone
    BY Zenon, <2>1, <2>2, Told
  <2>4. tl'.pos = pos /\ tl'.refs = tl.refs
    BY <2>2 DEF seek_to_mark, Fields, TlFields
  <2>5. TaskOrNone' = TaskOrNone /\ s.lastC = srv.lastC /\ s.lastQ = srv.lastQ
    BY <2>1 DEF TaskOrNone, Tasks, SrvFields
  <2>6. Threads => Threads'
    BY Zenon, <2>2, <2>3, <2>5 DEF Threads
  <2> QED BY Zenon, <2>1, <2>2, <2>3, <2>4, <2>6
<1> QED BY Zenon, <1>1, <1>2, ReplaySteps

\* What depends on the recording only does not change.
LEMMA SameRecording ==
    ASSUME session' = session
    PROVE  /\ Len_' = Len_ /\ trace' = trace /\ Places' = Places /\ Cps' = Cps /\ TaskOrNone' = TaskOrNone
           /\ \A p : HasTask(p)' <=> HasTask(p)
           /\ \A p : can_add_checkpoint(p)' <=> can_add_checkpoint(p)
           /\ \A c : Sound(c)' <=> Sound(c)
<1>1. /\ Len_' = Len_ /\ trace' = trace /\ Places' = Places /\ Cps' = Cps /\ TaskOrNone' = TaskOrNone
      /\ \A p : HasTask(p)' <=> HasTask(p)
      /\ \A p : can_add_checkpoint(p)' <=> can_add_checkpoint(p)
  BY Zenon DEF Len_, trace, Places, Cps, TaskOrNone, Tasks, HasTask, can_add_checkpoint, At
<1> QED BY Zenon, <1>1 DEF Sound, NoCheckpoint

\* Steps that leave the checkpoints alone keep what is known of them.
LEMMA CheckpointsStay ==
    ASSUME session' = session, Checkpoints, srv'.cps = srv.cps, srv'.restart = srv.restart,
           tl'.refs = tl.refs, pc \in {"replay", "accept", "gone"} => pc' \in {"replay", "accept", "gone"}
    PROVE  Checkpoints'
<1>1. CheckpointsKept'
  BY Zenon DEF Checkpoints, CheckpointsKept
<1> QED BY Zenon, <1>1, SameRecording DEF Checkpoints

\* Steps that move neither the replay nor its checkpoints.
Minor ==
    /\ UNCHANGED session
    /\ tl'.pos = tl.pos /\ tl'.refs = tl.refs
    /\ \A f \in {"tguid", "restart", "cps", "back", "now", "fwd"} : srv'[f] = srv[f]
    /\ ctx' = "lazy" => ctx = "lazy" /\ srv'.lazy = srv.lazy
    /\ pc \notin {"replay", "accept", "gone"} /\ pc' \notin {"resume", "replay"}
    /\ Threads' /\ Numbers'

\* They keep the invariant.
LEMMA MinorPlaced ==
    ASSUME Placed, Minor
    PROVE  Placed'
<1>1. /\ srv'.tguid = srv.tguid /\ srv'.restart = srv.restart /\ srv'.cps = srv.cps
      /\ srv'.back = srv.back /\ srv'.now = srv.now /\ srv'.fwd = srv.fwd
  BY Zenon DEF Minor
<1>2. Standing' /\ History'
  BY Zenon, <1>1, SameRecording DEF Minor, Placed, Standing, History
<1>3. Checkpoints'
  BY Zenon, <1>1, CheckpointsStay DEF Minor, Placed
<1> QED BY Zenon, <1>2, <1>3 DEF Minor, Placed

\* Most of the server's steps are minor.
LEMMA MinorRequests ==
    ASSUME Fields, Callers, Traffic, Placed,
           \/ notify_restart \/ get_request \/ read_packet \/ receive_packet
           \/ dispatch_untargeted \/ dispatch_file \/ dispatch_select \/ dispatch_extra_info
           \/ notify_no_such_thread \/ dispatch_query \/ dispatch_write \/ dispatch_break
           \/ dispatch_write_siginfo \/ dispatch_qsymbol
    PROVE  Minor
<1> DEFINE Frame == SrvFields \ {"lastC", "lastQ"}
           Bookkeeping == {"files", "next", "symloc", "registered"}
<1>a. ASSUME UNCHANGED session, tl'.pos = tl.pos, tl'.refs = tl.refs, ctx' = ctx, div'.saved = div.saved,
             pc \notin {"replay", "accept", "gone"}, pc' \notin {"resume", "replay"},
             \A f \in Frame \ Bookkeeping : srv'[f] = srv[f],
             srv'.lastC \in TaskOrNone, srv'.lastQ \in TaskOrNone
      PROVE  Minor
  <2>1. {"tguid", "restart", "cps", "back", "now", "fwd", "cur", "lastResume", "final", "lazy"} \subseteq Frame \ Bookkeeping
    BY DEF SrvFields
  <2>2. /\ \A f \in {"tguid", "restart", "cps", "back", "now", "fwd"} : srv'[f] = srv[f]
        /\ srv'.cur = srv.cur /\ srv'.lastResume = srv.lastResume /\ srv'.final = srv.final
        /\ srv'.lazy = srv.lazy
    BY Zenon, <1>a, <2>1
  <2>3. Threads' /\ Numbers'
    BY Zenon, <1>a, <2>2 DEF Placed, Threads, Numbers, TaskOrNone, Tasks
  <2> QED BY Zenon, <1>a, <2>2, <2>3 DEF Minor
<1>b. srv.lastC \in TaskOrNone /\ srv.lastQ \in TaskOrNone
  BY Zenon DEF Placed, Threads
<1>c. /\ \A f \in Frame : Aimed[f] = srv[f]
      /\ Aimed.lastC \in TaskOrNone /\ Aimed.lastQ \in TaskOrNone /\ DOMAIN Aimed = SrvFields
  BY Zenon, Intermediate, StepFields DEF Placed
<1>1. CASE notify_restart \/ get_request \/ read_packet \/ receive_packet
  <2>1. UNCHANGED <<session, ctx, srv, tl, div>>
    BY Zenon, <1>1 DEF notify_restart, get_request, read_packet, receive_packet, Panics
  <2>2. pc \notin {"replay", "accept", "gone"} /\ pc' \notin {"resume", "replay"}
    BY Zenon, <1>1 DEF notify_restart, get_request, read_packet, receive_packet, Panics, Ending
  <2> QED BY Zenon, <1>a, <1>b, <2>1, <2>2
<1>2. CASE \/ dispatch_untargeted \/ dispatch_select \/ dispatch_extra_info
           \/ notify_no_such_thread \/ dispatch_query \/ dispatch_write_siginfo
  <2>1. /\ UNCHANGED <<session, ctx, tl, div>> /\ (srv' = srv \/ srv' = Aimed)
        /\ pc = "dispatch" /\ pc' \in {"request", "gone"}
    BY Zenon, <1>2 DEF dispatch_untargeted, dispatch_select, dispatch_extra_info,
       notify_no_such_thread, dispatch_query, dispatch_write_siginfo, Dispatching, Answers, Panics, Ending
  <2> QED BY Zenon, <1>a, <1>b, <1>c, <2>1
<1>3. CASE dispatch_file
  <2>1. UNCHANGED <<session, ctx, tl, div>> /\ pc = "dispatch" /\ pc' = "request"
    BY Zenon, <1>3 DEF dispatch_file, Dispatching, Answers
  <2>2. /\ \A f \in Frame \ Bookkeeping : srv'[f] = srv[f]
        /\ srv'.lastC = srv.lastC /\ srv'.lastQ = srv.lastQ
    BY Zenon, <1>3 DEF dispatch_file, open_file, Fields, SrvFields
  <2> QED BY Zenon, <1>a, <1>b, <2>1, <2>2
<1>4. CASE dispatch_write \/ dispatch_break
  <2>1. /\ UNCHANGED <<session, ctx>> /\ srv' = Aimed
        /\ pc = "dispatch" /\ pc' = "request"
    BY Zenon, <1>4 DEF dispatch_write, dispatch_break, Dispatching
  <2>2. div'.saved = div.saved /\ tl'.pos = tl.pos /\ tl'.refs = tl.refs
    BY <1>4 DEF dispatch_write, dispatch_break, mirror, Fields, DivFields, TlFields
  <2> QED BY Zenon, <1>a, <1>c, <2>1, <2>2
<1>5. CASE dispatch_qsymbol
  <2>1. UNCHANGED <<session, ctx, tl, div>> /\ pc = "dispatch" /\ pc' = "request"
    BY Zenon, <1>5 DEF dispatch_qsymbol, Dispatching, Answers
  <2>2. \E x, y : srv' = [Aimed EXCEPT !.symloc = x, !.registered = y]
    BY Zenon, <1>5 DEF dispatch_qsymbol
  <2>3. /\ \A f \in Frame \ Bookkeeping : srv'[f] = Aimed[f]
        /\ srv'.lastC = Aimed.lastC /\ srv'.lastQ = Aimed.lastQ
    <3>1. PICK x, y : srv' = [Aimed EXCEPT !.symloc = x, !.registered = y]
      BY Zenon, <2>2
    <3> QED BY Zenon, <1>c, <3>1 DEF SrvFields
  <2> QED BY Zenon, <1>a, <1>c, <2>1, <2>3
<1> QED BY Zenon, <1>1, <1>2, <1>3, <1>4, <1>5

\* So are these.
LEMMA MinorSteps ==
    ASSUME Fields, Callers, Traffic, Placed,
           \/ LazyRegs \/ divert \/ diverter_siginfo \/ diverter_unbalanced \/ divert_return
           \/ divert_backward \/ divert_forward \/ divert_interrupt \/ divert_no_task
           \/ return_request \/ handle_exited_state \/ debug_one_step \/ fake_exit \/ detach
           \/ interrupt_stop \/ resume_fails \/ run_to_termination \/ restart_failed
    PROVE  Minor
<1> DEFINE Frame == {"tguid", "restart", "cps", "back", "now", "fwd"}
           Named(t) == t \in TaskOrNone
<1>a. ASSUME UNCHANGED session, tl'.pos = tl.pos, tl'.refs = tl.refs,
             ctx' = "lazy" => ctx = "lazy" /\ srv'.lazy = srv.lazy, Named(div'.saved),
             pc \notin {"replay", "accept", "gone"}, pc' \notin {"resume", "replay"},
             \A f \in Frame : srv'[f] = srv[f], Named(srv'.lastC), Named(srv'.lastQ), Numbers'
      PROVE  Minor
  BY Zenon, <1>a DEF Minor, Threads, TaskOrNone, Tasks
<1>b. Named(srv.lastC) /\ Named(srv.lastQ) /\ Named(div.saved) /\ Named(0)
  BY Zenon DEF Placed, Threads, TaskOrNone
<1>n. /\ srv.cur.arg \in Nat /\ srv.lastResume.arg \in Nat /\ srv.final \in Nat \ {0}
      /\ dbg.req.arg \in Nat /\ NoReq.arg \in Nat
  BY Zenon, RequestNumbers DEF Placed, Numbers, Traffic
<1>d. NoDiversion.saved = 0
  BY DEF NoDiversion
<1>p. tl.pos \in Nat \ {0}
  BY Recorded DEF Placed, Standing, Places
\* Requests are taken, the rest of the server is left alone.
<1>c. ASSUME UNCHANGED <<session, tl, div>>, ctx' = ctx \/ ctx' # "lazy",
             pc \notin {"replay", "accept", "gone"}, pc' \notin {"resume", "replay"},
             srv' = srv \/ srv' = [srv EXCEPT !.cur = dbg.req] \/ srv' = [srv EXCEPT !.cur = srv.lastResume]
      PROVE  Minor
  <2>1. /\ \A f \in Frame : srv'[f] = srv[f]
        /\ srv'.lastC = srv.lastC /\ srv'.lastQ = srv.lastQ /\ srv'.lazy = srv.lazy
    BY <1>c DEF Fields, SrvFields
  <2>2. Numbers'
    BY <1>c, <1>n DEF Fields, SrvFields, Numbers
  <2> QED BY Zenon, <1>a, <1>b, <1>c, <2>1, <2>2
<1>1. CASE LazyRegs \/ diverter_unbalanced \/ handle_exited_state \/ debug_one_step \/ resume_fails \/ return_request
  <2>1. /\ UNCHANGED <<session, tl, div>> /\ (ctx' = ctx \/ ctx' = "normal")
        /\ pc \notin {"replay", "accept", "gone"} /\ pc' \notin {"resume", "replay"}
    BY Zenon, <1>1 DEF LazyRegs, diverter_unbalanced, handle_exited_state, debug_one_step,
       resume_fails, return_request, Dispatching, Panics, Ending
  <2>2. srv' = srv \/ srv' = [srv EXCEPT !.cur = dbg.req] \/ srv' = [srv EXCEPT !.cur = srv.lastResume]
    BY Zenon, <1>1 DEF LazyRegs, diverter_unbalanced, handle_exited_state, debug_one_step,
       resume_fails, return_request, Panics
  <2> QED BY Zenon, <1>c, <2>1, <2>2
<1>2. CASE divert \/ diverter_siginfo
  <2>1. /\ UNCHANGED <<session, tl, srv>> /\ (ctx' = ctx \/ ctx' = "divert")
        /\ pc \notin {"replay", "accept", "gone"} /\ pc' \notin {"resume", "replay"}
    BY Zenon, <1>2 DEF divert, diverter_siginfo, Dispatching
  <2>2. div'.saved = srv.lastQ \/ div'.saved = div.saved
    BY <1>2 DEF divert, diverter_siginfo, Fields, DivFields
  <2>3. Numbers'
    BY Zenon, <2>1 DEF Placed, Numbers
  <2> QED BY Zenon, <1>a, <1>b, <2>1, <2>2, <2>3
<1>3. CASE divert_return \/ divert_backward \/ divert_interrupt \/ divert_no_task
  <2>1. /\ UNCHANGED <<session, tl>>
        /\ pc \notin {"replay", "accept", "gone"} /\ pc' \notin {"resume", "replay"}
        /\ ctx = "divert" /\ (ctx' = ctx \/ ctx' = div.base)
    BY Zenon, <1>3 DEF divert_return, divert_backward, divert_interrupt, divert_no_task, DivertResumes,
       Dispatching, Diverted, Answers
  <2>2. div' = div \/ div' = NoDiversion
    BY Zenon, <1>3 DEF divert_return, divert_backward, divert_interrupt, divert_no_task, Answers
  <2>3. \/ srv' = srv \/ srv' = [srv EXCEPT !.lastQ = srv.lastC]
        \/ srv' = [srv EXCEPT !.lastQ = div.saved]
        \/ srv' = [[srv EXCEPT !.lastQ = div.saved] EXCEPT !.cur = dbg.req]
    BY Zenon, <1>3 DEF divert_return, divert_backward, divert_interrupt, divert_no_task, end_diversion
  <2>4. /\ \A f \in Frame : srv'[f] = srv[f]
        /\ srv'.lastC = srv.lastC /\ (srv'.lastQ = srv.lastQ \/ srv'.lastQ = srv.lastC \/ srv'.lastQ = div.saved)
    BY Zenon, <2>3 DEF Fields, SrvFields
  <2>5. Numbers'
    BY Zenon, <1>n, <2>3 DEF Fields, SrvFields, Numbers
  <2>6. ctx' # "lazy"
    BY Zenon, <2>1 DEF Callers
  <2>7. Named(div'.saved)
    BY Zenon, <1>b, <1>d, <2>2
  <2> QED BY Zenon, <1>a, <1>b, <2>1, <2>4, <2>5, <2>6, <2>7
<1>4. CASE divert_forward
  <2>1. /\ UNCHANGED <<session, tl>>
        /\ pc \notin {"replay", "accept", "gone"} /\ pc' \notin {"resume", "replay"}
        /\ ctx = "divert" /\ (ctx' = ctx \/ ctx' = div.base)
    BY Zenon, <1>4 DEF divert_forward, DivertResumes, Diverted
  <2>2. div' = div \/ div' = NoDiversion
    BY Zenon, <1>4 DEF divert_forward
  <2>3. \/ \E br : Plausible(br) /\ maybe_notify_stop(srv, tl.pos, br, tl.pos)
        \/ srv' = [srv EXCEPT !.lastQ = div.saved]
    BY Zenon, <1>4 DEF divert_forward, Alive, Plausible, end_diversion
  <2>4. /\ \A f \in SrvFields \ {"lastC", "lastQ"} : srv'[f] = srv[f]
        /\ Named(srv'.lastC) /\ Named(srv'.lastQ)
    <3>1. CASE \E br : Plausible(br) /\ maybe_notify_stop(srv, tl.pos, br, tl.pos)
      BY Zenon, <1>b, <3>1, Told DEF Fields, Placed, Standing
    <3>2. CASE srv' = [srv EXCEPT !.lastQ = div.saved]
      BY <1>b, <3>2 DEF Fields, SrvFields
    <3> QED BY <2>3, <3>1, <3>2
  <2>5. Frame \cup {"cur", "lastResume", "final"} \subseteq SrvFields \ {"lastC", "lastQ"}
    BY DEF SrvFields
  <2>6. Numbers'
    BY Zenon, <2>4, <2>5 DEF Placed, Numbers
  <2>7. ctx' # "lazy"
    BY Zenon, <2>1 DEF Callers
  <2>8. Named(div'.saved)
    BY Zenon, <1>b, <1>d, <2>2
  <2> QED BY Zenon, <1>a, <1>b, <2>1, <2>4, <2>5, <2>6, <2>7, <2>8
<1>5. CASE fake_exit \/ run_to_termination
  <2>1. /\ UNCHANGED <<session, tl, div>> /\ (ctx' = ctx \/ ctx' = "dead") /\ pc \in {"returned", "resume"}
        /\ pc' \notin {"resume", "replay"}
        /\ srv' = srv \/ srv' = [srv EXCEPT !.final = tl.pos]
    BY Zenon, <1>5 DEF fake_exit, run_to_termination, notify_exit_code, Panics, Ending
  <2>2. ctx' # "lazy"
    BY <2>1 DEF Callers, AskingGdb
  <2>3. /\ \A f \in Frame : srv'[f] = srv[f]
        /\ srv'.lastC = srv.lastC /\ srv'.lastQ = srv.lastQ
    BY <2>1 DEF Fields, SrvFields
  <2>4. Numbers'
    BY <1>n, <1>p, <2>1 DEF Fields, SrvFields, Numbers
  <2> QED BY Zenon, <1>a, <1>b, <2>1, <2>2, <2>3, <2>4
<1>6. CASE detach \/ restart_failed
  <2>1. /\ UNCHANGED <<session, ctx, div>> /\ pc = "returned" /\ pc' \in {"accept", "gone", "step"}
        /\ tl' = Cleared /\ (srv' = Restarting \/ srv' = [srv EXCEPT !.cur = NoReq, !.lastResume = NoReq])
    BY Zenon, <1>6 DEF detach, restart_failed, RestartsFrom, Returning, Cleared, Ending
  <2>2. ctx' # "lazy"
    BY <2>1 DEF Callers, AskingGdb
  <2>3. /\ \A f \in SrvFields \ {"endState", "cur", "lastResume"} : srv'[f] = srv[f]
        /\ srv'.cur = NoReq /\ srv'.lastResume = NoReq
    <3>1. CASE srv' = Restarting
      BY Zenon, <3>1, Intermediate
    <3>2. CASE srv' = [srv EXCEPT !.cur = NoReq, !.lastResume = NoReq]
      BY Zenon, <3>2 DEF Fields, SrvFields
    <3> QED BY Zenon, <2>1, <3>1, <3>2
  <2>4. Frame \cup {"lastC", "lastQ", "final"} \subseteq SrvFields \ {"endState", "cur", "lastResume"}
    BY DEF SrvFields
  <2>5. Numbers'
    BY Zenon, <1>n, <2>3, <2>4 DEF Numbers
  <2>6. tl'.pos = tl.pos /\ tl'.refs = tl.refs
    BY Zenon, <2>1, Intermediate
  <2> QED BY Zenon, <1>a, <1>b, <2>1, <2>2, <2>3, <2>4, <2>5, <2>6
<1>7. CASE interrupt_stop
  <2>1. /\ UNCHANGED <<session, ctx, tl, div>> /\ pc = "returned" /\ pc' \in {"gone", "step"}
        /\ srv' = srv \/ srv' = [Resuming EXCEPT !.pending = FALSE]
    BY Zenon, <1>7 DEF interrupt_stop, Panics, Ending
  <2>2. ctx' # "lazy"
    BY <2>1 DEF Callers, AskingGdb
  <2> DEFINE Rest == SrvFields \ {"endState", "lastResume", "pending"}
  <2>3. /\ \A f \in Rest : srv'[f] = srv[f]
        /\ srv'.lastResume = srv.lastResume \/ srv'.lastResume = srv.cur
    <3>1. CASE srv' = [Resuming EXCEPT !.pending = FALSE]
      <4>1. DOMAIN Resuming = SrvFields /\ "lastResume" \in SrvFields
        BY Zenon, StepFields DEF SrvFields
      <4>2. \A f \in SrvFields \ {"pending"} : srv'[f] = Resuming[f]
        BY <3>1, <4>1
      <4>3. \A f \in Rest : Resuming[f] = srv[f]
        BY Zenon, Intermediate
      <4>4. srv'.lastResume = Resuming.lastResume
        BY <4>1, <4>2
      <4> QED BY Zenon, <4>2, <4>3, <4>4, Intermediate
    <3> QED BY Zenon, <2>1, <3>1
  <2>4. Frame \cup {"lastC", "lastQ", "final", "cur"} \subseteq Rest
    BY DEF SrvFields
  <2> HIDE DEF Rest
  <2>5. Numbers'
    BY Zenon, <1>n, <2>3, <2>4 DEF Numbers
  <2> QED BY Zenon, <1>a, <1>b, <2>1, <2>2, <2>3, <2>4, <2>5
<1> QED BY Zenon, <1>1, <1>2, <1>3, <1>4, <1>5, <1>6, <1>7

\* The steps of the replay.
LEMMA ReplayPlaced ==
    ASSUME Fields, Callers, Placed, run_forward_exec \/ run_forward \/ run_backward \/ run_backward_fails
    PROVE  Placed'
<1>0. pc = "resume" /\ ctx # "lazy" /\ Standing
  <2>1. pc = "resume"
    BY Zenon DEF run_forward_exec, run_forward, run_backward, run_backward_fails
  <2> QED BY <2>1 DEF Callers, AskingGdb, Placed
<1>1. CASE pc' = "gone" /\ UNCHANGED <<session, ctx, srv, tl, div>>
  <2>1. Minor
    BY Zenon, <1>0, <1>1 DEF Minor, Placed, Threads, Numbers, TaskOrNone, Tasks
  <2> QED BY Zenon, <2>1, MinorPlaced
<1>2. CASE /\ pc' = "step" /\ UNCHANGED <<session, ctx, div>>
           /\ tl'.pos \in Places /\ tl'.refs = tl.refs
           /\ \A f \in SrvFields \ {"lastC", "lastQ", "endState"} : srv'[f] = srv[f]
           /\ Threads => Threads'
  <2>1. {"tguid", "restart", "cps", "back", "now", "fwd", "cur", "lastResume", "final"}
           \subseteq SrvFields \ {"lastC", "lastQ", "endState"}
    BY DEF SrvFields
  <2>2. Threads' /\ Numbers' /\ History'
    BY Zenon, <1>2, <2>1, SameRecording DEF Placed, Numbers, History
  <2>3. Checkpoints'
    BY Zenon, <1>0, <1>2, <2>1, CheckpointsStay DEF Placed
  <2>4. Standing'
    BY Zenon, <1>0, <1>2, <2>1, SameRecording DEF Standing
  <2> QED BY Zenon, <2>2, <2>3, <2>4 DEF Placed
<1> QED BY Zenon, <1>0, <1>1, <1>2, ReplayEffect

\* Lazy reverse steps, resuming, and replaying to the target.
LEMMA OtherPlaced ==
    ASSUME Fields, Callers, Traffic, Placed,
           LazyStep \/ LazyEnd \/ resume \/ serve_replay \/ interrupt_replay_to_target \/ Debugger
    PROVE  Placed'
<1>0. Len_ \in Nat /\ tl.pos \in 1 .. (Len_ + 1) /\ \A p \in 1 .. Len_ : trace[p].t \in Tasks
  BY Recorded DEF Placed, Standing, Places
<1>n. /\ srv.cur.arg \in Nat /\ srv.lastResume.arg \in Nat /\ srv.final \in Nat \ {0} /\ dbg.req.arg \in Nat
  BY Zenon DEF Placed, Numbers, Traffic
<1>1. CASE Debugger \/ interrupt_replay_to_target
  <2>1. UNCHANGED <<session, pc, ctx, tl, div>>
    BY Zenon, <1>1 DEF Debugger, GdbSend, Deliver, GdbInterrupt, GdbReceive, GdbClose, interrupt_replay_to_target
  <2>2. srv' = srv \/ srv' = [srv EXCEPT !.stopping = TRUE]
    BY Zenon, <1>1 DEF Debugger, GdbSend, Deliver, GdbInterrupt, GdbReceive, GdbClose, interrupt_replay_to_target
  <2>3. /\ srv'.tguid = srv.tguid /\ srv'.restart = srv.restart /\ srv'.cps = srv.cps
        /\ srv'.back = srv.back /\ srv'.now = srv.now /\ srv'.fwd = srv.fwd
        /\ srv'.cur = srv.cur /\ srv'.lastResume = srv.lastResume /\ srv'.final = srv.final
        /\ srv'.lastC = srv.lastC /\ srv'.lastQ = srv.lastQ /\ srv'.lazy = srv.lazy
    BY <2>2 DEF Fields, SrvFields
  <2>4. Checkpoints'
    BY Zenon, <2>1, <2>3, CheckpointsStay DEF Placed
  <2>5. Standing' /\ Threads' /\ Numbers' /\ History'
    BY Zenon, <2>1, <2>3, SameRecording DEF Placed, Standing, Threads, Numbers, History
  <2> QED BY Zenon, <2>4, <2>5 DEF Placed
<1>2. CASE LazyStep
  <2>1. /\ UNCHANGED <<session, tl, div>> /\ ctx' = "lazy" /\ pc = "dispatch" /\ pc' = "request"
        /\ HasTask(tl.pos) /\ Now > 1
        /\ maybe_notify_stop([srv EXCEPT !.lazy = Now - 1], tl.pos, Break(At(tl.pos).t), Now - 1)
    BY Zenon, <1>2 DEF LazyStep, LazyRequest, lazy_reverse_singlestep
  <2>2. Now \in Places
    BY Zenon DEF Now, Placed, Standing
  <2>3. Now - 1 \in Places
    BY <1>0, <2>1, <2>2 DEF Places
  <2>4. Plausible(Break(At(tl.pos).t)) /\ tl.pos \in Places
    <3>1. tl.pos \in 1 .. Len_
      BY <1>0, <2>1 DEF HasTask
    <3> QED BY Zenon, <1>0, <3>1 DEF Plausible, At, Placed, Standing
  <2> DEFINE s == [srv EXCEPT !.lazy = Now - 1]
  <2>5. DOMAIN s = SrvFields /\ s.lazy = Now - 1 /\ \A f \in SrvFields \ {"lazy"} : s[f] = srv[f]
    BY DEF Fields, SrvFields
  <2> HIDE DEF s
  <2>6. /\ \A f \in SrvFields \ {"lastC", "lastQ"} : srv'[f] = s[f]
        /\ s.lastC \in TaskOrNone /\ s.lastQ \in TaskOrNone =>
              srv'.lastC \in TaskOrNone /\ srv'.lastQ \in TaskOrNone
    BY Zenon, <2>1, <2>4, <2>5, Told DEF s
  <2>7. /\ {"tguid", "restart", "cps", "back", "now", "fwd", "cur", "lastResume", "final"}
              \subseteq SrvFields \ {"lastC", "lastQ", "lazy"}
        /\ "lazy" \in SrvFields \ {"lastC", "lastQ"} /\ "lastC" \in SrvFields \ {"lazy"} /\ "lastQ" \in SrvFields \ {"lazy"}
    BY DEF SrvFields
  <2>8. /\ \A f \in {"tguid", "restart", "cps", "back", "now", "fwd", "cur", "lastResume", "final"} : srv'[f] = srv[f]
        /\ srv'.lazy = Now - 1 /\ s.lastC = srv.lastC /\ s.lastQ = srv.lastQ
    BY <2>5, <2>6, <2>7
  <2>9. Checkpoints'
    BY Zenon, <2>1, <2>8, CheckpointsStay DEF Placed
  <2>10. Threads' /\ Numbers' /\ History'
    BY Zenon, <2>1, <2>6, <2>8, SameRecording DEF Placed, Threads, Numbers, History
  <2>11. Standing'
    BY Zenon, <2>1, <2>3, <2>8, SameRecording DEF Placed, Standing
  <2> QED BY Zenon, <2>9, <2>10, <2>11 DEF Placed
<1>3. CASE LazyEnd
  <2>1. /\ UNCHANGED <<session, div>> /\ ctx = "lazy" /\ ctx' = "normal" /\ pc = "dispatch"
        /\ pc' \in {"returned", "dispatch"}
        /\ tl' = [tl EXCEPT !.pos = srv.lazy] /\ srv' = [srv EXCEPT !.lazy = 0, !.cur = dbg.req]
    BY Zenon, <1>3 DEF LazyEnd, seek_to_mark
  <2>2. /\ \A f \in SrvFields \ {"lazy", "cur"} : srv'[f] = srv[f]
        /\ srv'.cur = dbg.req /\ tl'.pos = srv.lazy /\ tl'.refs = tl.refs
    BY Zenon, <2>1 DEF Fields, SrvFields, TlFields
  <2>3. {"tguid", "restart", "cps", "back", "now", "fwd", "lastResume", "final", "lastC", "lastQ"}
           \subseteq SrvFields \ {"lazy", "cur"}
    BY DEF SrvFields
  <2>4. Checkpoints'
    BY Zenon, <2>1, <2>2, <2>3, CheckpointsStay DEF Placed
  <2>5. Threads' /\ Numbers' /\ History'
    BY Zenon, <1>n, <2>1, <2>2, <2>3, SameRecording DEF Placed, Threads, Numbers, History
  <2>6. Standing'
    BY Zenon, <2>1, <2>2, <2>3, SameRecording DEF Placed, Standing
  <2> QED BY Zenon, <2>4, <2>5, <2>6 DEF Placed
<1>4. CASE resume
  <2>1. /\ UNCHANGED <<session, ctx, tl, div>> /\ pc = "returned" /\ pc' = "resume" /\ ~NeedsTask
        /\ srv' = [Resuming EXCEPT !.cur = Resuming.lastResume]
    BY Zenon, <1>4 DEF resume
  <2>2. DOMAIN Resuming = SrvFields
    BY Zenon, StepFields
  <2>3. /\ \A f \in SrvFields \ {"cur"} : srv'[f] = Resuming[f]
        /\ srv'.cur = Resuming.lastResume
    BY <2>1, <2>2 DEF SrvFields
  <2>4. \A f \in SrvFields \ {"endState", "lastResume", "pending"} : Resuming[f] = srv[f]
    BY Zenon, Intermediate
  <2>5. {"tguid", "restart", "cps", "back", "now", "fwd", "final", "lastC", "lastQ"}
           \subseteq SrvFields \ {"endState", "lastResume", "pending", "cur"} /\ "lastResume" \in SrvFields \ {"cur"}
    BY DEF SrvFields
  <2>6. /\ \A f \in {"tguid", "restart", "cps", "back", "now", "fwd", "final", "lastC", "lastQ"} : srv'[f] = srv[f]
        /\ srv'.lastResume = Resuming.lastResume /\ srv'.cur = Resuming.lastResume
    BY <2>3, <2>4, <2>5
  <2>7. Resuming.lastResume.arg \in Nat
    BY Zenon, <1>n, Intermediate
  <2>8. Checkpoints'
    BY Zenon, <2>1, <2>6, CheckpointsStay DEF Placed
  <2>9. Threads' /\ Numbers' /\ History'
    BY Zenon, <2>1, <2>6, <2>7, SameRecording DEF Placed, Threads, Numbers, History
  <2>10. srv'.cur.dir = "forward" => HasTask(tl.pos)
    BY Zenon, <2>1, <2>6 DEF NeedsTask
  <2>11. ctx # "lazy"
    BY <2>1 DEF Callers, AskingGdb
  <2>12. Standing'
    BY Zenon, <2>1, <2>6, <2>10, <2>11, SameRecording DEF Placed, Standing
  <2> QED BY Zenon, <2>8, <2>9, <2>12 DEF Placed
<1>5. CASE serve_replay
  <2>0. /\ UNCHANGED <<session, ctx, div>> /\ pc = "replay" /\ ctx # "lazy"
    <3>1. UNCHANGED <<session, ctx, div>> /\ pc = "replay"
      BY Zenon, <1>5 DEF serve_replay
    <3> QED BY <3>1 DEF Callers, AskingGdb
  <2>1. CASE pc' = "gone" /\ UNCHANGED <<tl, srv>>
    <3>1. Checkpoints'
      BY Zenon, <2>0, <2>1, CheckpointsStay DEF Placed
    <3> QED BY Zenon, <2>0, <2>1, <3>1, SameRecording DEF Placed, Standing, Threads, Numbers, History
  <2>2. CASE /\ tl.pos # Len_ /\ tl' = [tl EXCEPT !.pos = tl.pos + 1]
             /\ \/ pc' = "accept" /\ srv' = [srv EXCEPT !.tguid = ProcOf[At(tl.pos + 1).t]]
                \/ UNCHANGED <<pc, srv>>
    <3>1. tl.pos + 1 \in 1 .. Len_ /\ tl.pos + 1 \in Places
      BY <1>0, <2>0, <2>2 DEF Placed, Standing, HasTask, Places
    <3>2. tl'.pos = tl.pos + 1 /\ tl'.refs = tl.refs
      BY <2>2 DEF Fields, TlFields
    <3>3. /\ \A f \in SrvFields \ {"tguid"} : srv'[f] = srv[f]
          /\ pc' # "replay" => srv'.tguid = ProcOf[trace[tl.pos + 1].t]
      BY <2>0, <2>2 DEF Fields, SrvFields, At
    <3>4. {"restart", "cps", "back", "now", "fwd", "final", "lastC", "lastQ", "cur", "lastResume"} \subseteq SrvFields \ {"tguid"}
      BY DEF SrvFields
    <3>5. Checkpoints'
      BY Zenon, <2>0, <2>2, <3>2, <3>3, <3>4, CheckpointsStay DEF Placed
    <3>6. Threads' /\ Numbers' /\ History'
      BY Zenon, <2>0, <3>3, <3>4, SameRecording DEF Placed, Threads, Numbers, History
    <3>7. pc' \in {"accept", "replay"}
      BY Zenon, <2>0, <2>2
    <3>8. HasTask(tl'.pos)
      BY <1>0, <3>1, <3>2 DEF HasTask
    <3>9. Standing'
      BY Zenon, <2>0, <3>1, <3>2, <3>3, <3>7, <3>8, SameRecording DEF Standing
    <3> QED BY Zenon, <3>5, <3>6, <3>9 DEF Placed
  <2> QED BY Zenon, <1>5, <2>1, <2>2 DEF serve_replay, Ending, seek_to_mark
<1> QED BY Zenon, <1>1, <1>2, <1>3, <1>4, <1>5

-----------------------------------------------------------------------------
(* Checkpoints and their references.                                       *)

\* A checkpoint that holds a reference at p, and how many of a list do.
Refers(c, p) == c.explicit /\ c.pos = p
One(c, p) == IF Refers(c, p) THEN 1 ELSE 0
Referring(q, p) == {i \in DOMAIN q : Refers(q[i], p)}
Count(q, p) == Cardinality(Referring(q, p))

\* CheckpointsKept, counted.
LEMMA KeptByCount ==
    CheckpointsKept <=> \A p \in DOMAIN tl.refs : tl.refs[p] >= Count(srv.cps, p) + One(srv.restart, p)
BY Zenon DEF CheckpointsKept, Count, Referring, One, Refers

\* The references of a list are a finite set.
LEMMA Countable ==
    ASSUME NEW S, NEW q \in Seq(S), NEW p
    PROVE  /\ IsFiniteSet(Referring(q, p)) /\ Count(q, p) \in Nat
           /\ Referring(q, p) \subseteq 1 .. Len(q)
<1>1. Referring(q, p) \subseteq 1 .. Len(q) /\ Len(q) \in Nat
  BY DEF Referring
<1>2. IsFiniteSet(1 .. Len(q))
  BY <1>1, FS_Interval
<1>3. IsFiniteSet(Referring(q, p))
  BY Zenon, <1>1, <1>2, FS_Subset
<1> QED BY Zenon, <1>1, <1>3, FS_CardinalityType DEF Count

\* A checkpoint that is added counts.
LEMMA CountAppend ==
    ASSUME NEW S, NEW q \in Seq(S), NEW c \in S, NEW p
    PROVE  Count(Append(q, c), p) = Count(q, p) + One(c, p)
<1> DEFINE n == Len(q) + 1
<1>1. /\ Len(q) \in Nat /\ DOMAIN q = 1 .. Len(q) /\ DOMAIN Append(q, c) = 1 .. n
      /\ Append(q, c)[n] = c /\ \A i \in 1 .. Len(q) : Append(q, c)[i] = q[i]
  OBVIOUS
<1>2. IsFiniteSet(Referring(q, p)) /\ Referring(q, p) \subseteq 1 .. Len(q) /\ Count(q, p) \in Nat
  BY Zenon, Countable
<1>3. n \notin Referring(q, p)
  BY <1>1, <1>2
<1>4. CASE Refers(c, p)
  <2>1. Referring(Append(q, c), p) = Referring(q, p) \cup {n}
    BY <1>1, <1>4 DEF Referring
  <2>2. Cardinality(Referring(q, p) \cup {n}) = Cardinality(Referring(q, p)) + 1
    BY Zenon, <1>2, <1>3, FS_AddElement
  <2> QED BY <1>4, <2>1, <2>2 DEF Count, One
<1>5. CASE ~Refers(c, p)
  <2>1. Referring(Append(q, c), p) = Referring(q, p)
    BY <1>1, <1>5 DEF Referring
  <2> QED BY <1>2, <1>5, <2>1 DEF Count, One
<1> QED BY <1>4, <1>5

\* A checkpoint that is dropped no longer counts.
LEMMA CountDrop ==
    ASSUME NEW S, NEW q \in Seq(S), Len(q) # 0, NEW p
    PROVE  /\ Count([q EXCEPT ![1] = NoCheckpoint], p) = Count(q, p) - One(q[1], p)
           /\ Count(q, p) >= One(q[1], p)
<1> DEFINE r == [q EXCEPT ![1] = NoCheckpoint]
<1>0. ~Refers(NoCheckpoint, p)
  BY DEF Refers, NoCheckpoint
<1>1. /\ DOMAIN q = 1 .. Len(q) /\ 1 \in DOMAIN q /\ DOMAIN r = DOMAIN q
      /\ r[1] = NoCheckpoint /\ \A i \in DOMAIN q \ {1} : r[i] = q[i]
  OBVIOUS
<1> HIDE DEF r
<1>2. Referring(r, p) = Referring(q, p) \ {1}
  <2>1. \A i : i \in Referring(r, p) <=> i \in Referring(q, p) /\ i # 1
    BY <1>0, <1>1 DEF Referring
  <2> QED BY Zenon, <2>1
<1>3. IsFiniteSet(Referring(q, p)) /\ Count(q, p) \in Nat
  BY Zenon, Countable
<1>4. CASE Refers(q[1], p)
  <2>1. 1 \in Referring(q, p)
    BY Zenon, <1>1, <1>4 DEF Referring
  <2>2. /\ IsFiniteSet(Referring(q, p) \ {1})
        /\ Cardinality(Referring(q, p) \ {1}) = Cardinality(Referring(q, p)) - 1
    BY <1>3, <2>1, FS_RemoveElement
  <2>3. Cardinality(Referring(q, p) \ {1}) \in Nat
    BY Zenon, <2>2, FS_CardinalityType
  <2>4. Count(r, p) = Count(q, p) - 1 /\ Count(q, p) - 1 \in Nat /\ One(q[1], p) = 1
    BY Zenon, <1>2, <1>4, <2>2, <2>3 DEF Count, One
  <2> QED BY <1>3, <2>4 DEF r
<1>5. CASE ~Refers(q[1], p)
  <2>1. Referring(r, p) = Referring(q, p)
    BY Zenon, <1>1, <1>2, <1>5 DEF Referring
  <2>2. Count(r, p) = Count(q, p) /\ One(q[1], p) = 0
    BY Zenon, <1>5, <2>1 DEF Count, One
  <2> QED BY <1>3, <2>2 DEF r
<1> QED BY <1>4, <1>5

\* A list of places, shortened and extended.
Trail(s) ==
    /\ s.back \in Seq(Places) /\ s.fwd \in Seq(Places) /\ s.now \in {0} \cup Places
    /\ s.back # <<>> \/ s.fwd # <<>> => s.now # 0

\* `back', `forward' and the history stay in the recording.
LEMMA CommandMoves ==
    ASSUME Fields, NEW s, DOMAIN s = SrvFields, Trail(s), tl.pos \in Places, NEW cmd
    PROVE  Trail(process_command(s, cmd).srv) /\ process_command(s, cmd).tl.pos \in Places
<1>0. 0 \notin Places
  BY Recorded DEF Places
<1>1. ASSUME NEW q \in Seq(Places), q # <<>>
      PROVE  q[Len(q)] \in Places /\ SubSeq(q, 1, Len(q) - 1) \in Seq(Places)
  <2>1. Len(q) \in 1 .. Len(q) /\ Len(q) - 1 \in 0 .. Len(q)
    BY <1>1
  <2>2. \A i \in 1 .. (Len(q) - 1) : q[i] \in Places
    BY <1>1
  <2> QED BY <1>1, <2>1, <2>2
<1>2. ASSUME NEW q \in Seq(Places), NEW m \in Places PROVE Append(q, m) \in Seq(Places)
  OBVIOUS
<1>3. s.now \in Places \/ (s.back = <<>> /\ s.fwd = <<>>)
  BY Zenon DEF Trail
<1>4. Trail(back(s).srv) /\ back(s).tl.pos \in Places
  <2>1. CASE s.back = <<>>
    BY <2>1 DEF back
  <2>2. CASE s.back # <<>>
    <3> DEFINE m == s.back[Len(s.back)]
               b == SubSeq(s.back, 1, Len(s.back) - 1)
               f == Append(s.fwd, s.now)
    <3>1. m \in Places /\ b \in Seq(Places) /\ f \in Seq(Places)
      BY Zenon, <1>1, <1>2, <1>3, <2>2 DEF Trail
    <3>2. back(s).srv = [s EXCEPT !.back = b, !.now = m, !.fwd = f] /\ back(s).tl = seek_to_mark(tl, m)
      BY Zenon, <2>2 DEF back
    <3> HIDE DEF m, b, f
    <3>3. back(s).srv.back = b /\ back(s).srv.now = m /\ back(s).srv.fwd = f /\ back(s).tl.pos = m
      BY Zenon, <3>2 DEF seek_to_mark, Fields, TlFields, SrvFields
    <3> QED BY <1>0, <3>1, <3>3 DEF Trail
  <2> QED BY <2>1, <2>2
<1>5. Trail(forward(s).srv) /\ forward(s).tl.pos \in Places
  <2>1. CASE s.fwd = <<>>
    BY <2>1 DEF forward
  <2>2. CASE s.fwd # <<>>
    <3> DEFINE m == s.fwd[Len(s.fwd)]
               f == SubSeq(s.fwd, 1, Len(s.fwd) - 1)
               b == Append(s.back, s.now)
    <3>1. m \in Places /\ b \in Seq(Places) /\ f \in Seq(Places)
      BY Zenon, <1>1, <1>2, <1>3, <2>2 DEF Trail
    <3>2. forward(s).srv = [s EXCEPT !.fwd = f, !.now = m, !.back = b] /\ forward(s).tl = seek_to_mark(tl, m)
      BY Zenon, <2>2 DEF forward
    <3> HIDE DEF m, b, f
    <3>3. forward(s).srv.back = b /\ forward(s).srv.now = m /\ forward(s).srv.fwd = f /\ forward(s).tl.pos = m
      BY Zenon, <3>2 DEF seek_to_mark, Fields, TlFields, SrvFields
    <3> QED BY <1>0, <3>1, <3>3 DEF Trail
  <2> QED BY <2>1, <2>2
<1>6. Trail(rd_history_push(s).srv) /\ rd_history_push(s).tl.pos \in Places
  <2>1. CASE Diverted
    BY <2>1 DEF rd_history_push
  <2>2. CASE ~Diverted
    <3> DEFINE b == IF s.now = 0 THEN s.back ELSE Append(s.back, s.now)
    <3>1. b \in Seq(Places)
      BY Zenon, <1>2 DEF Trail
    <3>2. rd_history_push(s).srv = [s EXCEPT !.back = b, !.now = tl.pos, !.fwd = <<>>] /\ rd_history_push(s).tl = tl
      BY Zenon, <2>2 DEF rd_history_push
    <3> HIDE DEF b
    <3>3. LET r == rd_history_push(s) IN
          r.srv.back = b /\ r.srv.now = tl.pos /\ r.srv.fwd = <<>> /\ r.tl = tl
      BY Zenon, <3>2 DEF SrvFields
    <3> QED BY <1>0, <3>1, <3>3 DEF Trail
  <2> QED BY <2>1, <2>2
<1>7. CASE cmd = 2
  <2>1. process_command(s, cmd) = back(s)
    BY <1>7 DEF process_command, CmdCheckpoint, CmdDelete, CmdHistoryPush
  <2> QED BY Zenon, <1>4, <2>1
<1>8. CASE cmd = 3
  <2>1. process_command(s, cmd) = forward(s)
    BY <1>8 DEF process_command, CmdCheckpoint, CmdDelete, CmdHistoryPush
  <2> QED BY Zenon, <1>5, <2>1
<1>9. CASE cmd = 6
  <2>1. process_command(s, cmd) = rd_history_push(s)
    BY <1>9 DEF process_command, CmdCheckpoint, CmdDelete, CmdHistoryPush
  <2> QED BY Zenon, <1>6, <2>1
<1>10. CASE cmd \notin {2, 3, 6}
  <2>1. LET r == process_command(s, cmd) IN
        /\ r.tl.pos = tl.pos
        /\ r.srv.back = s.back /\ r.srv.now = s.now /\ r.srv.fwd = s.fwd
    BY Zenon, <1>10, Commands
  <2> QED BY Zenon, <2>1 DEF Trail
<1> QED BY Zenon, <1>7, <1>8, <1>9, <1>10

\* A list of checkpoints and a restart checkpoint, and references for them.
Listed(q) == q \in Seq(Cps) /\ \A i \in DOMAIN q : Sound(q[i])
Enough(q, c, refs) ==
    refs \in [Places -> Nat] /\ \A p \in Places : refs[p] >= Count(q, p) + One(c, p)

\* What is known of the checkpoints, in these terms.
LEMMA CheckpointsEnough ==
    Checkpoints <=>
       /\ Listed(srv.cps) /\ Sound(srv.restart)
       /\ pc \notin {"replay", "accept", "gone"} => srv.restart.pos # 0
       /\ Enough(srv.cps, srv.restart, tl.refs)
<1>1. tl.refs \in [Places -> Nat] => DOMAIN tl.refs = Places
  OBVIOUS
<1> QED BY Zenon, <1>1, KeptByCount DEF Checkpoints, Listed, Enough

\* A reference that is added, and one that is dropped.
LEMMA Reference ==
    ASSUME NEW t, DOMAIN t = TlFields, t.refs \in [Places -> Nat], NEW x \in Places
    PROVE  /\ LET u == add_explicit_checkpoint(t, x) IN
              /\ u.refs \in [Places -> Nat] /\ u.pos = t.pos /\ DOMAIN u = TlFields
              /\ \A p \in Places : u.refs[p] = t.refs[p] + (IF p = x THEN 1 ELSE 0)
           /\ LET u == remove_explicit_checkpoint(t, x) IN
              t.refs[x] # 0 =>
              /\ u.refs \in [Places -> Nat] /\ u.pos = t.pos /\ DOMAIN u = TlFields
              /\ \A p \in Places : u.refs[p] = t.refs[p] - (IF p = x THEN 1 ELSE 0)
<1>1. /\ add_explicit_checkpoint(t, x).refs = [t.refs EXCEPT ![x] = t.refs[x] + 1]
      /\ remove_explicit_checkpoint(t, x).refs = [t.refs EXCEPT ![x] = t.refs[x] - 1]
  BY DEF add_explicit_checkpoint, remove_explicit_checkpoint, TlFields
<1>2. /\ add_explicit_checkpoint(t, x).pos = t.pos /\ DOMAIN add_explicit_checkpoint(t, x) = TlFields
      /\ remove_explicit_checkpoint(t, x).pos = t.pos /\ DOMAIN remove_explicit_checkpoint(t, x) = TlFields
  BY DEF add_explicit_checkpoint, remove_explicit_checkpoint, TlFields
<1>3. /\ [t.refs EXCEPT ![x] = t.refs[x] + 1] \in [Places -> Nat]
      /\ \A p \in Places : [t.refs EXCEPT ![x] = t.refs[x] + 1][p] = t.refs[p] + (IF p = x THEN 1 ELSE 0)
  OBVIOUS
<1>4. ASSUME t.refs[x] # 0
      PROVE  /\ [t.refs EXCEPT ![x] = t.refs[x] - 1] \in [Places -> Nat]
             /\ \A p \in Places : [t.refs EXCEPT ![x] = t.refs[x] - 1][p] = t.refs[p] - (IF p = x THEN 1 ELSE 0)
  BY <1>4
<1> QED BY Zenon, <1>1, <1>2, <1>3, <1>4

\* `checkpoint' and `delete checkpoint' keep enough references.
LEMMA CommandCheckpoints ==
    ASSUME Fields, Placed, NEW s, DOMAIN s = SrvFields, s.cps = srv.cps, NEW cmd
    PROVE  LET r == process_command(s, cmd) IN
           Listed(r.srv.cps) /\ Enough(r.srv.cps, srv.restart, r.tl.refs)
<1> DEFINE c == srv.restart
<1>0. /\ Listed(srv.cps) /\ Sound(c) /\ Enough(srv.cps, c, tl.refs)
      /\ tl.pos \in Places /\ srv.lastC \in TaskOrNone
  BY Zenon, CheckpointsEnough DEF Placed, Standing, Threads
<1>p. 0 \notin Places /\ Places \subseteq Nat
  BY Recorded DEF Places
<1>o. \A q, p : One(q, p) \in {0, 1}
  BY DEF One
<1>n. /\ \A p : Count(srv.cps, p) \in Nat
      /\ DOMAIN tl = TlFields /\ tl.refs \in [Places -> Nat]
  BY Zenon, <1>0, Countable DEF Listed, Enough, Fields
<1>1. CASE cmd = 4
  <2>1. process_command(s, cmd) = invoke_checkpoint(s)
    BY <1>1 DEF process_command, CmdCheckpoint, CmdDelete, CmdHistoryPush
  <2> DEFINE k == Checkpoint
             q == Append(srv.cps, k)
             u == IF k.explicit THEN add_explicit_checkpoint(tl, tl.pos) ELSE tl
  <2>2. k.pos = tl.pos /\ k.explicit = can_add_checkpoint(tl.pos) /\ k.tuid = srv.lastC /\ k \in Cps
    <3>1. can_add_checkpoint(tl.pos) \in BOOLEAN
      BY Zenon DEF can_add_checkpoint, HasTask
    <3>2. k = [pos |-> tl.pos, explicit |-> can_add_checkpoint(tl.pos), tuid |-> srv.lastC]
      BY Zenon DEF Checkpoint
    <3> HIDE DEF k
    <3> QED BY <1>0, <3>1, <3>2 DEF Cps
  <2>3. Sound(k)
    BY Zenon, <1>p, <1>0, <2>2 DEF Sound
  <2>4. [s EXCEPT !.cps = Append(@, Checkpoint)].cps = q
    BY DEF SrvFields
  <2>5. process_command(s, cmd).srv.cps = q /\ process_command(s, cmd).tl = u
    <3>1. invoke_checkpoint(s).srv = [s EXCEPT !.cps = Append(@, Checkpoint)] /\ invoke_checkpoint(s).tl = u
      BY Zenon DEF invoke_checkpoint
    <3> HIDE DEF u, q
    <3> QED BY <2>1, <2>4, <3>1
  <2> HIDE DEF k
  <2>6. Listed(q)
    <3>1. /\ q \in Seq(Cps) /\ DOMAIN q = 1 .. (Len(srv.cps) + 1) /\ DOMAIN srv.cps = 1 .. Len(srv.cps)
          /\ q[Len(srv.cps) + 1] = k /\ \A i \in 1 .. Len(srv.cps) : q[i] = srv.cps[i]
      BY <1>0, <2>2 DEF Listed
    <3>2. \A i \in DOMAIN q : i \in DOMAIN srv.cps \/ i = Len(srv.cps) + 1
      BY <1>0, <3>1 DEF Listed
    <3> HIDE DEF q
    <3> QED BY Zenon, <1>0, <2>3, <3>1, <3>2 DEF Listed
  <2>7. \A p : Count(q, p) = Count(srv.cps, p) + One(k, p)
    BY Zenon, <1>0, <2>2, CountAppend DEF Listed
  <2>8. \A p \in Places : u.refs[p] = tl.refs[p] + One(k, p)
    <3>1. CASE k.explicit
      BY <1>0, <1>n, <2>2, <3>1, Reference DEF One, Refers
    <3>2. CASE ~k.explicit
      BY <1>n, <3>2 DEF One, Refers
    <3> QED BY Zenon, <3>1, <3>2
  <2>9. u.refs \in [Places -> Nat]
    BY Zenon, <1>0, <1>n, Reference
  <2> HIDE DEF q, u
  <2>10. \A p \in Places : u.refs[p] >= Count(q, p) + One(c, p)
    <3> SUFFICES ASSUME NEW p \in Places PROVE u.refs[p] >= Count(q, p) + One(c, p)
      OBVIOUS
    <3>1. /\ tl.refs[p] >= Count(srv.cps, p) + One(c, p) /\ tl.refs[p] \in Nat /\ Count(srv.cps, p) \in Nat
          /\ One(c, p) \in {0, 1} /\ One(k, p) \in {0, 1}
          /\ u.refs[p] = tl.refs[p] + One(k, p) /\ Count(q, p) = Count(srv.cps, p) + One(k, p)
      BY <1>0, <1>n, <1>o, <2>7, <2>8 DEF Enough
    <3> QED BY <3>1
  <2> QED BY Zenon, <2>5, <2>6, <2>9, <2>10 DEF Enough
<1>2. CASE cmd = 5
  <2>1. process_command(s, cmd) = invoke_delete_checkpoint(s)
    BY <1>2 DEF process_command, CmdCheckpoint, CmdDelete, CmdHistoryPush
  <2>2. CASE Len(s.cps) = 0 \/ s.cps[1] = NoCheckpoint
    <3>1. process_command(s, cmd).srv = s /\ process_command(s, cmd).tl = tl
      <4>1. invoke_delete_checkpoint(s) = [srv |-> s, tl |-> tl]
        BY Zenon, <2>2 DEF invoke_delete_checkpoint
      <4> QED BY <2>1, <4>1
    <3> QED BY Zenon, <1>0, <3>1
  <2>3. CASE ~(Len(s.cps) = 0 \/ s.cps[1] = NoCheckpoint)
    <3> DEFINE k == srv.cps[1]
               q == [srv.cps EXCEPT ![1] = NoCheckpoint]
               u == IF k.explicit THEN remove_explicit_checkpoint(tl, k.pos) ELSE tl
    <3>1. [s EXCEPT !.cps[1] = NoCheckpoint].cps = q
      BY DEF SrvFields
    <3>2. process_command(s, cmd).srv.cps = q /\ process_command(s, cmd).tl = u
      <4>1. /\ invoke_delete_checkpoint(s).srv = [s EXCEPT !.cps[1] = NoCheckpoint]
            /\ invoke_delete_checkpoint(s).tl = u
        BY Zenon, <2>3 DEF invoke_delete_checkpoint
      <4> HIDE DEF u, q
      <4> QED BY <2>1, <3>1, <4>1
    <3>3. Len(srv.cps) # 0 /\ k # NoCheckpoint
      BY Zenon, <2>3
    <3>4. 1 \in DOMAIN srv.cps /\ DOMAIN srv.cps = 1 .. Len(srv.cps)
      BY <1>0, <3>3 DEF Listed
    <3>5. Sound(k) /\ k.pos \in Places
      <4>1. Sound(k)
        BY Zenon, <1>0, <3>4 DEF Listed
      <4>2. k.pos # 0 /\ k.pos \in {0} \cup Places
        BY <3>3, <4>1 DEF Sound, Cps
      <4> QED BY <4>1, <4>2
    <3>6. NoCheckpoint \in Cps /\ Sound(NoCheckpoint)
      BY DEF NoCheckpoint, Cps, TaskOrNone, Sound
    <3>7. Listed(q)
      <4>1. /\ q \in Seq(Cps) /\ DOMAIN q = DOMAIN srv.cps
            /\ q[1] = NoCheckpoint /\ \A i \in DOMAIN q \ {1} : q[i] = srv.cps[i]
        BY <1>0, <3>4, <3>6 DEF Listed
      <4> HIDE DEF q
      <4> QED BY Zenon, <1>0, <3>6, <4>1 DEF Listed
    <3>8. \A p : Count(q, p) = Count(srv.cps, p) - One(k, p) /\ Count(srv.cps, p) >= One(k, p)
      BY Zenon, <1>0, <3>3, CountDrop DEF Listed
    <3>9. k.explicit => tl.refs[k.pos] # 0
      <4>1. tl.refs[k.pos] >= Count(srv.cps, k.pos) + One(c, k.pos) /\ Count(srv.cps, k.pos) >= One(k, k.pos)
        BY Zenon, <1>0, <3>5, <3>8 DEF Enough
      <4>2. k.explicit => One(k, k.pos) = 1
        BY DEF One, Refers
      <4>3. One(c, k.pos) \in {0, 1} /\ Count(srv.cps, k.pos) \in Nat
        BY Zenon, <1>n, <1>o
      <4> QED BY <4>1, <4>2, <4>3
    <3> HIDE DEF k, q
    <3>10. u.refs \in [Places -> Nat] /\ \A p \in Places : u.refs[p] = tl.refs[p] - One(k, p)
      <4>1. CASE k.explicit
        <5>1. u = remove_explicit_checkpoint(tl, k.pos) /\ \A p : One(k, p) = IF p = k.pos THEN 1 ELSE 0
          BY <4>1 DEF One, Refers
        <5> HIDE DEF u
        <5> QED BY <1>n, <3>5, <3>9, <4>1, <5>1, Reference
      <4>2. CASE ~k.explicit
        BY <1>n, <4>2 DEF One, Refers
      <4> QED BY Zenon, <4>1, <4>2
    <3> HIDE DEF u
    <3>11. \A p \in Places : u.refs[p] >= Count(q, p) + One(c, p)
      <4> SUFFICES ASSUME NEW p \in Places PROVE u.refs[p] >= Count(q, p) + One(c, p)
        OBVIOUS
      <4>1. /\ tl.refs[p] >= Count(srv.cps, p) + One(c, p) /\ tl.refs[p] \in Nat /\ Count(srv.cps, p) \in Nat
            /\ One(c, p) \in {0, 1} /\ One(k, p) \in {0, 1}
            /\ u.refs[p] = tl.refs[p] - One(k, p) /\ Count(q, p) = Count(srv.cps, p) - One(k, p)
        BY <1>0, <1>n, <1>o, <3>8, <3>10 DEF Enough
      <4> QED BY <4>1
    <3> QED BY Zenon, <3>2, <3>7, <3>10, <3>11 DEF Enough
  <2> QED BY Zenon, <2>2, <2>3
<1>3. CASE cmd # 4 /\ cmd # 5
  <2>1. process_command(s, cmd).srv.cps = s.cps /\ process_command(s, cmd).tl.refs = tl.refs
    BY Zenon, <1>3, Commands
  <2> QED BY Zenon, <1>0, <2>1
<1> QED BY Zenon, <1>1, <1>2, <1>3

\* Checkpoints with enough references after a step.
LEMMA CheckpointsNext ==
    ASSUME session' = session, Listed(srv'.cps), Sound(srv'.restart),
           pc' \notin {"replay", "accept", "gone"} => srv'.restart.pos # 0,
           Enough(srv'.cps, srv'.restart, tl'.refs)
    PROVE  Checkpoints'
<1>1. Listed(srv.cps)' <=> Listed(srv'.cps)
  BY Zenon, SameRecording DEF Listed
<1>2. Enough(srv.cps, srv.restart, tl.refs)' <=> Enough(srv'.cps, srv'.restart, tl'.refs)
  BY Zenon, SameRecording DEF Enough, Count, Referring, One, Refers
<1>3. Sound(srv.restart)' <=> Sound(srv'.restart)
  BY Zenon, SameRecording
<1>4. (/\ Listed(srv.cps) /\ Sound(srv.restart)
       /\ pc \notin {"replay", "accept", "gone"} => srv.restart.pos # 0
       /\ Enough(srv.cps, srv.restart, tl.refs))' => Checkpoints'
  BY CheckpointsEnough, PTL
<1> QED BY Zenon, <1>1, <1>2, <1>3, <1>4

\* The commands of gdb's script.
LEMMA CommandPlaced ==
    ASSUME Fields, Callers, Traffic, Placed, dispatch_rd_cmd \/ diverter_rd_cmd
    PROVE  Placed'
<1>1. PICK s \in {Aimed, srv} :
         /\ srv' = process_command(s, dbg.req.arg).srv /\ tl' = process_command(s, dbg.req.arg).tl
         /\ pc = "dispatch" /\ pc' = "request" /\ ctx # "lazy" /\ UNCHANGED <<session, ctx, div>>
  BY Zenon DEF dispatch_rd_cmd, diverter_rd_cmd, Dispatching, Answers
<1>2. /\ DOMAIN s = SrvFields /\ s.lastC \in TaskOrNone /\ s.lastQ \in TaskOrNone
      /\ \A f \in SrvFields \ {"lastC", "lastQ"} : s[f] = srv[f]
  <2>1. DOMAIN Aimed = SrvFields
    BY DEF Aimed, Fields
  <2> QED BY Zenon, <1>1, <2>1, Intermediate DEF Fields, Placed, Threads
<1>3. {"tguid", "restart", "cps", "back", "now", "fwd", "cur", "lastResume", "final"}
         \subseteq SrvFields \ {"lastC", "lastQ"}
  BY DEF SrvFields
<1>4. {"tguid", "restart", "cur", "lastResume", "final", "lastC", "lastQ"}
         \subseteq SrvFields \ {"cps", "back", "now", "fwd"}
  BY DEF SrvFields
<1>5. \A f \in SrvFields \ {"cps", "back", "now", "fwd"} : srv'[f] = s[f]
  <2>1. \A cmd : \A f \in SrvFields \ {"cps", "back", "now", "fwd"} : process_command(s, cmd).srv[f] = s[f]
    <3>1. DOMAIN s = SrvFields
      BY <1>2
    <3> QED BY <3>1, Commands
  <2> QED BY <1>1, <2>1
<1>6. /\ srv'.tguid = srv.tguid /\ srv'.restart = srv.restart /\ srv'.cur = srv.cur
      /\ srv'.lastResume = srv.lastResume /\ srv'.final = srv.final
      /\ srv'.lastC \in TaskOrNone /\ srv'.lastQ \in TaskOrNone
      /\ s.cps = srv.cps /\ s.back = srv.back /\ s.now = srv.now /\ s.fwd = srv.fwd
  BY <1>2, <1>3, <1>4, <1>5
<1>7. Trail(srv') /\ tl'.pos \in Places
  <2>1. Trail(s) /\ tl.pos \in Places
    BY Zenon, <1>6 DEF Trail, Placed, History, Standing
  <2> QED BY Zenon, <1>1, <1>2, <2>1, CommandMoves
<1>8. Listed(srv'.cps) /\ Enough(srv'.cps, srv.restart, tl'.refs)
  BY Zenon, <1>1, <1>2, <1>6, CommandCheckpoints
<1>9. Checkpoints'
  BY Zenon, <1>1, <1>6, <1>8, CheckpointsNext DEF Placed, Checkpoints
<1>10. Threads' /\ Numbers' /\ History'
  BY Zenon, <1>1, <1>6, <1>7, SameRecording DEF Placed, Threads, Numbers, History, Trail
<1>11. Standing'
  BY Zenon, <1>1, <1>6, <1>7, SameRecording DEF Placed, Standing
<1> QED BY Zenon, <1>9, <1>10, <1>11 DEF Placed

\* The debugger is activated at a frame of the debuggee's recording.
LEMMA Activation ==
    ASSUME Fields, Placed, NEW x \in 1 .. Len_, NEW s, DOMAIN s = SrvFields,
           NEW t, DOMAIN t = TlFields, t.refs = tl.refs
    PROVE  LET r == activate_debugger(s, x)  u == Activated(t, x) IN
           /\ \A f \in SrvFields \ {"target", "targetPid", "lastC", "lastQ", "restart"} : r[f] = s[f]
           /\ r.lastC \in TaskOrNone /\ r.lastQ \in TaskOrNone
           /\ Sound(r.restart) /\ r.restart.pos # 0
           /\ u.pos = x /\ Enough(srv.cps, r.restart, u.refs)
<1> DEFINE k == [pos |-> x, explicit |-> can_add_checkpoint(x), tuid |-> At(x).t]
<1>1. x \in Places /\ x # 0 /\ At(x).t \in Tasks
  BY Recorded DEF Places, At
<1>2. k.pos = x /\ k.explicit = can_add_checkpoint(x) /\ k \in Cps
  <2>1. can_add_checkpoint(x) \in BOOLEAN
    BY Zenon DEF can_add_checkpoint, HasTask
  <2> QED BY <1>1, <2>1 DEF Cps, TaskOrNone
<1> HIDE DEF k
<1>3. Sound(k)
  BY Zenon, <1>1, <1>2 DEF Sound
<1> DEFINE r == activate_debugger(s, x)
<1>4. /\ \A f \in SrvFields \ {"target", "targetPid", "lastC", "lastQ", "restart"} : r[f] = s[f]
      /\ r.lastC = At(x).t /\ r.lastQ = At(x).t /\ r.restart = k
  BY Zenon DEF activate_debugger, SrvFields, k
<1> HIDE DEF r
<1> DEFINE v == seek_to_mark(t, x)
           u == Activated(t, x)
<1>5. DOMAIN v = TlFields /\ v.pos = x /\ v.refs = tl.refs
  BY DEF seek_to_mark, TlFields
<1>6. u = IF can_add_checkpoint(x) THEN add_explicit_checkpoint(v, x) ELSE v
  BY Zenon DEF Activated
<1> HIDE DEF v, u
<1>7. Enough(srv.cps, srv.restart, tl.refs) /\ Listed(srv.cps)
  BY Zenon, CheckpointsEnough DEF Placed
<1>8. tl.refs \in [Places -> Nat] /\ \A p : Count(srv.cps, p) \in Nat
  BY Zenon, <1>7, Countable DEF Enough, Listed
<1>9. /\ u.pos = x /\ u.refs \in [Places -> Nat]
      /\ \A p \in Places : u.refs[p] = tl.refs[p] + One(k, p)
  <2>1. CASE can_add_checkpoint(x)
    <3>1. u = add_explicit_checkpoint(v, x) /\ \A p : One(k, p) = IF p = x THEN 1 ELSE 0
      BY <1>2, <1>6, <2>1 DEF One, Refers
    <3> QED BY <1>1, <1>5, <1>8, <3>1, Reference
  <2>2. CASE ~can_add_checkpoint(x)
    <3>1. u = v /\ \A p : One(k, p) = 0
      BY <1>2, <1>6, <2>2 DEF One, Refers
    <3> QED BY <1>5, <1>8, <3>1
  <2> QED BY Zenon, <2>1, <2>2
<1>10. \A p \in Places : u.refs[p] >= Count(srv.cps, p) + One(k, p)
  <2> SUFFICES ASSUME NEW p \in Places PROVE u.refs[p] >= Count(srv.cps, p) + One(k, p)
    OBVIOUS
  <2>1. /\ tl.refs[p] >= Count(srv.cps, p) + One(srv.restart, p) /\ tl.refs[p] \in Nat
        /\ Count(srv.cps, p) \in Nat /\ u.refs[p] = tl.refs[p] + One(k, p)
    BY <1>7, <1>8, <1>9 DEF Enough
  <2>2. One(srv.restart, p) \in {0, 1} /\ One(k, p) \in {0, 1}
    BY DEF One
  <2> QED BY <2>1, <2>2
<1> QED BY Zenon, <1>1, <1>2, <1>3, <1>4, <1>9, <1>10 DEF Enough, TaskOrNone, r, u

\* The reference moves from the old restart checkpoint to the new one.
LEMMA Restoring ==
    ASSUME Fields, Placed, pc = "returned", NEW c, Sound(c), c.pos # 0
    PROVE  /\ c.pos \in Places /\ c.tuid \in TaskOrNone
           /\ restore_checkpoint(c).pos = c.pos
           /\ Enough(srv.cps, c, restore_checkpoint(c).refs)
<1> DEFINE o == srv.restart
           x == c.pos
           t == seek_to_mark(Cleared, x)
           u == IF o.explicit THEN remove_explicit_checkpoint(t, o.pos) ELSE t
           v == IF can_add_checkpoint(x) THEN add_explicit_checkpoint(u, x) ELSE u
<1>1. x \in Places /\ c.tuid \in TaskOrNone
  BY DEF Sound, Cps
<1>2. /\ Enough(srv.cps, o, tl.refs) /\ Listed(srv.cps) /\ o.pos \in Places
  <2>1. Enough(srv.cps, o, tl.refs) /\ Listed(srv.cps) /\ Sound(o) /\ o.pos # 0
    BY Zenon, CheckpointsEnough DEF Placed
  <2>2. o.pos \in Places
    BY <2>1 DEF Sound, Cps
  <2> QED BY Zenon, <2>1, <2>2
<1>3. tl.refs \in [Places -> Nat] /\ \A p : Count(srv.cps, p) \in Nat
  BY Zenon, <1>2, Countable DEF Enough, Listed
<1>4. \A k, p : One(k, p) \in {0, 1}
  BY DEF One
<1>5. restore_checkpoint(c) = v
  BY Zenon DEF restore_checkpoint
<1>6. DOMAIN t = TlFields /\ t.pos = x /\ t.refs = tl.refs
  <2>1. DOMAIN Cleared = TlFields /\ Cleared.refs = tl.refs
    BY DEF Cleared, Fields, TlFields
  <2> QED BY <2>1 DEF seek_to_mark, TlFields
<1>7. o.explicit => tl.refs[o.pos] # 0
  <2>1. tl.refs[o.pos] >= Count(srv.cps, o.pos) + One(o, o.pos) /\ Count(srv.cps, o.pos) \in Nat
    BY Zenon, <1>2, <1>3 DEF Enough
  <2>2. o.explicit => One(o, o.pos) = 1
    BY DEF One, Refers
  <2> QED BY <2>1, <2>2
<1> HIDE DEF o, x, t
<1>8. /\ DOMAIN u = TlFields /\ u.pos = x /\ u.refs \in [Places -> Nat]
      /\ \A p \in Places : u.refs[p] = tl.refs[p] - One(o, p)
  <2>1. CASE o.explicit
    <3>1. u = remove_explicit_checkpoint(t, o.pos) /\ \A p : One(o, p) = IF p = o.pos THEN 1 ELSE 0
      BY <2>1 DEF One, Refers
    <3> HIDE DEF u
    <3> QED BY <1>2, <1>3, <1>6, <1>7, <2>1, <3>1, Reference
  <2>2. CASE ~o.explicit
    <3>1. u = t /\ \A p : One(o, p) = 0
      BY <2>2 DEF One, Refers
    <3> HIDE DEF u
    <3> QED BY <1>3, <1>6, <3>1
  <2> QED BY Zenon, <2>1, <2>2
<1> HIDE DEF u
<1>9. /\ v.pos = x /\ v.refs \in [Places -> Nat]
      /\ \A p \in Places : v.refs[p] >= u.refs[p] + One(c, p)
  <2>1. CASE can_add_checkpoint(x)
    <3>1. v = add_explicit_checkpoint(u, x) /\ \A p : One(c, p) <= IF p = x THEN 1 ELSE 0
      BY <2>1 DEF One, Refers, x
    <3> HIDE DEF v
    <3>2. /\ v.refs \in [Places -> Nat] /\ v.pos = u.pos
          /\ \A p \in Places : v.refs[p] = u.refs[p] + (IF p = x THEN 1 ELSE 0)
      BY <1>1, <1>8, <3>1, Reference DEF x
    <3> QED BY <1>4, <1>8, <3>1, <3>2
  <2>2. CASE ~can_add_checkpoint(x)
    <3>1. ~c.explicit
      BY <2>2 DEF Sound, x
    <3>2. v = u /\ \A p : One(c, p) = 0
      BY <2>2, <3>1 DEF One, Refers
    <3> HIDE DEF v
    <3> QED BY <1>8, <3>2
  <2> QED BY Zenon, <2>1, <2>2
<1> HIDE DEF v
<1>10. \A p \in Places : v.refs[p] >= Count(srv.cps, p) + One(c, p)
  <2> SUFFICES ASSUME NEW p \in Places PROVE v.refs[p] >= Count(srv.cps, p) + One(c, p)
    OBVIOUS
  <2>1. /\ tl.refs[p] >= Count(srv.cps, p) + One(o, p) /\ tl.refs[p] \in Nat
        /\ Count(srv.cps, p) \in Nat /\ u.refs[p] = tl.refs[p] - One(o, p)
        /\ v.refs[p] >= u.refs[p] + One(c, p) /\ v.refs[p] \in Nat /\ u.refs[p] \in Nat
    BY <1>2, <1>3, <1>8, <1>9 DEF Enough
  <2>2. One(o, p) \in {0, 1} /\ One(c, p) \in {0, 1}
    BY Zenon, <1>4
  <2> QED BY <2>1, <2>2
<1> QED BY Zenon, <1>1, <1>5, <1>9, <1>10 DEF Enough, x

\* The first debugger, and the restarts.
LEMMA RestartPlaced ==
    ASSUME Fields, Callers, Traffic, Placed, await_connection \/ restart_from_checkpoint \/ restart_from_event
    PROVE  Placed'
<1>0. Len_ \in Nat /\ Places = 1 .. (Len_ + 1) /\ NoReq.arg \in Nat
  BY Zenon, Recorded, RequestNumbers DEF Places
<1>n. /\ srv.cur.arg \in Nat /\ srv.lastResume.arg \in Nat /\ srv.final \in Nat \ {0} /\ tl.pos \in Places
      /\ srv.lastC \in TaskOrNone /\ srv.lastQ \in TaskOrNone /\ div.saved \in TaskOrNone
  BY Zenon DEF Placed, Numbers, Standing, Threads
<1>a. ASSUME /\ UNCHANGED <<session, div>> /\ pc \notin {"replay", "gone"} /\ pc' = "step" /\ ctx' \in {ctx, "normal"}
             /\ \A f \in {"tguid", "final", "cps", "back", "now", "fwd", "lazy"} : srv'[f] = srv[f]
             /\ srv'.cur \in {srv.cur, NoReq} /\ srv'.lastResume \in {srv.lastResume, NoReq}
             /\ srv'.lastC \in TaskOrNone /\ srv'.lastQ \in TaskOrNone
             /\ Sound(srv'.restart) /\ srv'.restart.pos # 0
             /\ tl'.pos \in Places /\ Enough(srv.cps, srv'.restart, tl'.refs)
      PROVE  Placed'
  <2>1. /\ srv'.tguid = srv.tguid /\ srv'.final = srv.final /\ srv'.cps = srv.cps /\ srv'.lazy = srv.lazy
        /\ srv'.back = srv.back /\ srv'.now = srv.now /\ srv'.fwd = srv.fwd
    BY Zenon, <1>a
  <2>2. Listed(srv.cps)
    BY Zenon, CheckpointsEnough DEF Placed
  <2>3. Checkpoints'
    BY Zenon, <1>a, <2>1, <2>2, CheckpointsNext
  <2>4. Threads' /\ Numbers' /\ History'
    BY Zenon, <1>0, <1>n, <1>a, <2>1, SameRecording DEF Placed, Threads, Numbers, History
  <2>5. Standing'
    BY Zenon, <1>a, <2>1, SameRecording DEF Placed, Standing
  <2> QED BY Zenon, <2>3, <2>4, <2>5 DEF Placed
<1> DEFINE Kept == {"tguid", "final", "cps", "back", "now", "fwd", "lazy"}
<1>k. /\ Kept \subseteq SrvFields \ {"target", "targetPid", "lastC", "lastQ", "restart"}
      /\ Kept \subseteq SrvFields \ {"endState", "cur", "lastResume", "pending", "stopping", "target"}
      /\ "cur" \in SrvFields \ {"target", "targetPid", "lastC", "lastQ", "restart"}
      /\ "lastResume" \in SrvFields \ {"target", "targetPid", "lastC", "lastQ", "restart"}
  BY DEF SrvFields
<1> HIDE DEF Kept
<1>r. /\ DOMAIN Restarting = SrvFields /\ DOMAIN Cleared = TlFields /\ Cleared.refs = tl.refs
      /\ \A f \in SrvFields \ {"endState", "cur", "lastResume"} : Restarting[f] = srv[f]
      /\ Restarting.cur = NoReq /\ Restarting.lastResume = NoReq
  <2>1. DOMAIN Restarting = SrvFields /\ DOMAIN Cleared = TlFields
    BY DEF Restarting, Cleared, Fields
  <2> QED BY Zenon, <2>1, Intermediate
<1>1. CASE await_connection
  <2>1. /\ pc = "accept" /\ HasTask(tl.pos) /\ pc' = "step" /\ ctx' = "normal" /\ UNCHANGED <<session, div>>
        /\ srv' = activate_debugger(srv, tl.pos) /\ tl' = Activated(tl, tl.pos)
    BY Zenon, <1>1 DEF await_connection
  <2>2. tl.pos \in 1 .. Len_
    BY <1>0, <1>n, <2>1 DEF HasTask
  <2>3. /\ \A f \in SrvFields \ {"target", "targetPid", "lastC", "lastQ", "restart"} : srv'[f] = srv[f]
        /\ srv'.lastC \in TaskOrNone /\ srv'.lastQ \in TaskOrNone
        /\ Sound(srv'.restart) /\ srv'.restart.pos # 0
        /\ tl'.pos = tl.pos /\ Enough(srv.cps, srv'.restart, tl'.refs)
    <3>1. DOMAIN srv = SrvFields /\ DOMAIN tl = TlFields
      BY DEF Fields
    <3> QED BY <2>1, <2>2, <3>1, Activation
  <2>4. /\ \A f \in Kept : srv'[f] = srv[f]
        /\ srv'.cur = srv.cur /\ srv'.lastResume = srv.lastResume
    BY <1>k, <2>3
  <2> QED BY Zenon, <1>a, <1>n, <2>1, <2>3, <2>4 DEF Kept
<1>2. CASE restart_from_checkpoint
  <2> DEFINE c == IF srv.cur.from = "previous" THEN srv.restart ELSE srv.cps[srv.cur.arg]
             s == [Restarting EXCEPT !.pending = TRUE, !.lastQ = c.tuid, !.lastC = c.tuid, !.restart = c]
  <2>1. /\ pc = "returned" /\ pc' = "step" /\ UNCHANGED <<session, ctx, div>>
        /\ srv' = s /\ tl' = restore_checkpoint(c)
        /\ srv.cur.from = "previous" \/ (srv.cur.from = "checkpoint" /\ KnownCheckpoint(srv.cur.arg))
    BY Zenon, <1>2 DEF restart_from_checkpoint, RestartsFrom, Returning
  <2>2. Sound(c) /\ c.pos # 0
    <3>1. /\ Sound(srv.restart) /\ srv.restart.pos # 0
          /\ \A i \in DOMAIN srv.cps : Sound(srv.cps[i])
      BY Zenon, <2>1 DEF Placed, Checkpoints
    <3>2. CASE srv.cur.from = "previous"
      BY Zenon, <3>1, <3>2
    <3>3. CASE srv.cur.from # "previous"
      <4>1. srv.cur.arg \in DOMAIN srv.cps /\ c # NoCheckpoint /\ c = srv.cps[srv.cur.arg]
        BY Zenon, <2>1, <3>3 DEF KnownCheckpoint
      <4> HIDE DEF c
      <4> QED BY Zenon, <3>1, <4>1 DEF Sound
    <3> QED BY Zenon, <3>2, <3>3
  <2> HIDE DEF c
  <2>3. c.pos \in Places /\ c.tuid \in TaskOrNone /\ tl'.pos = c.pos /\ Enough(srv.cps, c, tl'.refs)
    BY Zenon, <2>1, <2>2, Restoring
  <2>4. /\ s.restart = c /\ s.lastC = c.tuid /\ s.lastQ = c.tuid /\ s.cur = NoReq /\ s.lastResume = NoReq
        /\ \A f \in Kept : s[f] = srv[f]
    BY <1>r DEF SrvFields, Kept
  <2> HIDE DEF s
  <2> QED BY Zenon, <1>a, <1>n, <2>1, <2>2, <2>3, <2>4 DEF Kept
<1>3. CASE restart_from_event
  <2> DEFINE event == Min({srv.final - 1, srv.cur.arg})
             s == [Restarting EXCEPT !.pending = TRUE, !.stopping = FALSE, !.target = event]
             exits(p) == is_last_thread_exit(p) /\ ProcOf[trace[p].t] = srv.targetPid
             ends_at == {p \in (event + 1) .. Len_ : exits(p - 1) \/ at_target(s, p)}
             x == Min(ends_at)
             w == [s EXCEPT !.endState = exits(x - 1)]
  <2>1. /\ pc = "returned"
        /\ IF ends_at = {} THEN Panics("restart")
           ELSE Returning(activate_debugger(w, x), Activated(Cleared, x)) /\ UNCHANGED <<dbg, out>>
    BY Zenon, <1>3 DEF restart_from_event, RestartsFrom
  <2>2. event \in Nat
    <3>1. {srv.final - 1, srv.cur.arg} \subseteq Nat /\ {srv.final - 1, srv.cur.arg} # {}
      BY <1>n
    <3> HIDE DEF event
    <3> QED BY Zenon, <3>1, MinOfNats DEF event
  <2> HIDE DEF event
  <2>3. DOMAIN w = SrvFields /\ w.cur = NoReq /\ w.lastResume = NoReq /\ \A f \in Kept : w[f] = srv[f]
    <3> HIDE DEF exits, x, ends_at
    <3> QED BY <1>r DEF SrvFields, Kept
  <2>4. CASE ends_at = {}
    <3>1. Panics("restart")
      BY Zenon, <2>1, <2>4
    <3>2. Minor
      BY Zenon, <1>n, <2>1, <3>1 DEF Panics, Ending, Minor, Placed, Threads, Numbers, TaskOrNone, Tasks
    <3> QED BY Zenon, <3>2, MinorPlaced
  <2>5. CASE ends_at # {}
    <3>1. x \in 1 .. Len_
      <4>1. ends_at \subseteq Nat /\ \A p \in ends_at : p \in 1 .. Len_
        BY <1>0, <2>2
      <4> HIDE DEF ends_at, x
      <4>2. x \in ends_at
        BY Zenon, <2>5, <4>1, MinOfNats DEF x
      <4> QED BY Zenon, <4>1, <4>2
    <3>2. /\ srv' = activate_debugger(w, x) /\ tl' = Activated(Cleared, x)
          /\ pc' = "step" /\ UNCHANGED <<session, ctx, div>>
      <4> HIDE DEF ends_at, w
      <4> QED BY Zenon, <2>1, <2>5 DEF Returning
    <3> HIDE DEF x, w, ends_at
    <3>3. /\ \A f \in SrvFields \ {"target", "targetPid", "lastC", "lastQ", "restart"} : srv'[f] = w[f]
          /\ srv'.lastC \in TaskOrNone /\ srv'.lastQ \in TaskOrNone
          /\ Sound(srv'.restart) /\ srv'.restart.pos # 0
          /\ tl'.pos = x /\ Enough(srv.cps, srv'.restart, tl'.refs)
      <4>1. DOMAIN w = SrvFields /\ DOMAIN Cleared = TlFields /\ Cleared.refs = tl.refs
        BY Zenon, <1>r, <2>3
      <4> QED BY <3>1, <3>2, <4>1, Activation
    <3>4. /\ \A f \in Kept : srv'[f] = srv[f]
          /\ srv'.cur = NoReq /\ srv'.lastResume = NoReq
      BY <1>k, <2>3, <3>3
    <3>5. x \in Places
      BY <1>0, <3>1
    <3> QED BY Zenon, <1>a, <2>1, <3>2, <3>3, <3>4, <3>5 DEF Kept
  <2> QED BY Zenon, <2>4, <2>5
<1> QED BY Zenon, <1>1, <1>2, <1>3

-----------------------------------------------------------------------------
(* Putting the steps together.                                             *)

\* Every step keeps the places, threads, history and checkpoints.
LEMMA NextPlaced ==
    ASSUME Fields, Callers, Traffic, Placed, Next
    PROVE  Placed'
<1>1. CASE \/ notify_restart \/ get_request \/ read_packet \/ receive_packet
           \/ dispatch_untargeted \/ dispatch_file \/ dispatch_select \/ dispatch_extra_info
           \/ notify_no_such_thread \/ dispatch_query \/ dispatch_write \/ dispatch_break
           \/ dispatch_write_siginfo \/ dispatch_qsymbol
  BY Zenon, <1>1, MinorRequests, MinorPlaced
<1>2. CASE \/ LazyRegs \/ divert \/ diverter_siginfo \/ diverter_unbalanced \/ divert_return
           \/ divert_backward \/ divert_forward \/ divert_interrupt \/ divert_no_task
           \/ return_request \/ handle_exited_state \/ debug_one_step \/ fake_exit \/ detach
           \/ interrupt_stop \/ resume_fails \/ run_to_termination \/ restart_failed
  BY Zenon, <1>2, MinorSteps, MinorPlaced
<1>3. CASE run_forward_exec \/ run_forward \/ run_backward \/ run_backward_fails
  BY Zenon, <1>3, ReplayPlaced
<1>4. CASE LazyStep \/ LazyEnd \/ resume \/ serve_replay \/ interrupt_replay_to_target \/ Debugger
  BY Zenon, <1>4, OtherPlaced
<1>5. CASE dispatch_rd_cmd \/ diverter_rd_cmd
  BY Zenon, <1>5, CommandPlaced
<1>6. CASE await_connection \/ restart_from_checkpoint \/ restart_from_event
  BY Zenon, <1>6, RestartPlaced
<1> QED BY Zenon, <1>1, <1>2, <1>3, <1>4, <1>5, <1>6 DEF Next, Server

\* The replay starts before the first frame, with nothing referenced.
LEMMA InitPlaced ==
    ASSUME Init
    PROVE  Traffic /\ Placed
<1>1. /\ session \in DOMAIN Sessions /\ wire = <<>> /\ sock = <<>> /\ pc = "replay" /\ ctx = "normal"
      /\ dbg = NewConnection /\ div = NoDiversion
      /\ tl = [pos |-> 1, bps |-> {}, refs |-> [p \in 1 .. (Len_ + 1) |-> 0]]
  BY Zenon DEF Init
<1>2. /\ srv.lastC = 0 /\ srv.lastQ = 0 /\ srv.lastResume = NoReq /\ srv.final = 1000
      /\ srv.restart = NoCheckpoint /\ srv.cps = <<>> /\ srv.back = <<>> /\ srv.now = 0 /\ srv.fwd = <<>>
      /\ srv.cur = NoReq
  BY Zenon DEF Init
<1>3. Len_ \in Nat \ {0}
  BY Zenon, InitCallers, Recorded
<1>4. NoReq.arg \in Nat
  BY Zenon, RequestNumbers
<1>5. Traffic
  <2>1. dbg.inbuf = <<>> /\ dbg.req = NoReq
    BY Zenon, <1>1 DEF NewConnection
  <2> QED BY <1>1, <1>4, <2>1 DEF Traffic, Buffers
<1>6. tl.pos = 1 /\ tl.refs = [p \in Places |-> 0]
  BY <1>1 DEF Places
<1>7. Standing /\ Threads /\ Numbers /\ History
  <2>1. Standing
    BY <1>1, <1>3, <1>6 DEF Standing, Places, HasTask
  <2>2. Threads
    BY <1>1, <1>2 DEF Threads, TaskOrNone, NoDiversion
  <2>3. Numbers /\ History
    BY <1>2, <1>4 DEF Numbers, History
  <2> QED BY Zenon, <2>1, <2>2, <2>3
<1>8. Checkpoints
  <2>1. Listed(srv.cps)
    BY <1>2 DEF Listed
  <2>2. Sound(srv.restart)
    BY <1>2 DEF Sound, NoCheckpoint, Cps, TaskOrNone
  <2>3. Enough(srv.cps, srv.restart, tl.refs)
    <3>1. \A p : Count(srv.cps, p) = 0
      <4>1. \A p : Referring(srv.cps, p) = {}
        BY <1>2 DEF Referring
      <4> QED BY <4>1, FS_EmptySet DEF Count
    <3>2. \A p : One(srv.restart, p) = 0
      BY <1>2 DEF One, Refers, NoCheckpoint
    <3> QED BY <1>6, <3>1, <3>2 DEF Enough
  <2> QED BY Zenon, <1>1, <2>1, <2>2, <2>3, CheckpointsEnough
<1> QED BY Zenon, <1>5, <1>7, <1>8 DEF Placed

\* The invariant is inductive.
LEMMA ServerInductive ==
    /\ Init => ServerInv
    /\ ServerInv /\ [Next]_vars => ServerInv'
<1>1. Init => ServerInv
  BY Zenon, InitCallers, InitPlaced DEF ServerInv
<1>2. ASSUME ServerInv, Next PROVE ServerInv'
  <2>1. Fields /\ Callers /\ Traffic /\ Placed
    BY Zenon, <1>2 DEF ServerInv
  <2>2. Fields' /\ Callers'
    BY Zenon, <1>2, <2>1, NextFields, NextCallers
  <2>3. Traffic' /\ Placed'
    BY Zenon, <1>2, <2>1, NextTraffic, NextPlaced
  <2> QED BY Zenon, <2>2, <2>3 DEF ServerInv
<1>3. ASSUME ServerInv, UNCHANGED vars PROVE ServerInv'
  <2>1. /\ UNCHANGED <<session, wire, sock, pc, ctx, dbg, srv, tl, div>>
    BY Zenon, <1>3 DEF vars
  <2>2. (Fields /\ Callers)'
    BY Zenon, <1>3, <2>1 DEF ServerInv, Fields, Callers
  <2>3. Traffic'
    <3>1. Sendable(session)' = Sendable(session)
      BY Zenon, <2>1 DEF Sendable
    <3> QED BY Zenon, <1>3, <2>1, <3>1 DEF ServerInv, Traffic, Buffers
  <2>4. Placed'
    <3>1. Checkpoints'
      BY Zenon, <1>3, <2>1, CheckpointsStay DEF ServerInv, Placed
    <3> QED BY Zenon, <1>3, <2>1, <3>1, SameRecording DEF ServerInv, Placed, Standing, Threads, Numbers, History
  <2> QED BY Zenon, <2>2, <2>3, <2>4 DEF ServerInv
<1> QED BY Zenon, <1>1, <1>2, <1>3

\* For every recording and whatever gdb sends: each checkpoint gdb can restart
\* from, and the one the next `run' restarts from, has a reference of its own in
\* the timeline, through `checkpoint', `delete checkpoint', restarts and new
\* connections (Checkpoint::new, invoke_delete_checkpoint, restart_session).
THEOREM GdbCheckpointsKept == Spec => []CheckpointsKept
<1>1. ServerInv => CheckpointsKept
  BY Zenon DEF ServerInv, Placed, Checkpoints
<1> QED BY <1>1, ServerInductive, PTL DEF Spec

\* For every recording and whatever gdb sends: the replay, gdb's history and the
\* selected threads stay in the recording, and a frame is replayed only where
\* there is one (seek_to_mark, back, forward, restart_session, the lazy steps).
THEOREM GdbStaysInRecording == Spec => [](Standing /\ Threads /\ History)
<1>1. ServerInv => Standing /\ Threads /\ History
  BY Zenon DEF ServerInv, Placed
<1> QED BY <1>1, ServerInductive, PTL DEF Spec

=============================================================================
