------------------------------- MODULE MCGdb -------------------------------
(* Small instances of GdbServer. *)
EXTENDS GdbServer

F(t, k, to) == [t |-> t, k |-> k, to |-> to]
\* Two threads of process 1 and one of process 2: signals, writes, exits.
ExitingTrace ==
    <<F(1, "run", 0), F(1, "run", 1), F(1, "run", 0), F(3, "run", 0), F(2, "write", 0), F(2, "exiting", 0), F(2, "exit", 0),
      F(1, "signal", 0), F(1, "exiting", 0), F(1, "exit", 0), F(3, "exiting", 0), F(3, "exit", 0)>>
\* One process that execs; the recording breaks off.
ExecTrace ==
    <<F(1, "run", 0), F(1, "run", 1), F(2, "run", 0), F(3, "run", 0), F(1, "write", 0), F(1, "exec", 0), F(1, "run", 0)>>
CutTrace ==
    <<F(1, "run", 0), F(1, "run", 0), F(2, "run", 1), F(3, "run", 0), F(1, "termination", 0)>>
\* The thread gdb attaches to exits.
GoneTrace ==
    <<F(1, "run", 0), F(2, "run", 0), F(2, "exiting", 0), F(2, "exit", 0), F(1, "run", 0), F(1, "termination", 0)>>
ProcOfDef == <<1, 1, 2>>

P(k, t, a) == [k |-> k, t |-> t, a |-> a]
Moves == {P("c", ANY, 0), P("vCont", ANY, 1), P("vCont", 2, 3), P("bc", ANY, 0), P("bs", ANY, 0)}
Running ==
    Moves \cup {P("g", ANY, 0), P("Hg", 1, 0), P("Hg", 2, 0), P("Hc", 2, 0), P("Z", ANY, 1), P("z", ANY, 1), P("Z", ANY, 2)}
Restarts ==
    {P("c", ANY, 0), P("bc", ANY, 0), P("g", ANY, 0), P("vRun", ANY, 0), P("vRun:c", ANY, 1), P("vRun:event", ANY, 2), P("vRun:event", ANY, 4)}
    \cup {P("qRDCmd", ANY, a) : a \in 1..7}
Diverting ==
    {P("qXfer:siginfo:read", ANY, 0), P("qXfer:siginfo:write", ANY, 0), P("Hg", 2, 0), P("g", ANY, 0), P("c", ANY, 0),
     P("bc", ANY, 0), P("Z", ANY, 1), P("z", ANY, 1), P("X", ANY, 1), P("P", ANY, 0), P("qRDCmd", ANY, 1), P("qRDCmd", ANY, 4), P("vRun", ANY, 0)}
Asking ==
    {P(k, 2, 0) : k \in {"T", "qThreadExtraInfo", "qGetTLSAddr"}}
    \cup {P(k, ANY, 0) : k \in Queries \ (Siginfo \cup {"qRDCmd", "qThreadExtraInfo", "qGetTLSAddr"})}
    \cup {P(k, ANY, 0) : k \in {"b:other", "m", "p", "Z:type", "?", "!", "G", "QStartNoAckMode", "Q:other", "c",
                                "vCont?", "vCont:command", "vFile:other", "vKill", "v:other", "D", "k"}}
    \cup {P("qXfer:features:read", ANY, a) : a \in 0..3}
Lookups ==
    {P("vFile:open", ANY, 0), P("vFile:open", ANY, 1), P("vFile:open", ANY, 2), P("vFile:pread", ANY, 0), P("vFile:close", ANY, 0),
     P("vFile:pread", ANY, 2), P("vFile:close", ANY, 2), P("vFile:setfs", ANY, 0),
     P("qSymbol::", ANY, 0), P("qSymbol:found", ANY, 0), P("qSymbol:unknown", ANY, 0), P("QStartNoAckMode", ANY, 0)}

Session(tr, packets, limit, interrupts, connections) ==
    [trace |-> tr, packets |-> packets, limit |-> limit, interrupts |-> interrupts,
     connections |-> connections, split |-> FALSE]
SessionsDef ==
    << Session(ExitingTrace, Running, 3, 0, 1),
       Session(ExitingTrace, {P("c", ANY, 0), P("bc", ANY, 0)}, 4, 1, 1),
       Session(CutTrace, Running, 2, 1, 1),
       Session(CutTrace, {P("c", ANY, 0), P("bc", ANY, 0)}, 2, 1, 2),
       Session(ExecTrace, Running, 3, 0, 1),
       Session(ExitingTrace, Restarts, 3, 0, 1),
       Session(ExecTrace, Restarts, 3, 0, 1),
       Session(ExecTrace, Diverting, 4, 0, 1),
       Session(CutTrace, Diverting, 2, 1, 1),
       Session(GoneTrace, {P("c", ANY, 0), P("bc", ANY, 0), P("bs", ANY, 0), P("qXfer:siginfo:read", ANY, 0)}, 3, 2, 1),
       Session(CutTrace, {P("qXfer:siginfo:read", ANY, 0), P("qXfer:siginfo:write", ANY, 0), P("qRDCmd", ANY, 1)}, 5, 0, 1),
       Session(ExitingTrace, Asking, 2, 0, 1),
       Session(CutTrace, Lookups, 4, 0, 1),
       [Session(CutTrace, {P("c", ANY, 0), P("g", ANY, 0)}, 2, 0, 1) EXCEPT !.split = TRUE] >>

\* The registers rd reports are those of the thread and of the position gdb
\* believes it is looking at (StopSelectsThread, PositionAgrees): stops,
\* selections, lazy reverse steps, diversions and restarts included.
RegistersAgree == TypeOK /\ StopSelectsThread /\ PositionAgrees
=============================================================================
