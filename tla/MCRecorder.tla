------------------------------ MODULE MCRecorder ------------------------------
(* Instances of Recorder for TLC. *)
EXTENDS Recorder

(* All tasks are threads of one process. *)
OneProcess == [t \in Task |-> 1]
(* Two threads and a second process. *)
TwoProcesses == [t \in Task |-> IF t = 3 THEN 3 ELSE 1]
(* Every task a process of its own. *)
AllProcesses == [t \in Task |-> t]

(* One step of niceness, and the priority of stable exits. *)
NiceValues == {0, 1}
Priorities == {-9999, 0, 1}

=============================================================================
