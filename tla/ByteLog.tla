------------------------------- MODULE ByteLog -------------------------------
(***************************************************************************)
(* What a CompressedWriter promises its user: bytes are accepted one write *)
(* after the other, they reach the file in the order in which they were    *)
(* accepted, and after a close without error all of them have.  Once a     *)
(* failure has happened the file may stay behind for ever, and the close   *)
(* reports it.                                                             *)
(***************************************************************************)
EXTENDS Naturals

VARIABLES
    accepted,   \* number of bytes the writer has taken
    filed,      \* number of bytes in the file: a prefix of the accepted ones
    state       \* "open", "failed", "closed" or "closed_failed"

logvars == <<accepted, filed, state>>

LogInit == accepted = 0 /\ filed = 0 /\ state \in {"open", "failed"}

Accept ==
    /\ state \in {"open", "failed"}
    /\ accepted' \in Nat
    /\ accepted' > accepted
    /\ UNCHANGED <<filed, state>>

File ==
    /\ state \in {"open", "failed"}
    /\ filed' \in (filed + 1)..accepted
    /\ UNCHANGED <<accepted, state>>

Break ==
    /\ state = "open"
    /\ state' = "failed"
    /\ UNCHANGED <<accepted, filed>>

CloseLog ==
    /\ \/ state = "open" /\ filed = accepted /\ state' = "closed"
       \/ state \in {"open", "failed"} /\ state' = "closed_failed"
    /\ UNCHANGED <<accepted, filed>>

LogNext == Accept \/ File \/ Break \/ CloseLog

LogSpec == LogInit /\ [][LogNext]_logvars

=============================================================================
