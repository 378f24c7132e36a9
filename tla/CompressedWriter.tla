--------------------------- MODULE CompressedWriter ---------------------------
(***************************************************************************)
(* CompressedWriter (src/src/trace/compressed_writer.rs): one producer     *)
(* writes bytes into a ring buffer, several threads take blocks out of it, *)
(* compress them and write them to the file, in stream order.              *)
(*                                                                         *)
(* A byte is represented by its position in the stream.  The sections the  *)
(* code runs under the mutex are single steps; the copy into the buffer,   *)
(* the reads of do_compress and the write to the file happen outside it,   *)
(* in steps of their own.  A thread in cond_var.wait is in asleep until    *)
(* somebody calls notify_all, or it wakes for no reason.                   *)
(*                                                                         *)
(* The producer, ppc:                                                      *)
(*   "idle"     between two calls                                          *)
(*   "write"    in the loop of write                                       *)
(*   "reserve"  about to call update_reservation(Wait)                    *)
(*   "waiting"  in the wait of update_reservation                          *)
(*   "flush"    about to call update_reservation(NoWait) in write          *)
(*   "close", "closing", "join", "closed"   in close                       *)
(* A compressor thread, tpc:                                               *)
(*   "ready"    at the top of its loop                                     *)
(*   "compress" in do_compress                                             *)
(*   "order"    compressed, waiting for its turn                           *)
(*   "write"    in write_all                                               *)
(*   "done"     has left its loop, or was never started                    *)
(***************************************************************************)
EXTENDS Integers, Sequences, FiniteSets

CONSTANTS
    Thread,         \* the compressor threads
    BlockSize,      \* CompressedWriter::block_size
    Sizes,          \* sizes of the writes
    MaxBytes,       \* bound on the bytes written
    MayFail         \* opening, compressing and fsync may fail

ASSUME ThreadAssumption == IsFiniteSet(Thread) /\ Thread # {}
ASSUME BlockSizeAssumption == BlockSize \in Nat \ {0}
ASSUME SizesAssumption == Sizes \subseteq Nat
ASSUME MaxBytesAssumption == MaxBytes \in Nat
ASSUME MayFailAssumption == MayFail \in BOOLEAN

Idle == -1                  \* None in thread_pos
Producer == "producer"

ASSUME ProducerAssumption == Producer \notin Thread

VARIABLES
    (* CompressedWriterData, under the mutex *)
    thread_pos, next_thread_pos, next_thread_end_pos, closing, write_error,
    (* CompressedWriter *)
    producer_reserved_pos, producer_reserved_write_pos,
    producer_reserved_upto_pos, error, buffer, fd_open,
    (* control state *)
    ppc,        \* of the producer
    size,       \* bytes left in the current write
    tpc,        \* of the threads
    length,     \* header.uncompressed_length of each thread
    outputbuf,  \* of each thread: first filled, then written out
    asleep,     \* who is in cond_var.wait
    file        \* the bytes in the file

shared == <<thread_pos, next_thread_pos, next_thread_end_pos, closing, write_error>>
producer == <<producer_reserved_pos, producer_reserved_write_pos,
              producer_reserved_upto_pos, error, buffer, fd_open, ppc, size>>
threads == <<tpc, length, outputbuf>>
vars == <<shared, producer, threads, asleep, file>>

(* buffer.len() *)
BufferLen == BlockSize * (Cardinality(Thread) + 2)

ThreadStates == {"ready", "compress", "order", "write", "done"}

TypeOK ==
    /\ thread_pos \in [Thread -> Nat \cup {Idle}]
    /\ next_thread_pos \in Nat
    /\ next_thread_end_pos \in Nat
    /\ closing \in BOOLEAN
    /\ write_error \in BOOLEAN
    /\ producer_reserved_pos \in Nat
    /\ producer_reserved_write_pos \in Nat
    /\ producer_reserved_upto_pos \in Nat
    /\ error \in BOOLEAN
    /\ fd_open \in BOOLEAN
    /\ buffer \in [0..(BufferLen - 1) -> Nat \cup {Idle}]
    /\ ppc \in {"idle", "write", "reserve", "waiting", "flush", "close",
               "closing", "join", "closed"}
    /\ size \in Nat
    /\ tpc \in [Thread -> ThreadStates]
    /\ length \in [Thread -> 0..BlockSize]
    /\ outputbuf \in [Thread -> Seq(Nat \cup {Idle})]
    /\ asleep \subseteq Thread \cup {Producer}
    /\ file \in Seq(Nat \cup {Idle})

Init ==
    /\ thread_pos = [t \in Thread |-> Idle]
    /\ next_thread_pos = 0
    /\ next_thread_end_pos = 0
    /\ closing = FALSE
    /\ write_error = FALSE
    /\ producer_reserved_pos = 0
    /\ producer_reserved_write_pos = 0
    /\ producer_reserved_upto_pos = 0
    /\ fd_open \in IF MayFail THEN BOOLEAN ELSE {TRUE}
    /\ error = ~fd_open
    /\ buffer = [i \in 0..(BufferLen - 1) |-> Idle]
    /\ ppc = "idle"
    /\ size = 0
    /\ tpc = [t \in Thread |-> IF fd_open THEN "ready" ELSE "done"]
    /\ length = [t \in Thread |-> 0]
    /\ outputbuf = [t \in Thread |-> <<>>]
    /\ asleep = {}
    /\ file = <<>>

SmallerOf(m, n) == IF m <= n THEN m ELSE n

-----------------------------------------------------------------------------
(* The producer *)

(***************************************************************************)
(* completed_pos of update_reservation: the first position that is not     *)
(* known to be out of the buffer.                                          *)
(***************************************************************************)
Pending == {next_thread_pos} \cup {thread_pos[t] : t \in {u \in Thread : thread_pos[u] # Idle}}

(* Mutant: blocks being compressed are taken for completed. *)
IsCompletedPos_IgnoresThreads(c) == c = next_thread_pos

IsCompletedPos(c) == c \in Pending /\ \A p \in Pending : c <= p

(***************************************************************************)
(* The loop of update_reservation, entered with the mutex held: it leaves  *)
(* to `after`, or waits.  sleepers are the others in cond_var.wait.        *)
(***************************************************************************)
ReservationLoop(wait, after, sleepers) ==
    \/ /\ error \/ write_error
       /\ error' = TRUE
       /\ ppc' = after
       /\ asleep' = sleepers
       /\ UNCHANGED producer_reserved_upto_pos
    \/ /\ ~error /\ ~write_error
       /\ \E c \in Pending :
             IsCompletedPos(c) /\ producer_reserved_upto_pos' = c + BufferLen
       /\ IF producer_reserved_pos' < producer_reserved_upto_pos' \/ ~wait
          THEN ppc' = after /\ asleep' = sleepers
          ELSE ppc' = "waiting" /\ asleep' = sleepers \cup {Producer}
       /\ UNCHANGED error

(* update_reservation, up to its first wait *)
UpdateReservation(wait, after) ==
    /\ next_thread_end_pos' = producer_reserved_write_pos
    /\ producer_reserved_pos' = producer_reserved_write_pos
    /\ ReservationLoop(wait, after, {})
    /\ UNCHANGED <<thread_pos, next_thread_pos, closing, write_error, threads, file,
                   producer_reserved_write_pos, buffer, fd_open, size>>

(* The user calls write. *)
Write(n) ==
    /\ ppc = "idle"
    /\ producer_reserved_write_pos + n <= MaxBytes
    /\ ppc' = "write"
    /\ size' = n
    /\ UNCHANGED <<shared, threads, asleep, file, producer_reserved_pos, fd_open, error,
                   producer_reserved_write_pos, producer_reserved_upto_pos, buffer>>

Reservation == producer_reserved_upto_pos - producer_reserved_write_pos

(* One iteration of write that copies bytes into the reserved space. *)
Copy ==
    LET offset == producer_reserved_write_pos % BufferLen
        amount == SmallerOf(BufferLen - offset, SmallerOf(Reservation, size))
    IN
    /\ ppc = "write"
    /\ ~error
    /\ size > 0
    /\ Reservation # 0
    /\ buffer' = [i \in 0..(BufferLen - 1) |->
                     IF offset <= i /\ i < offset + amount
                     THEN producer_reserved_write_pos + (i - offset) ELSE buffer[i]]
    /\ producer_reserved_write_pos' = producer_reserved_write_pos + amount
    /\ size' = size - amount
    /\ UNCHANGED <<shared, threads, asleep, file, producer_reserved_pos,
                   producer_reserved_upto_pos, error, ppc, fd_open>>

(* No reserved space is left. *)
NeedReservation ==
    /\ ppc = "write"
    /\ ~error
    /\ size > 0
    /\ Reservation = 0
    /\ ppc' = "reserve"
    /\ UNCHANGED <<shared, threads, asleep, file, producer_reserved_pos, size, fd_open,
                   producer_reserved_write_pos, producer_reserved_upto_pos, error, buffer>>

Reserve ==
    /\ ppc = "reserve"
    /\ UpdateReservation(TRUE, "write")

(* The wait of update_reservation is over. *)
ReserveAgain ==
    /\ ppc = "waiting"
    /\ Producer \notin asleep
    /\ UNCHANGED producer_reserved_pos
    /\ ReservationLoop(TRUE, "write", asleep)
    /\ UNCHANGED <<shared, threads, file, producer_reserved_write_pos, buffer, fd_open, size>>

(* The end of write: half a buffer of bytes is handed to the threads. *)
EndWrite ==
    /\ ppc = "write"
    /\ error \/ size = 0
    /\ size' = 0
    /\ ppc' = IF /\ ~error
                 /\ producer_reserved_write_pos - producer_reserved_pos >= BufferLen \div 2
              THEN "flush" ELSE "idle"
    /\ UNCHANGED <<shared, threads, asleep, file, producer_reserved_pos, fd_open,
                   producer_reserved_write_pos, producer_reserved_upto_pos, error, buffer>>

Flush == ppc = "flush" /\ UpdateReservation(FALSE, "idle")

(* The user calls close, or drops the writer. *)
BeginClose ==
    /\ ppc = "idle"
    /\ ppc' = IF fd_open THEN "close" ELSE "closed"
    /\ UNCHANGED <<shared, threads, asleep, file, producer_reserved_pos, size, fd_open,
                   producer_reserved_write_pos, producer_reserved_upto_pos, error, buffer>>

(* Mutant: close does not hand the last bytes to the threads. *)
CloseFlush_Skips ==
    /\ ppc = "close"
    /\ ppc' = "closing"
    /\ UNCHANGED <<shared, threads, asleep, file, producer_reserved_pos, size, fd_open,
                   producer_reserved_write_pos, producer_reserved_upto_pos, error, buffer>>

CloseFlush == ppc = "close" /\ UpdateReservation(FALSE, "closing")

SetClosing ==
    /\ ppc = "closing"
    /\ closing' = TRUE
    /\ asleep' = {}
    /\ ppc' = "join"
    /\ UNCHANGED <<thread_pos, next_thread_pos, next_thread_end_pos, write_error,
                   threads, file, producer_reserved_pos, producer_reserved_write_pos,
                   producer_reserved_upto_pos, error, buffer, size, fd_open>>

(* The threads are joined; fsync, if asked for, may fail. *)
Join ==
    /\ ppc = "join"
    /\ \A t \in Thread : tpc[t] = "done"
    /\ error' \in {error \/ write_error} \cup (IF MayFail THEN {TRUE} ELSE {})
    /\ fd_open' = FALSE
    /\ ppc' = "closed"
    /\ UNCHANGED <<shared, threads, asleep, file, producer_reserved_pos, size,
                   producer_reserved_write_pos, producer_reserved_upto_pos, buffer>>

ProducerStep ==
    \/ Copy \/ NeedReservation \/ Reserve \/ ReserveAgain \/ EndWrite \/ Flush
    \/ CloseFlush \/ SetClosing \/ Join

-----------------------------------------------------------------------------
(* The compressor threads *)

Awake(t, state) == tpc[t] = state /\ t \notin asleep

HasBlock ==
    /\ ~write_error
    /\ next_thread_pos < next_thread_end_pos
    /\ closing \/ next_thread_pos + BlockSize <= next_thread_end_pos

BlockEnd == SmallerOf(next_thread_end_pos, next_thread_pos + BlockSize)

Dispatch(t) ==
    /\ Awake(t, "ready")
    /\ HasBlock
    /\ thread_pos' = [thread_pos EXCEPT ![t] = next_thread_pos]
    /\ length' = [length EXCEPT ![t] = BlockEnd - next_thread_pos]
    /\ next_thread_pos' = BlockEnd
    /\ outputbuf' = [outputbuf EXCEPT ![t] = <<>>]
    /\ tpc' = [tpc EXCEPT ![t] = "compress"]
    /\ UNCHANGED <<next_thread_end_pos, closing, write_error, producer, asleep, file>>

NothingLeft == closing /\ (write_error \/ next_thread_pos = next_thread_end_pos)

LeaveLoop(t) ==
    /\ Awake(t, "ready")
    /\ ~HasBlock
    /\ NothingLeft
    /\ tpc' = [tpc EXCEPT ![t] = "done"]
    /\ UNCHANGED <<shared, producer, length, outputbuf, asleep, file>>

AwaitBlock(t) ==
    /\ Awake(t, "ready")
    /\ ~HasBlock
    /\ ~NothingLeft
    /\ asleep' = asleep \cup {t}
    /\ UNCHANGED <<shared, producer, threads, file>>

(***************************************************************************)
(* One iteration of the loop of do_compress, without the mutex: the        *)
(* encoder consumes some of the bytes up to the end of the block or of the *)
(* buffer.                                                                 *)
(***************************************************************************)
Compress(t) ==
    LET done   == Len(outputbuf[t])
        offset == (thread_pos[t] + done) % BufferLen
    IN
    /\ tpc[t] = "compress"
    /\ \E consumed \in 1..SmallerOf(length[t] - done, BufferLen - offset) :
          outputbuf' = [outputbuf EXCEPT ![t] =
                           @ \o [i \in 1..consumed |-> buffer[offset + i - 1]]]
    /\ UNCHANGED <<shared, producer, tpc, length, asleep, file>>

(***************************************************************************)
(* other_thread_write_first.  Mutant: nobody waits for an earlier block.   *)
(***************************************************************************)
OtherThreadWritesFirst_Never(t) == FALSE

OtherThreadWritesFirst(t) ==
    \E u \in Thread : thread_pos[u] # Idle /\ thread_pos[u] < thread_pos[t]

(* Mutant: the waiting threads are not told. *)
Finish_NoNotify(t) ==
    /\ thread_pos' = [thread_pos EXCEPT ![t] = Idle]
    /\ tpc' = [tpc EXCEPT ![t] = "ready"]
    /\ UNCHANGED asleep

(* The end of a block, with notify_all. *)
Finish(t) ==
    /\ thread_pos' = [thread_pos EXCEPT ![t] = Idle]
    /\ tpc' = [tpc EXCEPT ![t] = "ready"]
    /\ asleep' = {}

(* The wait for t's turn, with the mutex held. *)
TakeTurn(t, failed) ==
    IF failed
    THEN Finish(t)
    ELSE /\ IF OtherThreadWritesFirst(t)
            THEN asleep' = asleep \cup {t} /\ tpc' = [tpc EXCEPT ![t] = "order"]
            ELSE tpc' = [tpc EXCEPT ![t] = "write"] /\ UNCHANGED asleep
         /\ UNCHANGED thread_pos

Compressed(t) ==
    /\ tpc[t] = "compress"
    /\ Len(outputbuf[t]) = length[t]
    /\ write_error' \in IF MayFail THEN {write_error, TRUE} ELSE {write_error}
    /\ TakeTurn(t, write_error')
    /\ UNCHANGED <<next_thread_pos, next_thread_end_pos, closing, producer, length,
                   outputbuf, file>>

AwaitTurn(t) ==
    /\ Awake(t, "order")
    /\ TakeTurn(t, write_error)
    /\ UNCHANGED <<next_thread_pos, next_thread_end_pos, closing, write_error, producer,
                   length, outputbuf, file>>

(***************************************************************************)
(* One write of write_all, which may be partial.  A failing write ends the *)
(* process, which leaves the file as it is.                                *)
(***************************************************************************)
WriteSome(t) ==
    /\ tpc[t] = "write"
    /\ \E nwritten \in 1..Len(outputbuf[t]) :
          /\ file' = file \o SubSeq(outputbuf[t], 1, nwritten)
          /\ outputbuf' = [outputbuf EXCEPT ![t] = SubSeq(@, nwritten + 1, Len(@))]
    /\ UNCHANGED <<shared, producer, tpc, length, asleep>>

Written(t) ==
    /\ tpc[t] = "write"
    /\ outputbuf[t] = <<>>
    /\ Finish(t)
    /\ UNCHANGED <<next_thread_pos, next_thread_end_pos, closing, write_error, producer,
                   length, outputbuf, file>>

ThreadStep(t) ==
    \/ Dispatch(t) \/ LeaveLoop(t) \/ AwaitBlock(t) \/ Compress(t) \/ Compressed(t)
    \/ AwaitTurn(t) \/ WriteSome(t) \/ Written(t)

-----------------------------------------------------------------------------
(* A condition variable may wake a thread for no reason. *)
SpuriousWakeup ==
    /\ \E t \in asleep : asleep' = asleep \ {t}
    /\ UNCHANGED <<shared, producer, threads, file>>

Closed == ppc = "closed" /\ UNCHANGED vars

Next ==
    \/ \E n \in Sizes : Write(n)
    \/ BeginClose
    \/ ProducerStep
    \/ \E t \in Thread : ThreadStep(t)
    \/ SpuriousWakeup
    \/ Closed

Spec == Init /\ [][Next]_vars

(* Every thread is scheduled; the user need not call write or close. *)
FairSpec ==
    /\ Spec
    /\ WF_vars(ProducerStep)
    /\ \A t \in Thread : WF_vars(ThreadStep(t))

-----------------------------------------------------------------------------
(***************************************************************************)
(* The file is a prefix of the stream in every state, so also if the       *)
(* process dies there, whatever the order in which the threads finish      *)
(* compressing and whichever of them fails: no block is early, missing in  *)
(* the middle, mixed with another thread's, or made of bytes the producer  *)
(* has overwritten (compressed_writer.rs:192-243).                         *)
(***************************************************************************)
FileIsPrefix == \A i \in 1..Len(file) : file[i] = i - 1

(***************************************************************************)
(* The space the producer may fill never reaches a byte that a thread      *)
(* still has to read, or that no thread has taken yet, one lap behind; and *)
(* the reservation it computes by an unsigned subtraction is not negative  *)
(* (compressed_writer.rs:318-326, 343-352).                                *)
(***************************************************************************)
BufferNotLapped ==
    /\ producer_reserved_write_pos <= producer_reserved_upto_pos
    /\ \A p \in Pending : producer_reserved_upto_pos <= p + BufferLen
    /\ \A t \in Thread : tpc[t] = "compress" =>
          \A p \in thread_pos[t]..(thread_pos[t] + length[t] - 1) :
             buffer[p % BufferLen] = p

(* What ByteLog sees. *)
LogState ==
    CASE ppc = "closed" /\ error  -> "closed_failed"
      [] ppc = "closed" /\ ~error -> "closed"
      [] (error \/ write_error) /\ ppc # "closed" -> "failed"
      [] OTHER -> "open"

Log == INSTANCE ByteLog WITH
          accepted <- producer_reserved_write_pos,
          filed    <- Len(file),
          state    <- LogState

(***************************************************************************)
(* The writer keeps the promise of ByteLog: a close without error leaves   *)
(* all accepted bytes in the file (compressed_writer.rs:269-302).          *)
(***************************************************************************)
ImplementsLog == Log!LogSpec

(***************************************************************************)
(* A write or a close that has begun returns, although the producer sleeps *)
(* until a thread has written and the threads until it is their turn: no   *)
(* notify_all is missing (compressed_writer.rs:232, 249, 259, 310, 333).   *)
(***************************************************************************)
CallsReturn ==
    /\ ppc = "write" ~> ppc = "idle"
    /\ ppc = "close" ~> ppc = "closed"

=============================================================================
