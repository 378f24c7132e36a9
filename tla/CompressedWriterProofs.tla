------------------------ MODULE CompressedWriterProofs ------------------------
(***************************************************************************)
(* The compressed writer is correct for every number of threads, every     *)
(* block size and every sequence of writes: its file is a prefix of the    *)
(* stream, its ring is not lapped, and it implements ByteLog.              *)
(*                                                                         *)
(* None of these is inductive.  The file is extended from outputbuf, which *)
(* was read from the ring, which the producer refills: the invariant       *)
(* follows the bytes along that way.  It says which positions lie where    *)
(* (Positions, Ring, Outputs), that the blocks being compressed are        *)
(* disjoint and, unless a thread has failed, tile the gap between the file *)
(* and next_thread_pos (Blocks, Tiling), and what the end of the threads   *)
(* and the stages of close imply for each other (Closing).                 *)
(***************************************************************************)
EXTENDS CompressedWriter, FiniteSetTheorems, TLAPS

(* t has a block, from thread_pos[t] up to BlockStop(t). *)
Active(t) == thread_pos[t] # Idle
BlockStop(t) == thread_pos[t] + length[t]

Positions ==
    /\ Len(file) <= next_thread_pos
    /\ next_thread_pos <= next_thread_end_pos
    /\ next_thread_end_pos = producer_reserved_pos
    /\ producer_reserved_pos <= producer_reserved_write_pos
    /\ producer_reserved_write_pos <= producer_reserved_upto_pos
    /\ producer_reserved_upto_pos <= next_thread_pos + BufferLen
    /\ \A t \in Thread :
          Active(t) => producer_reserved_upto_pos <= thread_pos[t] + BufferLen

Blocks ==
    /\ \A t \in Thread : Active(t) <=> tpc[t] \in {"compress", "order", "write"}
    /\ \A t \in Thread : Active(t) => length[t] > 0 /\ BlockStop(t) <= next_thread_pos
    /\ \A t, u \in Thread : t # u /\ Active(t) /\ Active(u) =>
          BlockStop(t) <= thread_pos[u] \/ BlockStop(u) <= thread_pos[t]

Ring ==
    /\ \A p \in next_thread_pos..(producer_reserved_write_pos - 1) :
          buffer[p % BufferLen] = p
    /\ \A t \in Thread : tpc[t] = "compress" =>
          \A p \in thread_pos[t]..(BlockStop(t) - 1) : buffer[p % BufferLen] = p

(* What t has compressed and not yet written are the bytes from start on. *)
Holds(t, start) == \A i \in 1..Len(outputbuf[t]) : outputbuf[t][i] = start + i - 1

Outputs ==
    \A t \in Thread :
       /\ tpc[t] = "compress" => Len(outputbuf[t]) <= length[t]
       /\ tpc[t] = "order" => Len(outputbuf[t]) = length[t]
       /\ tpc[t] \in {"compress", "order"} => Holds(t, thread_pos[t])
       /\ tpc[t] = "write" =>
             /\ Holds(t, Len(file))
             /\ thread_pos[t] <= Len(file)
             /\ Len(file) + Len(outputbuf[t]) = BlockStop(t)
             /\ \A u \in Thread : Active(u) => thread_pos[t] <= thread_pos[u]

Tiling ==
    /\ \A t \in Thread : Active(t) /\ tpc[t] # "write" => Len(file) <= thread_pos[t]
    /\ ~write_error => \A p \in Len(file)..(next_thread_pos - 1) :
          \E t \in Thread : Active(t) /\ thread_pos[t] <= p /\ p < BlockStop(t)

Closing ==
    /\ ~fd_open => (error \/ ppc = "closed") /\ \A t \in Thread : tpc[t] = "done"
    /\ ppc \in {"close", "closing", "join"} => fd_open
    /\ ppc = "closed" => ~fd_open
    /\ ppc \in {"closing", "join"} => next_thread_end_pos = producer_reserved_write_pos
    /\ closing => ppc \in {"join", "closed"}
    /\ fd_open /\ ~write_error => \A t \in Thread :
          tpc[t] = "done" => closing /\ next_thread_pos = next_thread_end_pos

WriterInv ==
    TypeOK /\ Positions /\ Blocks /\ Ring /\ Outputs /\ Tiling /\ Closing /\ FileIsPrefix

-----------------------------------------------------------------------------
(* Arithmetic of the ring. *)

(* The ring is not empty. *)
LEMMA BufferLenPositive == BufferLen \in Nat \ {0}
<1> DEFINE n == Cardinality(Thread)
<1>1. n \in Nat
  BY ThreadAssumption, FS_CardinalityType
<1> HIDE DEF n
<1>2. BlockSize * (n + 2) \in Nat \ {0}
  BY <1>1, BlockSizeAssumption
<1> QED BY <1>2 DEF BufferLen, n

(* A position taken modulo the ring size is an index of the ring. *)
LEMMA ModRange ==
  ASSUME NEW L \in Nat \ {0}, NEW a \in Int
  PROVE  /\ a % L \in 0..(L - 1)
         /\ a \div L \in Int
         /\ a = L * (a \div L) + (a % L)
OBVIOUS

(* Quotient and remainder are determined by the division equation. *)
LEMMA DivUnique ==
  ASSUME NEW L \in Nat \ {0}, NEW q \in Int, NEW r \in 0..(L - 1),
         NEW s \in Int, NEW v \in 0..(L - 1), L * q + r = L * s + v
  PROVE  q = s /\ r = v
<1>1. L * (q - s) = v - r
  OBVIOUS
<1>2. CASE q - s >= 1
  <2>1. L * (q - s) >= L
    BY <1>2
  <2> QED BY <1>1, <2>1
<1>3. CASE q - s <= -1
  <2>1. L * (s - q) >= L
    BY <1>3
  <2>2. L * (s - q) = r - v
    OBVIOUS
  <2> QED BY <2>1, <2>2
<1> QED BY <1>2, <1>3

(* Positions that do not cross the end of the ring map to consecutive indices. *)
LEMMA ModShift ==
  ASSUME NEW L \in Nat \ {0}, NEW a \in Int, NEW k \in Nat, (a % L) + k < L
  PROVE  (a + k) % L = (a % L) + k
<1>1. a + k = L * (a \div L) + ((a % L) + k) /\ (a % L) + k \in 0..(L - 1) /\ a \div L \in Int
  BY ModRange
<1>2. a + k = L * ((a + k) \div L) + ((a + k) % L) /\ (a + k) % L \in 0..(L - 1) /\ (a + k) \div L \in Int
  BY ModRange
<1> HIDE DEF ModRange
<1> QED BY <1>1, <1>2, DivUnique

(* Positions less than one ring size apart map to different indices. *)
LEMMA ModApart ==
  ASSUME NEW L \in Nat \ {0}, NEW a \in Int, NEW b \in Int, a < b, b < a + L
  PROVE  a % L # b % L
<1>1. a = L * (a \div L) + (a % L) /\ a % L \in 0..(L - 1) /\ a \div L \in Int
  BY ModRange
<1>2. b = L * (b \div L) + (b % L) /\ b % L \in 0..(L - 1) /\ b \div L \in Int
  BY ModRange
<1>3. ASSUME a % L = b % L PROVE FALSE
  <2> DEFINE d == b \div L - a \div L
  <2>1. b - a = L * d /\ d \in Int
    BY <1>1, <1>2, <1>3
  <2> HIDE DEF d
  <2>2. CASE d >= 1
    <3>1. L * d >= L
      BY <2>1, <2>2
    <3> QED BY <2>1, <3>1
  <2>3. CASE d <= 0
    <3>1. L * d <= 0
      BY <2>1, <2>3
    <3> QED BY <2>1, <3>1
  <2> QED BY <2>1, <2>2, <2>3
<1> QED BY <1>3

-----------------------------------------------------------------------------
(* The pieces of the actions. *)

(***************************************************************************)
(* The loop of update_reservation keeps the reservation behind every byte  *)
(* that is still needed.                                                   *)
(***************************************************************************)
LEMMA ReservationSafe ==
  ASSUME TypeOK, Positions, NEW wait, NEW after, NEW sleepers,
         ReservationLoop(wait, after, sleepers)
  PROVE  /\ producer_reserved_upto_pos' \in Nat
         /\ producer_reserved_write_pos <= producer_reserved_upto_pos'
         /\ producer_reserved_upto_pos' <= next_thread_pos + BufferLen
         /\ \A t \in Thread : Active(t) =>
               producer_reserved_upto_pos' <= thread_pos[t] + BufferLen
         /\ error' \in BOOLEAN
         /\ error => error'
         /\ error' => error \/ write_error
         /\ ppc' \in {after, "waiting"}
         /\ ~wait => ppc' = after
<1>0. BufferLen \in Nat
  BY BufferLenPositive
<1>1. CASE error \/ write_error
  BY ZenonT(60), <1>1 DEF ReservationLoop, TypeOK, Positions
<1>2. CASE ~error /\ ~write_error
  <2>1. PICK c \in Pending : IsCompletedPos(c) /\ producer_reserved_upto_pos' = c + BufferLen
    BY <1>2 DEF ReservationLoop
  <2>2. /\ c \in Nat
        /\ c <= next_thread_pos
        /\ \A t \in Thread : Active(t) => c <= thread_pos[t]
        /\ c = next_thread_pos \/ \E t \in Thread : Active(t) /\ c = thread_pos[t]
    <3>1. /\ next_thread_pos \in Nat /\ next_thread_pos \in Pending
          /\ \A t \in Thread : Active(t) => thread_pos[t] \in Nat /\ thread_pos[t] \in Pending
      BY DEF Pending, TypeOK, Active
    <3>2. \A p \in Pending : c <= p
      BY <2>1 DEF IsCompletedPos
    <3>3. c = next_thread_pos \/ \E t \in Thread : Active(t) /\ c = thread_pos[t]
      BY DEF Pending, Active
    <3> QED BY <3>1, <3>2, <3>3
  <2>3. producer_reserved_upto_pos <= c + BufferLen
    BY <2>2 DEF Positions
  <2>4. producer_reserved_write_pos <= c + BufferLen
    BY <2>2, <2>3, <1>0 DEF Positions, TypeOK
  <2>5. \A t \in Thread : Active(t) => thread_pos[t] \in Nat
    BY DEF TypeOK, Active, Idle
  <2> QED BY <1>0, <1>2, <2>1, <2>2, <2>4, <2>5 DEF TypeOK, ReservationLoop
<1> QED BY <1>1, <1>2

(* One iteration of write copies at least a byte, within what is reserved. *)
LEMMA CopyAmount ==
  ASSUME TypeOK, Positions, Copy
  PROVE  \E amount \in Nat \ {0} :
            /\ amount <= size
            /\ amount <= producer_reserved_upto_pos - producer_reserved_write_pos
            /\ (producer_reserved_write_pos % BufferLen) + amount <= BufferLen
            /\ producer_reserved_write_pos' = producer_reserved_write_pos + amount
            /\ size' = size - amount
            /\ buffer' = [i \in 0..(BufferLen - 1) |->
                  IF /\ producer_reserved_write_pos % BufferLen <= i
                     /\ i < (producer_reserved_write_pos % BufferLen) + amount
                  THEN producer_reserved_write_pos
                          + (i - (producer_reserved_write_pos % BufferLen))
                  ELSE buffer[i]]
<1> DEFINE offset == producer_reserved_write_pos % BufferLen
           amount == SmallerOf(BufferLen - offset, SmallerOf(Reservation, size))
<1>1. BufferLen \in Nat /\ BufferLen > 0 /\ offset \in 0..(BufferLen - 1)
  BY BufferLenPositive, ModRange DEF TypeOK
<1>2. size \in Nat /\ size > 0 /\ Reservation \in Nat /\ Reservation > 0
  BY DEF Copy, TypeOK, Positions, Reservation
<1>3. /\ amount \in Nat \ {0} /\ amount <= size /\ amount <= Reservation
      /\ offset + amount <= BufferLen
  BY <1>1, <1>2 DEF SmallerOf
<1>4. /\ producer_reserved_write_pos' = producer_reserved_write_pos + amount
      /\ size' = size - amount
      /\ buffer' = [i \in 0..(BufferLen - 1) |->
            IF offset <= i /\ i < offset + amount
            THEN producer_reserved_write_pos + (i - offset) ELSE buffer[i]]
  BY DEF Copy
<1> HIDE DEF amount
<1> QED BY <1>3, <1>4 DEF Reservation

(* A thread takes a block that is not empty and not longer than BlockSize. *)
LEMMA BlockTaken ==
  ASSUME TypeOK, Positions, HasBlock
  PROVE  /\ BlockEnd \in Nat
         /\ next_thread_pos < BlockEnd
         /\ BlockEnd <= next_thread_end_pos
         /\ BlockEnd - next_thread_pos \in 1..BlockSize
BY BlockSizeAssumption DEF BlockEnd, SmallerOf, HasBlock, TypeOK, Positions

-----------------------------------------------------------------------------
(* The invariant holds initially, and each of its parts after every step. *)

(* The invariant holds of a new CompressedWriter. *)
LEMMA InitWriter == Init => WriterInv
<1> SUFFICES ASSUME Init PROVE WriterInv
  OBVIOUS
<1>0. BufferLen \in Nat
  BY BufferLenPositive
<1>1. TypeOK
  <2>1. fd_open \in BOOLEAN /\ error \in BOOLEAN
    BY Zenon DEF Init
  <2>2. tpc \in [Thread -> ThreadStates] /\ length \in [Thread -> 0..BlockSize]
    BY BlockSizeAssumption DEF Init, ThreadStates
  <2>3. thread_pos \in [Thread -> Nat \cup {Idle}] /\ outputbuf \in [Thread -> Seq(Nat \cup {Idle})]
    BY DEF Init
  <2>4. /\ closing \in BOOLEAN /\ write_error \in BOOLEAN /\ asleep \subseteq Thread \cup {Producer}
        /\ ppc \in {"idle", "write", "reserve", "waiting", "flush", "close",
                    "closing", "join", "closed"}
    BY Zenon DEF Init
  <2>5. /\ buffer \in [0..(BufferLen - 1) -> Nat \cup {Idle}]
        /\ file \in Seq(Nat \cup {Idle})
        /\ next_thread_pos \in Nat /\ next_thread_end_pos \in Nat
        /\ producer_reserved_pos \in Nat /\ producer_reserved_write_pos \in Nat
        /\ producer_reserved_upto_pos \in Nat /\ size \in Nat
    BY DEF Init
  <2> QED BY Zenon, <2>1, <2>2, <2>3, <2>4, <2>5 DEF TypeOK
<1>2. Positions /\ Blocks /\ Ring /\ Outputs /\ Tiling /\ FileIsPrefix
  BY <1>0 DEF Init, Positions, Blocks, Ring, Outputs, Tiling, FileIsPrefix, Active, Holds
<1>3. Closing
  BY ZenonT(60) DEF Init, Closing
<1> QED BY <1>1, <1>2, <1>3 DEF WriterInv

(* Every step is well typed. *)
LEMMA TypeStep == TypeOK /\ Positions /\ [Next]_vars => TypeOK'
<1> SUFFICES ASSUME TypeOK, Positions, [Next]_vars PROVE TypeOK'
  OBVIOUS
<1> USE DEF TypeOK, ThreadStates
<1>1. ASSUME NEW n \in Sizes, Write(n) PROVE TypeOK'
  BY <1>1, SizesAssumption DEF Write, shared, threads
<1>2. CASE BeginClose \/ NeedReservation \/ EndWrite \/ SetClosing \/ Join
  <2>1. CASE Join
    BY Zenon, <2>1 DEF Join, shared, threads
  <2>2. CASE BeginClose \/ NeedReservation \/ SetClosing
    BY ZenonT(60), <2>2 DEF BeginClose, NeedReservation, SetClosing, shared, threads
  <2>3. CASE EndWrite
    <3>1. ppc' \in {"flush", "idle"} /\ size' = 0
      BY Zenon, <2>3 DEF EndWrite
    <3> QED BY <2>3, <3>1 DEF EndWrite, shared, threads
  <2> QED BY <1>2, <2>1, <2>2, <2>3
<1>3. CASE Copy
  <2>1. PICK amount \in Nat \ {0} :
          /\ amount <= size
          /\ producer_reserved_write_pos' = producer_reserved_write_pos + amount
          /\ size' = size - amount
    BY <1>3, CopyAmount
  <2>2. buffer' \in [0..(BufferLen - 1) -> Nat \cup {Idle}]
    <3>1. /\ BufferLen \in Nat /\ BufferLen > 0
          /\ producer_reserved_write_pos % BufferLen \in 0..(BufferLen - 1)
      BY BufferLenPositive, ModRange
    <3> QED BY <1>3, <3>1 DEF Copy
  <2> QED BY <1>3, <2>1, <2>2 DEF Copy, shared, threads
<1>4. ASSUME NEW wait \in BOOLEAN, NEW after \in {"write", "idle", "closing"},
             UpdateReservation(wait, after)
      PROVE  TypeOK'
  <2>1. /\ producer_reserved_upto_pos' \in Nat /\ error' \in BOOLEAN
        /\ ppc' \in {after, "waiting"}
    BY <1>4, ReservationSafe DEF UpdateReservation
  <2>2. asleep' \subseteq Thread \cup {Producer}
    BY <1>4 DEF UpdateReservation, ReservationLoop
  <2> QED BY <1>4, <2>1, <2>2 DEF UpdateReservation, threads
<1>5. CASE ReserveAgain
  <2>1. /\ producer_reserved_upto_pos' \in Nat /\ error' \in BOOLEAN
        /\ ppc' \in {"write", "waiting"}
    BY ZenonT(60), <1>5, ReservationSafe DEF ReserveAgain
  <2>2. asleep' \subseteq Thread \cup {Producer}
    BY <1>5 DEF ReserveAgain, ReservationLoop
  <2> QED BY <1>5, <2>1, <2>2 DEF ReserveAgain, shared, threads
<1>6. ASSUME NEW t \in Thread, Dispatch(t) PROVE TypeOK'
  <2>1. BlockEnd \in Nat /\ BlockEnd - next_thread_pos \in 0..BlockSize
    BY <1>6, BlockTaken DEF Dispatch
  <2> QED BY <1>6, <2>1 DEF Dispatch, producer
<1>7. ASSUME NEW t \in Thread, LeaveLoop(t) \/ AwaitBlock(t) PROVE TypeOK'
  BY ZenonT(60), <1>7 DEF LeaveLoop, AwaitBlock, shared, producer, threads
<1>8. ASSUME NEW t \in Thread, Compress(t) PROVE TypeOK'
  <2> DEFINE done == Len(outputbuf[t])
             offset == (thread_pos[t] + done) % BufferLen
  <2>1. BufferLen \in Nat /\ BufferLen > 0 /\ offset \in 0..(BufferLen - 1)
    <3>1. done \in Nat /\ thread_pos[t] \in Int
      BY DEF Idle
    <3> HIDE DEF done, TypeOK
    <3>2. thread_pos[t] + done \in Int
      BY <3>1
    <3> QED BY <3>2, BufferLenPositive, ModRange
  <2>2. PICK consumed \in 1..SmallerOf(length[t] - done, BufferLen - offset) :
           outputbuf' = [outputbuf EXCEPT ![t] =
                            @ \o [i \in 1..consumed |-> buffer[offset + i - 1]]]
    BY ZenonT(60), <1>8 DEF Compress
  <2> HIDE DEF offset
  <2>3. consumed \in Nat /\ consumed <= BufferLen - offset
    <3>1. length[t] - done \in Int /\ BufferLen - offset \in Int
      BY <2>1
    <3> QED BY <3>1 DEF SmallerOf
  <2>4. \A i \in 1..consumed : buffer[offset + i - 1] \in Nat \cup {Idle}
    BY <2>1, <2>3
  <2>5. [i \in 1..consumed |-> buffer[offset + i - 1]] \in Seq(Nat \cup {Idle})
    BY <2>3, <2>4
  <2>6. outputbuf' \in [Thread -> Seq(Nat \cup {Idle})]
    BY <2>2, <2>5
  <2> QED BY <1>8, <2>6 DEF Compress, shared, producer
<1>9. ASSUME NEW t \in Thread, Compressed(t) \/ AwaitTurn(t) \/ Written(t) PROVE TypeOK'
  BY ZenonT(60), <1>9 DEF Compressed, AwaitTurn, Written, TakeTurn, Finish, producer
<1>10. ASSUME NEW t \in Thread, WriteSome(t) PROVE TypeOK'
  <2>1. PICK nwritten \in 1..Len(outputbuf[t]) :
          /\ file' = file \o SubSeq(outputbuf[t], 1, nwritten)
          /\ outputbuf' = [outputbuf EXCEPT ![t] = SubSeq(@, nwritten + 1, Len(@))]
    BY ZenonT(60), <1>10 DEF WriteSome
  <2>2. file' \in Seq(Nat \cup {Idle}) /\ outputbuf' \in [Thread -> Seq(Nat \cup {Idle})]
    <3> DEFINE S == Nat \cup {Idle}
    <3>1. /\ file \in Seq(S) /\ outputbuf[t] \in Seq(S) /\ nwritten \in 1..Len(outputbuf[t])
          /\ outputbuf \in [Thread -> Seq(S)]
      BY <2>1
    <3> HIDE DEF S, TypeOK
    <3>2. /\ SubSeq(outputbuf[t], 1, nwritten) \in Seq(S)
          /\ SubSeq(outputbuf[t], nwritten + 1, Len(outputbuf[t])) \in Seq(S)
      BY <3>1
    <3>3. file' \in Seq(S)
      BY <2>1, <3>1, <3>2
    <3>4. outputbuf' \in [Thread -> Seq(S)]
      BY Zenon, <2>1, <3>1, <3>2
    <3> QED BY <3>3, <3>4 DEF S
  <2> QED BY <1>10, <2>2 DEF WriteSome, shared, producer
<1>11. CASE SpuriousWakeup
  BY <1>11 DEF SpuriousWakeup, shared, producer, threads
<1>12. CASE UNCHANGED vars
  BY <1>12 DEF vars, shared, producer, threads
<1> QED BY ZenonT(60), <1>1, <1>2, <1>3, <1>4, <1>5, <1>6, <1>7, <1>8, <1>9, <1>10, <1>11, <1>12
        DEF Next, ProducerStep, ThreadStep, Reserve, Flush, CloseFlush, Closed

-----------------------------------------------------------------------------
(* What the steps of a thread do to its block. *)

(* The end of compression, or of a wait: the thread gives up, waits or writes. *)
LEMMA TurnTaken ==
  ASSUME TypeOK, Outputs, NEW t \in Thread, Compressed(t) \/ AwaitTurn(t)
  PROVE  /\ tpc[t] \in {"compress", "order"}
         /\ Len(outputbuf[t]) = length[t]
         /\ write_error => write_error'
         /\ UNCHANGED <<next_thread_pos, next_thread_end_pos, closing, producer, length,
                        outputbuf, file>>
         /\ \/ /\ thread_pos' = [thread_pos EXCEPT ![t] = Idle]
               /\ tpc' = [tpc EXCEPT ![t] = "ready"]
               /\ write_error'
            \/ /\ thread_pos' = thread_pos
               /\ tpc' = [tpc EXCEPT ![t] = "order"]
               /\ ~write_error'
            \/ /\ thread_pos' = thread_pos
               /\ tpc' = [tpc EXCEPT ![t] = "write"]
               /\ ~write_error'
               /\ ~OtherThreadWritesFirst(t)
<1>1. CASE Compressed(t)
  <2>1. tpc[t] = "compress" /\ Len(outputbuf[t]) = length[t] /\ TakeTurn(t, write_error')
    BY Zenon, <1>1 DEF Compressed
  <2>2. write_error => write_error'
    BY Zenon, <1>1 DEF Compressed
  <2>3. UNCHANGED <<next_thread_pos, next_thread_end_pos, closing, producer, length,
                    outputbuf, file>>
    BY Zenon, <1>1 DEF Compressed
  <2> QED BY Zenon, <2>1, <2>2, <2>3 DEF TakeTurn, Finish
<1>2. CASE AwaitTurn(t)
  <2>1. tpc[t] = "order" /\ TakeTurn(t, write_error) /\ write_error' = write_error
    BY Zenon, <1>2 DEF AwaitTurn, Awake
  <2>2. Len(outputbuf[t]) = length[t]
    BY <2>1 DEF Outputs
  <2>3. UNCHANGED <<next_thread_pos, next_thread_end_pos, closing, producer, length,
                    outputbuf, file>>
    BY Zenon, <1>2 DEF AwaitTurn
  <2> QED BY Zenon, <2>1, <2>2, <2>3 DEF TakeTurn, Finish
<1> QED BY <1>1, <1>2

(* n elements move from the front of one sequence to the end of another. *)
LEMMA FrontMoved ==
  ASSUME NEW S, NEW f \in Seq(S), NEW o \in Seq(S), NEW n \in 1..Len(o)
  PROVE  /\ Len(f \o SubSeq(o, 1, n)) = Len(f) + n
         /\ \A i \in 1..Len(f) : (f \o SubSeq(o, 1, n))[i] = f[i]
         /\ \A i \in 1..n : (f \o SubSeq(o, 1, n))[Len(f) + i] = o[i]
         /\ Len(SubSeq(o, n + 1, Len(o))) = Len(o) - n
         /\ Len(o) - n \in Nat
         /\ \A i \in 1..(Len(o) - n) : SubSeq(o, n + 1, Len(o))[i] = o[i + n]
<1>1. Len(o) \in Nat /\ Len(f) \in Nat /\ n \in Nat
  OBVIOUS
<1>2. /\ Len(SubSeq(o, n + 1, Len(o))) = Len(o) - n
      /\ \A i \in 1..(Len(o) - n) : SubSeq(o, n + 1, Len(o))[i] = o[i + n]
  OBVIOUS
<1> DEFINE s == SubSeq(o, 1, n)
<1>3. s \in Seq(S) /\ Len(s) = n /\ \A i \in 1..n : s[i] = o[i]
  OBVIOUS
<1> HIDE DEF s
<1>4. /\ Len(f \o s) = Len(f) + n
      /\ \A i \in 1..Len(f) : (f \o s)[i] = f[i]
      /\ \A i \in 1..n : (f \o s)[Len(f) + i] = s[i]
  BY <1>1, <1>3
<1> QED BY <1>1, <1>2, <1>3, <1>4 DEF s

(* A write moves bytes from the front of outputbuf to the end of the file. *)
LEMMA FileExtended ==
  ASSUME TypeOK, NEW t \in Thread, WriteSome(t)
  PROVE  /\ tpc[t] = "write"
         /\ UNCHANGED <<shared, producer, tpc, length, asleep>>
         /\ \A u \in Thread \ {t} : outputbuf'[u] = outputbuf[u]
         /\ \E n \in Nat \ {0} :
               /\ Len(file') = Len(file) + n
               /\ \A i \in 1..Len(file) : file'[i] = file[i]
               /\ \A i \in 1..n : file'[Len(file) + i] = outputbuf[t][i]
               /\ Len(outputbuf'[t]) = Len(outputbuf[t]) - n
               /\ Len(outputbuf'[t]) \in Nat
               /\ \A i \in 1..Len(outputbuf'[t]) : outputbuf'[t][i] = outputbuf[t][i + n]
<1> DEFINE o == outputbuf[t]
<1>1. PICK n \in 1..Len(o) :
         /\ file' = file \o SubSeq(o, 1, n)
         /\ outputbuf' = [outputbuf EXCEPT ![t] = SubSeq(@, n + 1, Len(@))]
  BY ZenonT(60) DEF WriteSome
<1>2. /\ o \in Seq(Nat \cup {Idle}) /\ file \in Seq(Nat \cup {Idle})
      /\ outputbuf'[t] = SubSeq(o, n + 1, Len(o))
      /\ \A u \in Thread \ {t} : outputbuf'[u] = outputbuf[u]
  BY <1>1 DEF TypeOK
<1> HIDE DEF o
<1>3. /\ Len(file') = Len(file) + n
      /\ \A i \in 1..Len(file) : file'[i] = file[i]
      /\ \A i \in 1..n : file'[Len(file) + i] = o[i]
      /\ Len(outputbuf'[t]) = Len(o) - n
      /\ Len(o) - n \in Nat
      /\ \A i \in 1..(Len(o) - n) : outputbuf'[t][i] = o[i + n]
  BY <1>1, <1>2, FrontMoved
<1>4. n \in Nat \ {0}
  BY <1>2
<1>5. tpc[t] = "write" /\ UNCHANGED <<shared, producer, tpc, length, asleep>>
  BY DEF WriteSome
<1> QED BY ZenonT(60), <1>2, <1>3, <1>4, <1>5 DEF o

(* The encoder takes bytes of the block from the ring, in order. *)
LEMMA RingRead ==
  ASSUME TypeOK, Positions, Blocks, Ring, Outputs, NEW t \in Thread, Compress(t)
  PROVE  /\ tpc[t] = "compress"
         /\ UNCHANGED <<shared, producer, tpc, length, asleep, file>>
         /\ \A u \in Thread \ {t} : outputbuf'[u] = outputbuf[u]
         /\ Len(outputbuf'[t]) <= length[t]
         /\ \A i \in 1..Len(outputbuf'[t]) : outputbuf'[t][i] = thread_pos[t] + i - 1
<1> DEFINE done == Len(outputbuf[t])
           offset == (thread_pos[t] + done) % BufferLen
<1>0. /\ tpc[t] = "compress" /\ done \in Nat /\ thread_pos[t] \in Nat
      /\ length[t] \in Nat /\ done <= length[t]
      /\ \A i \in 1..done : outputbuf[t][i] = thread_pos[t] + i - 1
  BY DEF Compress, TypeOK, Outputs, Holds, Blocks, Active
<1>1. BufferLen \in Nat \ {0} /\ offset \in 0..(BufferLen - 1) /\ thread_pos[t] + done \in Nat
  BY <1>0, BufferLenPositive, ModRange
<1>2. PICK consumed \in 1..SmallerOf(length[t] - done, BufferLen - offset) :
         outputbuf' = [outputbuf EXCEPT ![t] =
                          @ \o [i \in 1..consumed |-> buffer[offset + i - 1]]]
  BY ZenonT(60) DEF Compress
<1> DEFINE read == [i \in 1..consumed |-> buffer[offset + i - 1]]
<1>3. consumed \in Nat /\ consumed <= length[t] - done /\ consumed <= BufferLen - offset
  <2> HIDE DEF offset, done
  <2>1. length[t] - done \in Int /\ BufferLen - offset \in Int
    BY <1>0, <1>1
  <2> QED BY <2>1 DEF SmallerOf
<1>4. \A i \in 1..consumed : read[i] = thread_pos[t] + done + i - 1
  <2> TAKE i \in 1..consumed
  <2> DEFINE p == thread_pos[t] + done + (i - 1)
  <2> HIDE DEF done
  <2>1. p \in thread_pos[t]..(BlockStop(t) - 1)
    BY <1>0, <1>1, <1>3 DEF BlockStop
  <2>2. p % BufferLen = offset + (i - 1)
    <3> DEFINE a == thread_pos[t] + done
    <3>1. a \in Int /\ i - 1 \in Nat /\ offset = a % BufferLen
      BY <1>1, <1>3
    <3>2. offset + (i - 1) < BufferLen
      <4> HIDE DEF offset
      <4> QED BY <1>1, <1>3
    <3> HIDE DEF a
    <3>3. (a + (i - 1)) % BufferLen = (a % BufferLen) + (i - 1)
      BY ZenonT(60), <1>1, <3>1, <3>2, ModShift
    <3> QED BY <3>1, <3>3 DEF a
  <2>3. buffer[p % BufferLen] = p
    BY ZenonT(60), <1>0, <2>1 DEF Ring
  <2>4. offset + i - 1 = offset + (i - 1)
    BY <1>1
  <2>5. p = thread_pos[t] + done + i - 1
    BY <1>0
  <2> HIDE DEF p, offset
  <2> QED BY <2>2, <2>3, <2>4, <2>5
<1>5. \A i \in 1..consumed : buffer[offset + i - 1] \in Nat \cup {Idle}
  <2>1. \A i \in 1..consumed : offset + i - 1 \in 0..(BufferLen - 1)
    <3> HIDE DEF offset
    <3> QED BY <1>1, <1>3
  <2> HIDE DEF offset
  <2> QED BY <2>1 DEF TypeOK
<1>6. read \in Seq(Nat \cup {Idle}) /\ Len(read) = consumed
  <2> HIDE DEF offset
  <2> QED BY <1>3, <1>5
<1>7. outputbuf[t] \in Seq(Nat \cup {Idle})
  BY DEF TypeOK
<1>8. outputbuf'[t] = outputbuf[t] \o read /\ \A u \in Thread \ {t} : outputbuf'[u] = outputbuf[u]
  BY <1>2 DEF TypeOK
<1> HIDE DEF read
<1>9. /\ Len(outputbuf'[t]) = done + consumed
      /\ \A i \in 1..done : outputbuf'[t][i] = outputbuf[t][i]
      /\ \A i \in 1..consumed : outputbuf'[t][done + i] = read[i]
  BY <1>6, <1>7, <1>8, <1>3
<1>10. Len(outputbuf'[t]) <= length[t]
  BY <1>0, <1>3, <1>9
<1>11. \A i \in 1..Len(outputbuf'[t]) : outputbuf'[t][i] = thread_pos[t] + i - 1
  <2> TAKE i \in 1..Len(outputbuf'[t])
  <2>1. CASE i <= done
    BY <2>1, <1>0, <1>9
  <2>2. CASE i > done
    <3> HIDE DEF done
    <3>1. i - done \in 1..consumed
      BY <2>2, <1>0, <1>3, <1>9
    <3>2. outputbuf'[t][done + (i - done)] = thread_pos[t] + done + (i - done) - 1
      BY <3>1, <1>4, <1>9
    <3>3. done + (i - done) = i /\ thread_pos[t] + done + (i - done) - 1 = thread_pos[t] + i - 1
      BY <1>0, <1>3
    <3> QED BY <3>2, <3>3
  <2> QED BY <2>1, <2>2, <1>0
<1> QED BY ZenonT(60), <1>0, <1>8, <1>10, <1>11 DEF Compress

-----------------------------------------------------------------------------
(* Each part of the invariant is preserved. *)

(* No step disturbs the order of the positions. *)
LEMMA PositionsStep == WriterInv /\ [Next]_vars => Positions'
<1> SUFFICES ASSUME WriterInv, [Next]_vars PROVE Positions'
  OBVIOUS
<1>0. TypeOK /\ Positions /\ Blocks /\ Outputs /\ BufferLen \in Nat
  BY BufferLenPositive DEF WriterInv
<1> USE DEF Positions, Active
<1>1. CASE \/ \E n \in Sizes : Write(n)
           \/ BeginClose \/ NeedReservation \/ EndWrite \/ SetClosing \/ Join
           \/ \E t \in Thread : LeaveLoop(t) \/ AwaitBlock(t) \/ Compress(t)
           \/ SpuriousWakeup \/ UNCHANGED vars
  <2>1. UNCHANGED <<file, next_thread_pos, next_thread_end_pos, producer_reserved_pos,
                    producer_reserved_write_pos, producer_reserved_upto_pos, thread_pos>>
    BY Zenon, <1>1 DEF Write, BeginClose, NeedReservation, EndWrite, SetClosing, Join,
       LeaveLoop, AwaitBlock, Compress, SpuriousWakeup, vars, shared, producer, threads
  <2> QED BY <1>0, <2>1
<1>2. CASE Copy
  <2>1. PICK amount \in Nat :
          /\ amount <= producer_reserved_upto_pos - producer_reserved_write_pos
          /\ producer_reserved_write_pos' = producer_reserved_write_pos + amount
    BY <1>0, <1>2, CopyAmount
  <2>2. UNCHANGED <<file, next_thread_pos, next_thread_end_pos, producer_reserved_pos,
                    producer_reserved_upto_pos, thread_pos>>
    BY <1>2 DEF Copy, shared
  <2> QED BY <1>0, <2>1, <2>2 DEF TypeOK
<1>3. ASSUME NEW wait \in BOOLEAN, NEW after, UpdateReservation(wait, after) PROVE Positions'
  <2>1. /\ next_thread_end_pos' = producer_reserved_write_pos
        /\ producer_reserved_pos' = producer_reserved_write_pos
        /\ ReservationLoop(wait, after, {})
        /\ UNCHANGED <<file, next_thread_pos, producer_reserved_write_pos, thread_pos>>
    BY <1>3 DEF UpdateReservation
  <2>2. /\ producer_reserved_write_pos <= producer_reserved_upto_pos'
        /\ producer_reserved_upto_pos' <= next_thread_pos + BufferLen
        /\ \A t \in Thread : Active(t) =>
              producer_reserved_upto_pos' <= thread_pos[t] + BufferLen
    BY <1>0, <2>1, ReservationSafe
  <2> QED BY <1>0, <2>1, <2>2 DEF TypeOK
<1>4. CASE ReserveAgain
  <2>1. /\ ReservationLoop(TRUE, "write", asleep)
        /\ UNCHANGED <<file, next_thread_pos, next_thread_end_pos, producer_reserved_pos,
                       producer_reserved_write_pos, thread_pos>>
    BY ZenonT(60), <1>4 DEF ReserveAgain, shared
  <2>2. /\ producer_reserved_write_pos <= producer_reserved_upto_pos'
        /\ producer_reserved_upto_pos' <= next_thread_pos + BufferLen
        /\ \A t \in Thread : Active(t) =>
              producer_reserved_upto_pos' <= thread_pos[t] + BufferLen
    BY ZenonT(60), <1>0, <2>1, ReservationSafe
  <2> QED BY <1>0, <2>1, <2>2 DEF TypeOK
<1>5. ASSUME NEW t \in Thread, Dispatch(t) PROVE Positions'
  <2>1. /\ BlockEnd \in Nat /\ next_thread_pos < BlockEnd /\ BlockEnd <= next_thread_end_pos
    BY <1>0, <1>5, BlockTaken DEF Dispatch
  <2>2. /\ thread_pos' = [thread_pos EXCEPT ![t] = next_thread_pos]
        /\ next_thread_pos' = BlockEnd
        /\ UNCHANGED <<file, next_thread_end_pos, producer_reserved_pos,
                       producer_reserved_write_pos, producer_reserved_upto_pos>>
    BY <1>5 DEF Dispatch, producer
  <2> HIDE DEF Positions
  <2>3. /\ Len(file) \in Nat /\ next_thread_pos \in Nat /\ next_thread_end_pos \in Nat
        /\ producer_reserved_upto_pos \in Nat
        /\ \A u \in Thread : thread_pos'[u] = IF u = t THEN next_thread_pos ELSE thread_pos[u]
    BY <1>0, <2>2 DEF TypeOK
  <2> QED BY <1>0, <2>1, <2>2, <2>3 DEF Positions
<1>6. ASSUME NEW t \in Thread, Compressed(t) \/ AwaitTurn(t) \/ Written(t) PROVE Positions'
  <2>1. /\ UNCHANGED <<file, next_thread_pos, next_thread_end_pos, producer_reserved_pos,
                       producer_reserved_write_pos, producer_reserved_upto_pos>>
        /\ thread_pos' = thread_pos \/ thread_pos' = [thread_pos EXCEPT ![t] = Idle]
    BY Zenon, <1>6 DEF Compressed, AwaitTurn, Written, TakeTurn, Finish, producer
  <2> QED BY <1>0, <2>1 DEF TypeOK
<1>7. ASSUME NEW t \in Thread, WriteSome(t) PROVE Positions'
  <2>1. PICK n \in Nat \ {0} :
           /\ Len(file') = Len(file) + n
           /\ Len(outputbuf[t]) - n \in Nat
    BY <1>0, <1>7, FileExtended
  <2>2. /\ tpc[t] = "write"
        /\ UNCHANGED <<next_thread_pos, next_thread_end_pos, producer_reserved_pos,
                       producer_reserved_write_pos, producer_reserved_upto_pos, thread_pos>>
    BY <1>7 DEF WriteSome, shared, producer
  <2>3. /\ Len(file) + Len(outputbuf[t]) = BlockStop(t)
        /\ BlockStop(t) <= next_thread_pos
    BY <1>0, <2>2 DEF Outputs, Blocks
  <2>4. Len(file) \in Nat /\ Len(outputbuf[t]) \in Nat /\ next_thread_pos \in Nat
    BY <1>0 DEF TypeOK
  <2>5. Len(file') <= next_thread_pos
    BY <2>1, <2>3, <2>4
  <2> QED BY <1>0, <2>2, <2>5
<1> QED BY ZenonT(60), <1>1, <1>2, <1>3, <1>4, <1>5, <1>6, <1>7
        DEF Next, ProducerStep, ThreadStep, Reserve, Flush, CloseFlush, Closed

(* No step makes two blocks overlap. *)
LEMMA BlocksStep == WriterInv /\ [Next]_vars => Blocks'
<1> SUFFICES ASSUME WriterInv, [Next]_vars PROVE Blocks'
  OBVIOUS
<1>0. TypeOK /\ Positions /\ Blocks /\ Outputs
  BY DEF WriterInv
<1> USE DEF Active, BlockStop
<1>1. CASE \/ \E n \in Sizes : Write(n)
           \/ BeginClose \/ ProducerStep
           \/ \E t \in Thread : AwaitBlock(t) \/ Compress(t) \/ WriteSome(t)
           \/ SpuriousWakeup \/ UNCHANGED vars
  <2>1. UNCHANGED <<thread_pos, next_thread_pos, tpc, length>>
    BY Zenon, <1>1 DEF Write, BeginClose, ProducerStep, Copy, NeedReservation, Reserve,
       ReserveAgain, EndWrite, Flush, CloseFlush, UpdateReservation, SetClosing, Join,
       AwaitBlock, Compress, WriteSome, SpuriousWakeup, vars, shared, producer, threads
  <2> QED BY Zenon, <1>0, <2>1 DEF Blocks
<1>2. ASSUME NEW t \in Thread, Dispatch(t) PROVE Blocks'
  <2>1. /\ BlockEnd \in Nat /\ next_thread_pos < BlockEnd
    BY <1>0, <1>2, BlockTaken DEF Dispatch
  <2>2. /\ thread_pos' = [thread_pos EXCEPT ![t] = next_thread_pos]
        /\ length' = [length EXCEPT ![t] = BlockEnd - next_thread_pos]
        /\ next_thread_pos' = BlockEnd
        /\ tpc' = [tpc EXCEPT ![t] = "compress"]
    BY <1>2 DEF Dispatch
  <2>3. /\ next_thread_pos \in Nat
        /\ thread_pos'[t] = next_thread_pos
        /\ length'[t] = BlockEnd - next_thread_pos
        /\ tpc'[t] = "compress"
        /\ \A u \in Thread \ {t} :
              thread_pos'[u] = thread_pos[u] /\ length'[u] = length[u] /\ tpc'[u] = tpc[u]
        /\ \A u \in Thread : length[u] \in Nat
        /\ \A u \in Thread : thread_pos[u] \in Nat \/ thread_pos[u] = Idle
    BY <1>0, <2>2 DEF TypeOK
  <2> HIDE DEF BlockEnd
  <2>4. \A u \in Thread : Active(u)' <=> tpc'[u] \in {"compress", "order", "write"}
    BY <1>0, <2>3 DEF Blocks, Idle
  <2>5. \A u \in Thread : Active(u)' => length'[u] > 0 /\ BlockStop(u)' <= next_thread_pos'
    BY <1>0, <2>1, <2>2, <2>3 DEF Blocks
  <2>6. ASSUME NEW u \in Thread, NEW v \in Thread, u # v, Active(u)', Active(v)'
        PROVE  BlockStop(u)' <= thread_pos'[v] \/ BlockStop(v)' <= thread_pos'[u]
    BY <1>0, <2>3, <2>6 DEF Blocks
  <2> QED BY <2>4, <2>5, <2>6 DEF Blocks
<1>3. ASSUME NEW t \in Thread, LeaveLoop(t) PROVE Blocks'
  <2>1. /\ UNCHANGED <<thread_pos, next_thread_pos, length>>
        /\ tpc[t] = "ready" /\ tpc' = [tpc EXCEPT ![t] = "done"]
    BY <1>3 DEF LeaveLoop, Awake, shared
  <2> QED BY <1>0, <2>1 DEF Blocks, TypeOK
<1>4. ASSUME NEW t \in Thread, Compressed(t) \/ AwaitTurn(t) \/ Written(t) PROVE Blocks'
  <2>1. /\ UNCHANGED <<next_thread_pos, length>>
        /\ tpc[t] \in {"compress", "order", "write"}
        /\ \/ /\ thread_pos' = thread_pos
              /\ \E s \in {"order", "write"} : tpc' = [tpc EXCEPT ![t] = s]
           \/ /\ thread_pos' = [thread_pos EXCEPT ![t] = Idle]
              /\ tpc' = [tpc EXCEPT ![t] = "ready"]
    BY Zenon, <1>4 DEF Compressed, AwaitTurn, Written, Awake, TakeTurn, Finish
  <2>2. \A u \in Thread \ {t} : thread_pos'[u] = thread_pos[u] /\ tpc'[u] = tpc[u]
    BY <1>0, <2>1 DEF TypeOK
  <2>3. \/ thread_pos'[t] = thread_pos[t] /\ tpc'[t] \in {"order", "write"}
        \/ thread_pos'[t] = Idle /\ tpc'[t] = "ready"
    BY <1>0, <2>1 DEF TypeOK
  <2> QED BY <1>0, <2>1, <2>2, <2>3 DEF Blocks
<1> QED BY <1>1, <1>2, <1>3, <1>4 DEF Next, ThreadStep, Closed

(* No step overwrites a byte that is not compressed yet. *)
LEMMA RingStep == WriterInv /\ [Next]_vars => Ring'
<1> SUFFICES ASSUME WriterInv, [Next]_vars PROVE Ring'
  OBVIOUS
<1>0. /\ TypeOK /\ Positions /\ Blocks /\ Ring
      /\ BufferLen \in Nat \ {0}
      /\ next_thread_pos \in Nat /\ producer_reserved_write_pos \in Nat
      /\ producer_reserved_upto_pos \in Nat
  BY BufferLenPositive DEF WriterInv, TypeOK
<1> USE DEF BlockStop
<1>1. CASE \/ \E n \in Sizes : Write(n)
           \/ BeginClose \/ NeedReservation \/ Reserve \/ ReserveAgain \/ EndWrite \/ Flush
           \/ CloseFlush \/ SetClosing \/ Join
           \/ \E t \in Thread : AwaitBlock(t) \/ Compress(t) \/ WriteSome(t)
           \/ SpuriousWakeup \/ UNCHANGED vars
  <2>1. UNCHANGED <<thread_pos, next_thread_pos, tpc, length, buffer,
                    producer_reserved_write_pos>>
    BY Zenon, <1>1 DEF Write, BeginClose, NeedReservation, Reserve,
       ReserveAgain, EndWrite, Flush, CloseFlush, UpdateReservation, SetClosing, Join,
       AwaitBlock, Compress, WriteSome, SpuriousWakeup, vars, shared, producer, threads
  <2> QED BY <1>0, <2>1 DEF Ring
<1>2. CASE Copy
  <2> DEFINE offset == producer_reserved_write_pos % BufferLen
  <2>1. PICK amount \in Nat \ {0} :
          /\ amount <= producer_reserved_upto_pos - producer_reserved_write_pos
          /\ offset + amount <= BufferLen
          /\ producer_reserved_write_pos' = producer_reserved_write_pos + amount
          /\ buffer' = [i \in 0..(BufferLen - 1) |->
                IF offset <= i /\ i < offset + amount
                THEN producer_reserved_write_pos + (i - offset) ELSE buffer[i]]
    BY <1>0, <1>2, CopyAmount
  <2>2. UNCHANGED <<thread_pos, next_thread_pos, tpc, length>>
    BY <1>2 DEF Copy, shared, threads
  <2>3. offset \in 0..(BufferLen - 1)
    BY <1>0, ModRange
  <2> HIDE DEF offset
  (* The bytes copied. *)
  <2>4. ASSUME NEW p \in producer_reserved_write_pos..(producer_reserved_write_pos + amount - 1)
        PROVE  buffer'[p % BufferLen] = p
    <3> DEFINE k == p - producer_reserved_write_pos
    <3>1. k \in Nat /\ k < amount /\ p = producer_reserved_write_pos + k /\ offset + k < BufferLen
      BY <1>0, <2>1, <2>3
    <3> HIDE DEF k
    <3>2. p % BufferLen = offset + k
      <4>1. (producer_reserved_write_pos % BufferLen) + k < BufferLen
        BY <3>1 DEF offset
      <4>2. producer_reserved_write_pos \in Int
        BY <1>0
      <4>3. (producer_reserved_write_pos + k) % BufferLen
               = (producer_reserved_write_pos % BufferLen) + k
        BY <1>0, <3>1, <4>1, <4>2, ModShift
      <4> QED BY <3>1, <4>3 DEF offset
    <3> QED BY <1>0, <2>1, <2>3, <3>1, <3>2
  (* A byte less than a lap behind the reserved space stays where it was. *)
  <2>5. ASSUME NEW p \in Nat, p < producer_reserved_write_pos,
               producer_reserved_upto_pos <= p + BufferLen, buffer[p % BufferLen] = p
        PROVE  buffer'[p % BufferLen] = p
    <3>1. p % BufferLen \in 0..(BufferLen - 1)
      BY <1>0, ModRange
    <3>2. ASSUME offset <= p % BufferLen, p % BufferLen < offset + amount PROVE FALSE
      <4> DEFINE k == (p % BufferLen) - offset
                 w == producer_reserved_write_pos + k
      <4>1. k \in Nat /\ k < amount /\ offset + k = p % BufferLen /\ offset + k < BufferLen
        BY <1>0, <2>1, <2>3, <3>1, <3>2
      <4> HIDE DEF k
      <4>2. w % BufferLen = p % BufferLen
        <5>1. (producer_reserved_write_pos % BufferLen) + k < BufferLen
          BY <4>1 DEF offset
        <5>2. producer_reserved_write_pos \in Int
          BY <1>0
        <5>3. w % BufferLen = (producer_reserved_write_pos % BufferLen) + k
          BY <1>0, <4>1, <5>1, <5>2, ModShift
        <5> QED BY <4>1, <5>3 DEF offset
      <4>3. w \in Nat /\ p < w /\ w < p + BufferLen
        BY <1>0, <2>1, <2>5, <4>1
      <4> HIDE DEF w
      <4>4. p \in Int /\ w \in Int
        BY <4>3
      <4> QED BY ZenonT(60), <1>0, <4>2, <4>3, <4>4, ModApart
    <3> QED BY <2>1, <2>3, <2>5, <3>1, <3>2
  <2>6. ASSUME NEW p \in next_thread_pos..(producer_reserved_write_pos' - 1)
        PROVE  buffer'[p % BufferLen] = p
    <3>1. CASE p < producer_reserved_write_pos
      <4>1. buffer[p % BufferLen] = p /\ producer_reserved_upto_pos <= p + BufferLen /\ p \in Nat
        BY <1>0, <3>1 DEF Ring, Positions
      <4> QED BY <2>5, <3>1, <4>1
    <3>2. CASE ~(p < producer_reserved_write_pos)
      <4>1. p \in producer_reserved_write_pos..(producer_reserved_write_pos + amount - 1)
        BY <1>0, <2>1, <3>2
      <4> QED BY <2>4, <4>1
    <3> QED BY <3>1, <3>2
  <2>7. ASSUME NEW t \in Thread, tpc[t] = "compress",
               NEW p \in thread_pos[t]..(BlockStop(t) - 1)
        PROVE  buffer'[p % BufferLen] = p
    <3>1. /\ thread_pos[t] \in Nat /\ length[t] \in Nat
          /\ BlockStop(t) <= next_thread_pos
          /\ producer_reserved_upto_pos <= thread_pos[t] + BufferLen
      BY <1>0, <2>7 DEF Blocks, Positions, Active, TypeOK
    <3>2. p \in Nat /\ p < producer_reserved_write_pos /\ producer_reserved_upto_pos <= p + BufferLen
      BY <1>0, <3>1 DEF Positions, TypeOK
    <3>3. buffer[p % BufferLen] = p
      BY <1>0, <2>7 DEF Ring
    <3> QED BY <2>5, <3>2, <3>3
  <2> QED BY <2>2, <2>6, <2>7 DEF Ring
<1>3. ASSUME NEW t \in Thread, Dispatch(t) PROVE Ring'
  <2>1. /\ BlockEnd \in Nat /\ next_thread_pos < BlockEnd /\ BlockEnd <= next_thread_end_pos
    BY <1>0, <1>3, BlockTaken DEF Dispatch
  <2>2. /\ thread_pos' = [thread_pos EXCEPT ![t] = next_thread_pos]
        /\ length' = [length EXCEPT ![t] = BlockEnd - next_thread_pos]
        /\ next_thread_pos' = BlockEnd
        /\ tpc' = [tpc EXCEPT ![t] = "compress"]
        /\ UNCHANGED <<buffer, producer_reserved_write_pos>>
    BY <1>3 DEF Dispatch, producer
  <2>3. /\ thread_pos'[t] = next_thread_pos
        /\ length'[t] = BlockEnd - next_thread_pos
        /\ \A u \in Thread \ {t} :
              thread_pos'[u] = thread_pos[u] /\ length'[u] = length[u] /\ tpc'[u] = tpc[u]
    BY <1>0, <2>2 DEF TypeOK
  <2>4. BlockEnd <= producer_reserved_write_pos
    BY <1>0, <2>1 DEF Positions, TypeOK
  <2> HIDE DEF BlockEnd
  <2>5. \A p \in next_thread_pos'..(producer_reserved_write_pos' - 1) : buffer'[p % BufferLen] = p
    BY <1>0, <2>1, <2>2 DEF Ring
  <2>6. \A p \in thread_pos'[t]..(BlockStop(t)' - 1) : buffer'[p % BufferLen] = p
    BY <1>0, <2>1, <2>2, <2>3, <2>4 DEF Ring
  <2>7. \A u \in Thread \ {t} : tpc'[u] = "compress" =>
           \A p \in thread_pos'[u]..(BlockStop(u)' - 1) : buffer'[p % BufferLen] = p
    BY <1>0, <2>2, <2>3 DEF Ring
  <2> QED BY <2>5, <2>6, <2>7 DEF Ring
<1>4. ASSUME NEW t \in Thread,
             LeaveLoop(t) \/ Compressed(t) \/ AwaitTurn(t) \/ Written(t) PROVE Ring'
  <2>1. /\ UNCHANGED <<next_thread_pos, length, buffer, producer_reserved_write_pos>>
        /\ \E s \in {"order", "write", "ready", "done"} : tpc' = [tpc EXCEPT ![t] = s]
        /\ thread_pos' = thread_pos \/ thread_pos' = [thread_pos EXCEPT ![t] = Idle]
    BY Zenon, <1>4 DEF LeaveLoop, Compressed, AwaitTurn, Written, TakeTurn, Finish, shared, producer
  <2>2. /\ \A u \in Thread \ {t} : thread_pos'[u] = thread_pos[u] /\ tpc'[u] = tpc[u]
        /\ tpc'[t] # "compress"
    BY <1>0, <2>1 DEF TypeOK
  <2> QED BY <1>0, <2>1, <2>2 DEF Ring
<1> QED BY <1>1, <1>2, <1>3, <1>4 DEF Next, ProducerStep, ThreadStep, Closed

(* No step disturbs what a thread has compressed. *)
LEMMA OutputsStep == WriterInv /\ [Next]_vars => Outputs'
<1> SUFFICES ASSUME WriterInv, [Next]_vars PROVE Outputs'
  OBVIOUS
<1>0. TypeOK /\ Positions /\ Blocks /\ Ring /\ Outputs /\ Tiling
  BY DEF WriterInv
<1>t. /\ Len(file) \in Nat /\ next_thread_pos \in Nat
      /\ \A u \in Thread : /\ length[u] \in Nat /\ Len(outputbuf[u]) \in Nat
                           /\ thread_pos[u] \in Nat \/ thread_pos[u] = Idle
  BY <1>0 DEF TypeOK
<1> USE DEF Active, BlockStop
<1>1. CASE \/ \E n \in Sizes : Write(n)
           \/ BeginClose \/ ProducerStep
           \/ \E t \in Thread : AwaitBlock(t)
           \/ SpuriousWakeup \/ UNCHANGED vars
  <2>1. UNCHANGED <<thread_pos, file, tpc, length, outputbuf>>
    BY Zenon, <1>1 DEF Write, BeginClose, ProducerStep, Copy, NeedReservation, Reserve,
       ReserveAgain, EndWrite, Flush, CloseFlush, UpdateReservation, SetClosing, Join,
       AwaitBlock, SpuriousWakeup, vars, shared, producer, threads
  <2> QED BY Zenon, <1>0, <2>1 DEF Outputs, Holds
<1>2. ASSUME NEW t \in Thread, Dispatch(t) PROVE Outputs'
  <2>2. /\ thread_pos' = [thread_pos EXCEPT ![t] = next_thread_pos]
        /\ length' = [length EXCEPT ![t] = BlockEnd - next_thread_pos]
        /\ tpc' = [tpc EXCEPT ![t] = "compress"]
        /\ outputbuf' = [outputbuf EXCEPT ![t] = <<>>]
        /\ file' = file
    BY <1>2 DEF Dispatch
  <2>3. /\ thread_pos'[t] = next_thread_pos
        /\ length'[t] = BlockEnd - next_thread_pos
        /\ tpc'[t] = "compress" /\ outputbuf'[t] = <<>>
        /\ \A u \in Thread \ {t} :
              /\ thread_pos'[u] = thread_pos[u] /\ length'[u] = length[u] /\ tpc'[u] = tpc[u]
              /\ outputbuf'[u] = outputbuf[u]
    BY <1>0, <2>2 DEF TypeOK
  <2>4. BlockEnd \in Nat /\ next_thread_pos < BlockEnd
    BY <1>0, <1>2, BlockTaken DEF Dispatch
  <2> HIDE DEF BlockEnd
  <2>5. Len(outputbuf'[t]) = 0
    BY <2>3
  (* The new block lies after the one being written. *)
  <2>6. ASSUME NEW u \in Thread, tpc[u] = "write" PROVE thread_pos[u] <= next_thread_pos
    BY <1>0, <1>t, <2>6 DEF Blocks
  <2> SUFFICES ASSUME NEW u \in Thread
               PROVE  /\ tpc'[u] = "compress" => Len(outputbuf'[u]) <= length'[u]
                      /\ tpc'[u] = "order" => Len(outputbuf'[u]) = length'[u]
                      /\ tpc'[u] \in {"compress", "order"} => Holds(u, thread_pos[u])'
                      /\ tpc'[u] = "write" =>
                            /\ Holds(u, Len(file))'
                            /\ thread_pos'[u] <= Len(file')
                            /\ Len(file') + Len(outputbuf'[u]) = BlockStop(u)'
                            /\ \A v \in Thread : Active(v)' => thread_pos'[u] <= thread_pos'[v]
    BY DEF Outputs
  <2>7. CASE u = t
    BY <2>3, <2>4, <2>5, <2>7, <1>t DEF Holds
  <2>8. CASE u # t
    BY <1>0, <2>2, <2>3, <2>6, <2>8 DEF Holds, Outputs
  <2> QED BY <2>7, <2>8
<1>3. ASSUME NEW t \in Thread, LeaveLoop(t) PROVE Outputs'
  <2>1. /\ UNCHANGED <<thread_pos, length, outputbuf, file>>
        /\ tpc' = [tpc EXCEPT ![t] = "done"]
    BY <1>3 DEF LeaveLoop, shared
  <2>2. tpc'[t] = "done" /\ \A u \in Thread \ {t} : tpc'[u] = tpc[u]
    BY <1>0, <2>1 DEF TypeOK
  <2> QED BY <1>0, <2>1, <2>2 DEF Outputs, Holds
<1>4. ASSUME NEW t \in Thread, Compress(t) PROVE Outputs'
  <2>1. /\ tpc[t] = "compress"
        /\ UNCHANGED <<thread_pos, tpc, length, file>>
        /\ \A u \in Thread \ {t} : outputbuf'[u] = outputbuf[u]
        /\ Len(outputbuf'[t]) <= length[t]
        /\ \A i \in 1..Len(outputbuf'[t]) : outputbuf'[t][i] = thread_pos[t] + i - 1
    BY ZenonT(60), <1>0, <1>4, RingRead DEF shared
  <2> QED BY ZenonT(60), <1>0, <2>1 DEF Outputs, Holds
<1>5. ASSUME NEW t \in Thread, Compressed(t) \/ AwaitTurn(t) PROVE Outputs'
  <2>1. /\ tpc[t] \in {"compress", "order"}
        /\ Len(outputbuf[t]) = length[t]
        /\ UNCHANGED <<length, outputbuf, file>>
        /\ Holds(t, thread_pos[t])
    BY ZenonT(60), <1>0, <1>5, TurnTaken DEF Outputs
  <2>2. CASE /\ thread_pos' = [thread_pos EXCEPT ![t] = Idle]
             /\ tpc' = [tpc EXCEPT ![t] = "ready"]
    <3>1. /\ tpc'[t] = "ready" /\ thread_pos'[t] = Idle
          /\ \A u \in Thread \ {t} : tpc'[u] = tpc[u] /\ thread_pos'[u] = thread_pos[u]
      BY <1>0, <2>2 DEF TypeOK
    <3> QED BY ZenonT(60), <1>0, <2>1, <3>1 DEF Outputs, Holds
  <2>3. CASE thread_pos' = thread_pos /\ tpc' = [tpc EXCEPT ![t] = "order"]
    <3>1. tpc'[t] = "order" /\ \A u \in Thread \ {t} : tpc'[u] = tpc[u]
      BY <1>0, <2>3 DEF TypeOK
    <3> QED BY ZenonT(60), <1>0, <2>1, <2>3, <3>1 DEF Outputs, Holds
  <2>4. CASE /\ thread_pos' = thread_pos /\ tpc' = [tpc EXCEPT ![t] = "write"]
             /\ ~write_error /\ ~OtherThreadWritesFirst(t)
    <3>1. tpc'[t] = "write" /\ \A u \in Thread \ {t} : tpc'[u] = tpc[u]
      BY <1>0, <2>4 DEF TypeOK
    <3>2. Active(t) /\ tpc[t] # "write" /\ thread_pos[t] < next_thread_pos
      BY <1>0, <1>t, <2>1 DEF Blocks
    <3>3. \A u \in Thread : Active(u) => thread_pos[t] <= thread_pos[u]
      BY <1>t, <2>4, <3>2 DEF OtherThreadWritesFirst
    (* No earlier byte is missing: its block would be active. *)
    <3>4. Len(file) = thread_pos[t]
      <4>1. Len(file) <= thread_pos[t]
        BY <1>0, <3>2 DEF Tiling
      <4>2. ASSUME Len(file) < thread_pos[t] PROVE FALSE
        <5>1. Len(file) \in Len(file)..(next_thread_pos - 1)
          BY <1>t, <3>2, <4>2
        <5>2. PICK u \in Thread : Active(u) /\ thread_pos[u] <= Len(file)
          BY <1>0, <2>4, <5>1 DEF Tiling
        <5> QED BY <1>t, <3>2, <3>3, <4>2, <5>2
      <4> QED BY <1>t, <3>2, <4>1, <4>2
    <3>5. Holds(t, Len(file)) /\ Len(file) + Len(outputbuf[t]) = BlockStop(t)
      BY <1>t, <2>1, <3>4
    <3> SUFFICES ASSUME NEW u \in Thread
                 PROVE  /\ tpc'[u] = "compress" => Len(outputbuf[u]) <= length[u]
                        /\ tpc'[u] = "order" => Len(outputbuf[u]) = length[u]
                        /\ tpc'[u] \in {"compress", "order"} => Holds(u, thread_pos[u])
                        /\ tpc'[u] = "write" =>
                              /\ Holds(u, Len(file))
                              /\ thread_pos[u] <= Len(file)
                              /\ Len(file) + Len(outputbuf[u]) = BlockStop(u)
                              /\ \A v \in Thread : Active(v) => thread_pos[u] <= thread_pos[v]
      BY <2>1, <2>4 DEF Outputs, Holds
    <3>6. CASE u = t
      BY <1>t, <3>1, <3>3, <3>4, <3>5, <3>6
    <3>7. CASE u # t
      BY <1>0, <3>1, <3>7 DEF Outputs
    <3> QED BY <3>6, <3>7
  <2> QED BY Zenon, <1>0, <1>5, <2>2, <2>3, <2>4, TurnTaken
<1>6. ASSUME NEW t \in Thread, Written(t) PROVE Outputs'
  <2>1. /\ thread_pos' = [thread_pos EXCEPT ![t] = Idle]
        /\ tpc' = [tpc EXCEPT ![t] = "ready"]
        /\ UNCHANGED <<length, outputbuf, file>>
    BY <1>6 DEF Written, Finish
  <2>2. /\ tpc'[t] = "ready" /\ thread_pos'[t] = Idle
        /\ \A u \in Thread \ {t} : tpc'[u] = tpc[u] /\ thread_pos'[u] = thread_pos[u]
    BY <1>0, <2>1 DEF TypeOK
  <2> QED BY <1>0, <2>1, <2>2 DEF Outputs, Holds
<1>7. ASSUME NEW t \in Thread, WriteSome(t) PROVE Outputs'
  <2>1. /\ tpc[t] = "write"
        /\ UNCHANGED <<thread_pos, tpc, length>>
        /\ \A u \in Thread \ {t} : outputbuf'[u] = outputbuf[u]
    BY ZenonT(60), <1>0, <1>7, FileExtended DEF shared
  <2>2. PICK n \in Nat \ {0} :
               /\ Len(file') = Len(file) + n
               /\ Len(outputbuf'[t]) = Len(outputbuf[t]) - n
               /\ Len(outputbuf'[t]) \in Nat
               /\ \A i \in 1..Len(outputbuf'[t]) : outputbuf'[t][i] = outputbuf[t][i + n]
    BY ZenonT(60), <1>0, <1>7, FileExtended
  (* Only one thread writes. *)
  <2>3. \A u \in Thread \ {t} : tpc[u] # "write"
    BY <1>0, <1>t, <2>1 DEF Outputs, Blocks
  <2>4. Holds(t, Len(file))'
    <3>1. ASSUME NEW i \in 1..Len(outputbuf'[t]) PROVE outputbuf'[t][i] = Len(file') + i - 1
      <4>1. i + n \in 1..Len(outputbuf[t])
        BY <1>t, <2>2
      <4>2. outputbuf[t][i + n] = Len(file) + (i + n) - 1
        BY ZenonT(60), <1>0, <2>1, <4>1 DEF Outputs, Holds
      <4>3. Len(file) + (i + n) - 1 = (Len(file) + n) + i - 1
        BY <1>t
      <4> QED BY ZenonT(60), <2>2, <4>2, <4>3
    <3> QED BY <3>1 DEF Holds
  <2>5. /\ thread_pos[t] <= Len(file')
        /\ Len(file') + Len(outputbuf'[t]) = BlockStop(t)
    <3>1. /\ thread_pos[t] <= Len(file) /\ Len(file) + Len(outputbuf[t]) = BlockStop(t)
          /\ thread_pos[t] \in Nat /\ Len(outputbuf[t]) \in Nat
      BY <1>0, <1>t, <2>1 DEF Outputs, Blocks
    <3>2. \A f, o, h \in Nat : h <= f => h <= f + n /\ (f + n) + (o - n) = f + o
      OBVIOUS
    <3>3. /\ thread_pos[t] <= Len(file) + n
          /\ (Len(file) + n) + (Len(outputbuf[t]) - n) = Len(file) + Len(outputbuf[t])
      BY Zenon, <1>t, <3>1, <3>2
    <3> QED BY Zenon, <2>2, <3>1, <3>3
  <2>6. \A u \in Thread : Active(u) => thread_pos[t] <= thread_pos[u]
    BY <1>0, <2>1 DEF Outputs
  <2>7. ASSUME NEW u \in Thread \ {t}
        PROVE  /\ tpc'[u] = "compress" => Len(outputbuf'[u]) <= length'[u]
               /\ tpc'[u] = "order" => Len(outputbuf'[u]) = length'[u]
               /\ tpc'[u] \in {"compress", "order"} => Holds(u, thread_pos[u])'
               /\ tpc'[u] # "write"
    BY ZenonT(60), <1>0, <2>1, <2>3 DEF Outputs, Holds
  <2>8. tpc'[t] = "write" /\ UNCHANGED <<thread_pos, length>>
    BY Zenon, <2>1
  <2> QED BY Zenon, <2>4, <2>5, <2>6, <2>7, <2>8 DEF Outputs
<1> QED BY <1>1, <1>2, <1>3, <1>4, <1>5, <1>6, <1>7 DEF Next, ThreadStep, Closed

(* No step leaves a gap between the file and the blocks. *)
LEMMA TilingStep == WriterInv /\ [Next]_vars => Tiling'
<1> SUFFICES ASSUME WriterInv, [Next]_vars PROVE Tiling'
  OBVIOUS
<1>0. TypeOK /\ Positions /\ Blocks /\ Outputs /\ Tiling
  BY DEF WriterInv
<1>t. /\ Len(file) \in Nat /\ next_thread_pos \in Nat
      /\ \A u \in Thread : /\ length[u] \in Nat /\ Len(outputbuf[u]) \in Nat
                           /\ thread_pos[u] \in Nat \/ thread_pos[u] = Idle
  BY <1>0 DEF TypeOK
<1> USE DEF Active, BlockStop
<1>1. CASE \/ \E n \in Sizes : Write(n)
           \/ BeginClose \/ ProducerStep
           \/ \E t \in Thread : AwaitBlock(t) \/ Compress(t)
           \/ SpuriousWakeup \/ UNCHANGED vars
  <2>1. UNCHANGED <<thread_pos, next_thread_pos, file, tpc, length, write_error>>
    BY Zenon, <1>1 DEF Write, BeginClose, ProducerStep, Copy, NeedReservation, Reserve,
       ReserveAgain, EndWrite, Flush, CloseFlush, UpdateReservation, SetClosing, Join,
       AwaitBlock, Compress, SpuriousWakeup, vars, shared, producer, threads
  <2> QED BY Zenon, <1>0, <2>1 DEF Tiling
<1>2. ASSUME NEW t \in Thread, Dispatch(t) PROVE Tiling'
  <2>1. BlockEnd \in Nat /\ next_thread_pos < BlockEnd
    BY <1>0, <1>2, BlockTaken DEF Dispatch
  <2>2. /\ thread_pos' = [thread_pos EXCEPT ![t] = next_thread_pos]
        /\ length' = [length EXCEPT ![t] = BlockEnd - next_thread_pos]
        /\ tpc' = [tpc EXCEPT ![t] = "compress"] /\ tpc[t] = "ready"
        /\ next_thread_pos' = BlockEnd
        /\ UNCHANGED <<file, write_error>>
    BY <1>2 DEF Dispatch, Awake
  <2>3. /\ thread_pos'[t] = next_thread_pos
        /\ length'[t] = BlockEnd - next_thread_pos
        /\ \A u \in Thread \ {t} :
              thread_pos'[u] = thread_pos[u] /\ length'[u] = length[u] /\ tpc'[u] = tpc[u]
        /\ ~Active(t)
    BY ZenonT(60), <1>0, <2>2 DEF TypeOK, Blocks
  <2> HIDE DEF BlockEnd
  <2>4. \A u \in Thread : Active(u)' /\ tpc'[u] # "write" => Len(file') <= thread_pos'[u]
    BY <1>0, <1>t, <2>2, <2>3 DEF Tiling, Positions
  <2>5. ASSUME ~write_error', NEW p \in Len(file')..(next_thread_pos' - 1)
        PROVE  \E u \in Thread : Active(u)' /\ thread_pos'[u] <= p /\ p < BlockStop(u)'
    <3>1. CASE p < next_thread_pos
      <4>1. p \in Len(file)..(next_thread_pos - 1)
        BY <1>t, <2>2, <3>1
      <4>2. PICK u \in Thread : Active(u) /\ thread_pos[u] <= p /\ p < BlockStop(u)
        BY <1>0, <2>2, <2>5, <4>1 DEF Tiling
      <4> QED BY <2>3, <4>2
    <3>2. CASE ~(p < next_thread_pos)
      BY <1>t, <2>1, <2>2, <2>3, <3>2 DEF Idle
    <3> QED BY <3>1, <3>2
  <2> QED BY <2>4, <2>5 DEF Tiling
<1>3. ASSUME NEW t \in Thread, LeaveLoop(t) PROVE Tiling'
  <2>1. /\ UNCHANGED <<thread_pos, next_thread_pos, length, file, write_error>>
        /\ tpc' = [tpc EXCEPT ![t] = "done"] /\ tpc[t] = "ready"
    BY <1>3 DEF LeaveLoop, Awake, shared
  <2>2. ~Active(t) /\ \A u \in Thread \ {t} : tpc'[u] = tpc[u]
    BY ZenonT(60), <1>0, <2>1 DEF TypeOK, Blocks
  <2> QED BY <1>0, <2>1, <2>2 DEF Tiling
<1>4. ASSUME NEW t \in Thread, Compressed(t) \/ AwaitTurn(t) PROVE Tiling'
  <2>1. /\ tpc[t] \in {"compress", "order"}
        /\ write_error => write_error'
        /\ UNCHANGED <<next_thread_pos, length, file>>
    BY <1>0, <1>4, TurnTaken
  <2>2. CASE /\ thread_pos' = [thread_pos EXCEPT ![t] = Idle]
             /\ tpc' = [tpc EXCEPT ![t] = "ready"] /\ write_error'
    <3>1. /\ thread_pos'[t] = Idle
          /\ \A u \in Thread \ {t} : tpc'[u] = tpc[u] /\ thread_pos'[u] = thread_pos[u]
      BY <1>0, <2>2 DEF TypeOK
    <3> QED BY <1>0, <2>1, <2>2, <3>1 DEF Tiling
  <2>3. CASE thread_pos' = thread_pos /\ \E s \in {"order", "write"} : tpc' = [tpc EXCEPT ![t] = s]
    <3>1. \A u \in Thread \ {t} : tpc'[u] = tpc[u]
      BY <1>0, <2>3 DEF TypeOK
    <3> QED BY <1>0, <2>1, <2>3, <3>1 DEF Tiling
  <2> QED BY Zenon, <1>0, <1>4, <2>2, <2>3, TurnTaken
<1>5. ASSUME NEW t \in Thread, Written(t) PROVE Tiling'
  <2>1. /\ thread_pos' = [thread_pos EXCEPT ![t] = Idle]
        /\ tpc' = [tpc EXCEPT ![t] = "ready"] /\ tpc[t] = "write" /\ outputbuf[t] = <<>>
        /\ UNCHANGED <<next_thread_pos, length, file, write_error>>
    BY <1>5 DEF Written, Finish
  <2>2. /\ thread_pos'[t] = Idle
        /\ \A u \in Thread \ {t} : tpc'[u] = tpc[u] /\ thread_pos'[u] = thread_pos[u]
    BY <1>0, <2>1 DEF TypeOK
  <2>3. BlockStop(t) = Len(file)
    <3>1. Len(file) + Len(outputbuf[t]) = BlockStop(t)
      BY Zenon, <1>0, <2>1 DEF Outputs
    <3>2. Len(outputbuf[t]) = 0 /\ Len(file) \in Nat
      BY <1>0, <2>1 DEF TypeOK
    <3> QED BY <3>1, <3>2
  <2>4. ASSUME ~write_error', NEW p \in Len(file)..(next_thread_pos - 1)
        PROVE  \E u \in Thread : Active(u)' /\ thread_pos'[u] <= p /\ p < BlockStop(u)'
    <3>1. PICK u \in Thread : Active(u) /\ thread_pos[u] <= p /\ p < BlockStop(u)
      BY <1>0, <2>1, <2>4 DEF Tiling
    <3>2. u # t
      BY <1>t, <2>3, <3>1
    <3> QED BY <2>1, <2>2, <3>1, <3>2
  <2> QED BY <1>0, <2>1, <2>2, <2>4 DEF Tiling
<1>6. ASSUME NEW t \in Thread, WriteSome(t) PROVE Tiling'
  <2>1. /\ tpc[t] = "write"
        /\ UNCHANGED <<thread_pos, next_thread_pos, tpc, length, write_error>>
    BY <1>0, <1>6, FileExtended DEF shared
  <2>2. PICK n \in Nat \ {0} : Len(file') = Len(file) + n /\ Len(outputbuf[t]) - n \in Nat
    BY ZenonT(60), <1>0, <1>6, FileExtended
  <2>3. /\ Active(t) /\ Len(file) + Len(outputbuf[t]) = BlockStop(t)
        /\ \A u \in Thread : Active(u) => thread_pos[t] <= thread_pos[u]
    BY <1>0, <2>1 DEF Outputs, Blocks
  <2>4. Len(file) <= Len(file') /\ Len(file') <= BlockStop(t) /\ Len(file') \in Nat
    <3>1. \A f, o \in Nat : o - n \in Nat => f <= f + n /\ f + n <= f + o /\ f + n \in Nat
      OBVIOUS
    <3> QED BY Zenon, <1>t, <2>2, <2>3, <3>1
  (* The other blocks lie behind the one being written. *)
  <2>5. ASSUME NEW u \in Thread, Active(u), tpc[u] # "write" PROVE Len(file') <= thread_pos[u]
    <3>1. u # t /\ (BlockStop(t) <= thread_pos[u] \/ BlockStop(u) <= thread_pos[t])
      BY <1>0, <2>1, <2>3, <2>5 DEF Blocks
    <3>2. length[u] > 0 /\ thread_pos[t] <= thread_pos[u]
      BY <1>0, <2>3, <2>5 DEF Blocks
    <3>3. BlockStop(t) <= thread_pos[u]
      BY <1>t, <2>3, <2>5, <3>1, <3>2
    <3> QED BY <1>t, <2>3, <2>4, <2>5, <3>3
  <2>6. ASSUME NEW p \in Len(file')..(next_thread_pos - 1)
        PROVE  p \in Len(file)..(next_thread_pos - 1)
    BY <1>t, <2>4
  <2> QED BY Zenon, <1>0, <2>1, <2>5, <2>6 DEF Tiling
<1> QED BY <1>1, <1>2, <1>3, <1>4, <1>5, <1>6 DEF Next, ThreadStep, Closed

(* No step writes a byte out of order. *)
LEMMA PrefixStep == WriterInv /\ [Next]_vars => FileIsPrefix'
<1> SUFFICES ASSUME WriterInv, [Next]_vars PROVE FileIsPrefix'
  OBVIOUS
<1>0. TypeOK /\ Outputs /\ FileIsPrefix /\ Len(file) \in Nat
  BY DEF WriterInv, TypeOK
<1>1. CASE UNCHANGED file
  BY <1>0, <1>1 DEF FileIsPrefix
<1>2. ASSUME NEW t \in Thread, WriteSome(t) PROVE FileIsPrefix'
  <2>1. tpc[t] = "write"
    BY <1>2 DEF WriteSome
  <2>2. PICK n \in Nat \ {0} :
               /\ Len(file') = Len(file) + n
               /\ \A i \in 1..Len(file) : file'[i] = file[i]
               /\ \A i \in 1..n : file'[Len(file) + i] = outputbuf[t][i]
               /\ Len(outputbuf[t]) - n \in Nat
    BY ZenonT(60), <1>0, <1>2, FileExtended
  <2>3. /\ \A i \in 1..Len(outputbuf[t]) : outputbuf[t][i] = Len(file) + i - 1
        /\ Len(outputbuf[t]) \in Nat
    BY <1>0, <2>1 DEF Outputs, Holds, TypeOK
  <2>4. ASSUME NEW i \in 1..(Len(file) + n) PROVE file'[i] = i - 1
    <3>1. CASE i <= Len(file)
      BY <1>0, <2>2, <3>1 DEF FileIsPrefix
    <3>2. CASE i > Len(file)
      <4> DEFINE k == i - Len(file)
      <4>1. k \in 1..n /\ k \in 1..Len(outputbuf[t]) /\ i = Len(file) + k
        BY <1>0, <2>2, <2>3, <3>2
      <4> HIDE DEF k
      <4> QED BY <2>2, <2>3, <4>1
    <3> QED BY <1>0, <3>1, <3>2
  <2> QED BY <2>2, <2>4 DEF FileIsPrefix
<1>3. ASSUME NEW t \in Thread, ThreadStep(t), ~WriteSome(t) PROVE UNCHANGED file
  BY Zenon, <1>3 DEF ThreadStep, Dispatch, LeaveLoop, AwaitBlock, Compress, Compressed, AwaitTurn, Written
<1>4. ASSUME \/ \E n \in Sizes : Write(n)
             \/ BeginClose \/ ProducerStep \/ SpuriousWakeup \/ UNCHANGED vars
      PROVE  UNCHANGED file
  BY Zenon, <1>4 DEF Write, BeginClose, ProducerStep, Copy, NeedReservation, Reserve,
     ReserveAgain, EndWrite, Flush, CloseFlush, UpdateReservation, SetClosing, Join,
     SpuriousWakeup, vars
<1> QED BY Zenon, <1>1, <1>2, <1>3, <1>4 DEF Next, Closed

(* The threads finish only when the writer closes. *)
LEMMA ClosingStep == WriterInv /\ [Next]_vars => Closing'
<1> SUFFICES ASSUME WriterInv, [Next]_vars PROVE Closing'
  OBVIOUS
<1>0. TypeOK /\ Positions /\ Outputs /\ Closing
  BY DEF WriterInv
<1>1. CASE (\E n \in Sizes : Write(n)) \/ NeedReservation \/ EndWrite \/ BeginClose
  <2>1. /\ UNCHANGED <<fd_open, error, tpc, closing, write_error, next_thread_pos,
                       next_thread_end_pos, producer_reserved_write_pos>>
        /\ ppc \in {"idle", "write"}
        /\ \/ ppc' \in {"write", "reserve", "flush", "idle"}
           \/ ppc' = "close" /\ fd_open
           \/ ppc' = "closed" /\ ~fd_open
    BY Zenon, <1>1 DEF Write, NeedReservation, EndWrite, BeginClose, shared, threads
  <2> QED BY Zenon, <1>0, <2>1 DEF Closing
<1>2. CASE Copy
  <2>1. /\ UNCHANGED <<fd_open, error, tpc, closing, write_error, next_thread_pos,
                       next_thread_end_pos, ppc>>
        /\ ppc = "write"
    BY Zenon, <1>2 DEF Copy, shared, threads
  <2> QED BY Zenon, <1>0, <2>1 DEF Closing
<1>3. ASSUME NEW wait \in BOOLEAN, NEW after \in {"write", "idle", "closing"},
             UpdateReservation(wait, after), ppc \in {"reserve", "flush", "close"},
             after = "closing" => ppc = "close" /\ ~wait,
             ppc = "close" => after = "closing"
      PROVE  Closing'
  <2>1. /\ next_thread_end_pos' = producer_reserved_write_pos
        /\ ReservationLoop(wait, after, {})
        /\ UNCHANGED <<fd_open, tpc, closing, write_error, next_thread_pos,
                       producer_reserved_write_pos>>
    BY Zenon, <1>3 DEF UpdateReservation, threads
  <2>2. error => error'
    BY <1>0, <2>1, ReservationSafe
  <2>3. ppc' \in {after, "waiting"} /\ (~wait => ppc' = after)
    BY <1>0, <2>1, ReservationSafe
  <2>4. ppc # "closed" /\ ~closing
    BY <1>0, <1>3 DEF Closing
  <2> QED BY Zenon, <1>0, <1>3, <2>1, <2>2, <2>3, <2>4 DEF Closing
<1>4. CASE ReserveAgain
  <2>1. /\ ppc = "waiting" /\ ReservationLoop(TRUE, "write", asleep)
        /\ UNCHANGED <<fd_open, tpc, closing, write_error, next_thread_pos,
                       next_thread_end_pos, producer_reserved_write_pos>>
    BY Zenon, <1>4 DEF ReserveAgain, shared, threads
  <2>2. (error => error') /\ ppc' \in {"write", "waiting"}
    BY ZenonT(60), <1>0, <2>1, ReservationSafe
  <2> QED BY Zenon, <1>0, <2>1, <2>2 DEF Closing
<1>5. CASE SetClosing
  <2>1. /\ UNCHANGED <<fd_open, error, tpc, write_error, next_thread_pos,
                       next_thread_end_pos, producer_reserved_write_pos>>
        /\ ppc = "closing" /\ ppc' = "join" /\ closing'
    BY Zenon, <1>5 DEF SetClosing, shared, threads
  <2> QED BY Zenon, <1>0, <2>1 DEF Closing
<1>6. CASE Join
  <2>1. /\ UNCHANGED <<tpc, closing>> /\ ~fd_open' /\ ppc' = "closed"
        /\ \A t \in Thread : tpc[t] = "done"
    BY Zenon, <1>6 DEF Join, shared, threads
  <2> QED BY Zenon, <1>0, <2>1 DEF Closing
<1>7. ASSUME NEW t \in Thread, Dispatch(t) PROVE Closing'
  <2>1. /\ UNCHANGED <<fd_open, error, ppc, closing, write_error,
                       next_thread_end_pos, producer_reserved_write_pos>>
        /\ tpc[t] = "ready" /\ tpc' = [tpc EXCEPT ![t] = "compress"]
        /\ next_thread_pos < next_thread_end_pos /\ ~write_error
    BY Zenon, <1>7 DEF Dispatch, Awake, HasBlock, producer
  <2>2. fd_open
    BY Zenon, <1>0, <2>1 DEF Closing
  (* Nobody has left: there is a block. *)
  <2>3. \A u \in Thread : tpc[u] # "done"
    BY <1>0, <2>1, <2>2 DEF Closing, TypeOK
  <2>4. \A u \in Thread : tpc'[u] # "done"
    BY <1>0, <2>1, <2>3 DEF TypeOK
  <2> QED BY Zenon, <1>0, <2>1, <2>2, <2>4 DEF Closing
<1>8. ASSUME NEW t \in Thread, LeaveLoop(t) PROVE Closing'
  <2>1. /\ UNCHANGED <<fd_open, error, ppc, closing, write_error, next_thread_pos,
                       next_thread_end_pos, producer_reserved_write_pos>>
        /\ tpc[t] = "ready" /\ tpc' = [tpc EXCEPT ![t] = "done"]
        /\ closing /\ (write_error \/ next_thread_pos = next_thread_end_pos)
    BY Zenon, <1>8 DEF LeaveLoop, NothingLeft, Awake, shared, producer
  <2>2. fd_open
    BY Zenon, <1>0, <2>1 DEF Closing
  <2> QED BY Zenon, <1>0, <2>1, <2>2 DEF Closing
<1>9. ASSUME NEW t \in Thread, Compressed(t) \/ AwaitTurn(t) \/ Written(t) PROVE Closing'
  <2>1. /\ UNCHANGED <<fd_open, error, ppc, closing, next_thread_pos,
                       next_thread_end_pos, producer_reserved_write_pos>>
        /\ tpc[t] \in {"compress", "order", "write"}
        /\ \E s \in {"ready", "order", "write"} : tpc' = [tpc EXCEPT ![t] = s]
    BY Zenon, <1>9 DEF Compressed, AwaitTurn, Written, Awake, TakeTurn, Finish, producer
  <2>2. write_error => write_error'
    BY Zenon, <1>9 DEF Compressed, AwaitTurn, Written
  <2>3. fd_open
    BY Zenon, <1>0, <2>1 DEF Closing
  <2>4. \A u \in Thread : tpc'[u] = "done" => tpc[u] = "done"
    BY <1>0, <2>1 DEF TypeOK
  <2> QED BY Zenon, <1>0, <2>1, <2>2, <2>3, <2>4 DEF Closing
<1>10. CASE \/ \E t \in Thread : AwaitBlock(t) \/ Compress(t) \/ WriteSome(t)
            \/ SpuriousWakeup \/ UNCHANGED vars
  <2>1. UNCHANGED <<fd_open, error, tpc, ppc, closing, write_error, next_thread_pos,
                    next_thread_end_pos, producer_reserved_write_pos>>
    BY Zenon, <1>10 DEF AwaitBlock, Compress, WriteSome, SpuriousWakeup, vars, shared, producer, threads
  <2> QED BY Zenon, <1>0, <2>1 DEF Closing
<1>11. CASE Reserve \/ Flush \/ CloseFlush
  BY Zenon, <1>3, <1>11 DEF Reserve, Flush, CloseFlush
<1> QED BY Zenon, <1>1, <1>2, <1>4, <1>5, <1>6, <1>7, <1>8, <1>9, <1>10, <1>11
        DEF Next, ProducerStep, ThreadStep, Closed

(* The invariant is inductive. *)
LEMMA WriterStep == WriterInv /\ [Next]_vars => WriterInv'
BY TypeStep, PositionsStep, BlocksStep, RingStep, OutputsStep, TilingStep, ClosingStep,
   PrefixStep DEF WriterInv

(* The types of the writer's fields. *)
THEOREM WriterTypeOK == Spec => []TypeOK
<1>1. WriterInv => TypeOK
  BY DEF WriterInv
<1> QED BY <1>1, InitWriter, WriterStep, PTL DEF Spec

(***************************************************************************)
(* Whatever the number of threads and the order in which they finish, fail *)
(* and write, the file is a prefix of the stream.                          *)
(***************************************************************************)
THEOREM WriterFileIsPrefix == Spec => []FileIsPrefix
<1>1. WriterInv => FileIsPrefix
  BY DEF WriterInv
<1> QED BY <1>1, InitWriter, WriterStep, PTL DEF Spec

(***************************************************************************)
(* The producer never fills a place of the ring that is still to be read,  *)
(* and a thread finds its block in the ring as the producer wrote it.      *)
(***************************************************************************)
THEOREM WriterBufferNotLapped == Spec => []BufferNotLapped
<1>1. WriterInv => BufferNotLapped
  <2> SUFFICES ASSUME WriterInv PROVE BufferNotLapped
    OBVIOUS
  <2>1. TypeOK /\ Positions /\ Ring
    BY DEF WriterInv
  <2>2. \A p \in Pending : producer_reserved_upto_pos <= p + BufferLen
    BY <2>1 DEF Pending, Positions, Active
  <2>3. producer_reserved_write_pos <= producer_reserved_upto_pos
    BY <2>1 DEF Positions
  <2>4. ASSUME NEW t \in Thread, tpc[t] = "compress",
               NEW p \in thread_pos[t]..(thread_pos[t] + length[t] - 1)
        PROVE  buffer[p % BufferLen] = p
    <3>1. thread_pos[t] \in Int /\ length[t] \in Int
      BY <2>1 DEF TypeOK, Idle
    <3>2. thread_pos[t] + length[t] - 1 = BlockStop(t) - 1
      BY <3>1 DEF BlockStop
    <3> QED BY <2>1, <2>4, <3>2 DEF Ring
  <2> QED BY <2>2, <2>3, <2>4 DEF BufferNotLapped
<1> QED BY <1>1, InitWriter, WriterStep, PTL DEF Spec

-----------------------------------------------------------------------------
(* Refinement of ByteLog. *)

(* After a close without error every byte is in the file. *)
LEMMA AllFiled ==
  ASSUME WriterInv, ppc = "join", \A t \in Thread : tpc[t] = "done", ~write_error
  PROVE  Len(file) = producer_reserved_write_pos
<1>0. TypeOK /\ Positions /\ Blocks /\ Tiling /\ Closing
  BY DEF WriterInv
<1>1. next_thread_pos = producer_reserved_write_pos
  <2>1. fd_open /\ next_thread_end_pos = producer_reserved_write_pos
    BY Zenon, <1>0 DEF Closing
  <2>2. PICK t \in Thread : TRUE
    BY ThreadAssumption
  <2>3. next_thread_pos = next_thread_end_pos
    BY Zenon, <1>0, <2>1, <2>2 DEF Closing
  <2> QED BY <2>1, <2>3
<1>2. \A t \in Thread : ~Active(t)
  BY <1>0 DEF Blocks
<1>3. ~(Len(file) < next_thread_pos)
  <2> SUFFICES ASSUME Len(file) < next_thread_pos PROVE FALSE
    OBVIOUS
  <2>1. Len(file) \in Len(file)..(next_thread_pos - 1)
    BY <1>0 DEF TypeOK
  <2> QED BY <1>0, <1>2, <2>1 DEF Tiling
<1>4. Len(file) <= next_thread_pos /\ Len(file) \in Nat /\ next_thread_pos \in Nat
  BY <1>0 DEF Positions, TypeOK
<1> QED BY <1>1, <1>3, <1>4

(* The abstract state, before and after close. *)
LEMMA LogStates ==
  /\ ppc = "closed" => LogState = IF error THEN "closed_failed" ELSE "closed"
  /\ ppc # "closed" => LogState = IF error \/ write_error THEN "failed" ELSE "open"
BY DEF LogState

(* A new writer is an empty log. *)
LEMMA LogInitially == Init => Log!LogInit
BY DEF Init, LogState, Log!LogInit

(* Nothing the log shows has changed. *)
LEMMA LogSame ==
  ASSUME ppc # "closed", ppc' # "closed",
         (error \/ write_error) <=> (error' \/ write_error'),
         UNCHANGED <<file, producer_reserved_write_pos>>
  PROVE  UNCHANGED Log!logvars
BY Zenon, LogStates DEF LogState, Log!logvars

(* Every step is a step of the log or leaves it alone. *)
LEMMA LogStep == WriterInv /\ [Next]_vars => [Log!LogNext]_(Log!logvars)
<1> SUFFICES ASSUME WriterInv, [Next]_vars PROVE Log!LogNext \/ UNCHANGED Log!logvars
  BY DEF Log!LogNext
<1>0. TypeOK /\ Positions /\ Blocks /\ Outputs /\ Closing
  BY DEF WriterInv
<1>1. CASE (\E n \in Sizes : Write(n)) \/ NeedReservation \/ EndWrite \/ SetClosing
  <2>1. /\ UNCHANGED <<file, producer_reserved_write_pos, error, write_error>>
        /\ ppc # "closed" /\ ppc' # "closed"
    BY Zenon, <1>1 DEF Write, NeedReservation, EndWrite, SetClosing, shared
  <2> QED BY Zenon, <2>1, LogSame
<1>2. CASE Copy
  <2>1. PICK amount \in Nat \ {0} :
           producer_reserved_write_pos' = producer_reserved_write_pos + amount
    BY <1>0, <1>2, CopyAmount
  <2>2. UNCHANGED <<file, error, write_error, ppc>> /\ ppc = "write"
    BY Zenon, <1>2 DEF Copy, shared
  <2>3. LogState' = LogState /\ LogState \in {"open", "failed"}
    BY Zenon, <2>2, LogStates DEF LogState
  <2>4. /\ producer_reserved_write_pos' \in Nat
        /\ producer_reserved_write_pos' > producer_reserved_write_pos
    BY <1>0, <2>1 DEF TypeOK
  <2> QED BY <2>2, <2>3, <2>4 DEF Log!LogNext, Log!Accept
<1>3. CASE Reserve \/ ReserveAgain \/ Flush \/ CloseFlush
  <2>1. PICK wait \in BOOLEAN, after \in {"write", "idle", "closing"}, sleepers \in {{}, asleep} :
           ReservationLoop(wait, after, sleepers)
    BY Zenon, <1>3 DEF Reserve, ReserveAgain, Flush, CloseFlush, UpdateReservation
  <2>2. /\ (error => error') /\ (error' => error \/ write_error)
        /\ ppc' \in {"write", "idle", "closing", "waiting"}
    BY <1>0, <2>1, ReservationSafe
  <2>3. UNCHANGED <<file, producer_reserved_write_pos, write_error>> /\ ppc # "closed"
    BY Zenon, <1>3 DEF Reserve, ReserveAgain, Flush, CloseFlush, UpdateReservation, shared
  <2> QED BY Zenon, <2>2, <2>3, LogSame
<1>4. CASE BeginClose
  <2>1. UNCHANGED <<file, producer_reserved_write_pos, error, write_error>> /\ ppc = "idle"
    BY Zenon, <1>4 DEF BeginClose, shared
  <2>2. CASE fd_open
    <3>1. ppc' = "close"
      BY Zenon, <1>4, <2>2 DEF BeginClose
    <3> QED BY Zenon, <2>1, <3>1, LogSame
  <2>3. CASE ~fd_open
    <3>1. error /\ ppc' = "closed"
      BY Zenon, <1>0, <1>4, <2>1, <2>3 DEF BeginClose, Closing
    <3>2. LogState = "failed" /\ LogState' = "closed_failed"
      BY Zenon, <2>1, <3>1, LogStates DEF LogState
    <3> QED BY <2>1, <3>2 DEF Log!LogNext, Log!CloseLog
  <2> QED BY <2>2, <2>3
<1>5. CASE Join
  <2>1. /\ UNCHANGED <<file, producer_reserved_write_pos, write_error>>
        /\ ppc = "join" /\ ppc' = "closed" /\ \A t \in Thread : tpc[t] = "done"
        /\ error \/ write_error => error'
    BY Zenon, <1>5 DEF Join, shared
  <2>2. CASE error'
    <3>1. LogState \in {"open", "failed"} /\ LogState' = "closed_failed"
      BY Zenon, <2>1, <2>2, LogStates DEF LogState
    <3> QED BY <2>1, <3>1 DEF Log!LogNext, Log!CloseLog
  <2>3. CASE ~error'
    <3>1. Len(file) = producer_reserved_write_pos
      BY <2>1, <2>3, AllFiled
    <3>2. LogState = "open" /\ LogState' = "closed"
      BY Zenon, <2>1, <2>3, LogStates DEF LogState
    <3> QED BY <2>1, <3>1, <3>2 DEF Log!LogNext, Log!CloseLog
  <2> QED BY <2>2, <2>3
<1>6. ASSUME NEW t \in Thread, Compressed(t)
      PROVE  Log!LogNext \/ UNCHANGED Log!logvars
  <2>1. UNCHANGED <<file, producer_reserved_write_pos, error, ppc>> /\ tpc[t] = "compress"
        /\ (write_error => write_error')
    BY Zenon, <1>6 DEF Compressed, producer
  <2>2. ppc # "closed"
    BY Zenon, <1>0, <2>1 DEF Closing
  <2>3. CASE (error \/ write_error) <=> (error' \/ write_error')
    BY Zenon, <2>1, <2>2, <2>3, LogSame
  <2>4. CASE ~error /\ ~write_error /\ write_error'
    <3>1. LogState = "open" /\ LogState' = "failed"
      BY Zenon, <2>1, <2>2, <2>4, LogStates DEF LogState
    <3> QED BY <2>1, <3>1 DEF Log!LogNext, Log!Break
  <2> QED BY Zenon, <2>1, <2>3, <2>4
<1>7. ASSUME NEW t \in Thread, WriteSome(t) PROVE Log!LogNext \/ UNCHANGED Log!logvars
  <2>1. tpc[t] = "write" /\ UNCHANGED <<producer_reserved_write_pos, error, write_error, ppc>>
    BY Zenon, <1>7 DEF WriteSome, shared, producer
  <2>2. ppc # "closed"
    BY Zenon, <1>0, <2>1 DEF Closing
  <2>3. LogState' = LogState /\ LogState \in {"open", "failed"}
    BY Zenon, <2>1, <2>2, LogStates DEF LogState
  <2>4. PICK n \in Nat \ {0} : Len(file') = Len(file) + n
    BY ZenonT(60), <1>0, <1>7, FileExtended
  <2>5. Len(file') <= producer_reserved_write_pos
    <3>1. Positions'
      BY PositionsStep
    <3>2. TypeOK'
      BY <1>0, TypeStep
    <3> QED BY <2>1, <3>1, <3>2 DEF Positions, TypeOK
  <2>6. Len(file') \in (Len(file) + 1)..producer_reserved_write_pos
    BY <1>0, <2>4, <2>5 DEF TypeOK
  <2> QED BY <2>1, <2>3, <2>6 DEF Log!LogNext, Log!File
<1>8. ASSUME NEW t \in Thread,
             Dispatch(t) \/ LeaveLoop(t) \/ AwaitBlock(t) \/ Compress(t) \/ AwaitTurn(t) \/ Written(t)
      PROVE  UNCHANGED Log!logvars
  <2>1. UNCHANGED <<file, producer_reserved_write_pos, error, write_error, ppc>>
    BY Zenon, <1>8 DEF Dispatch, LeaveLoop, AwaitBlock, Compress, AwaitTurn, Written, shared, producer
  <2> QED BY Zenon, <2>1 DEF LogState, Log!logvars
<1>9. CASE SpuriousWakeup \/ UNCHANGED vars
  <2>1. UNCHANGED <<file, producer_reserved_write_pos, error, write_error, ppc>>
    BY Zenon, <1>9 DEF SpuriousWakeup, vars, shared, producer
  <2> QED BY Zenon, <2>1 DEF LogState, Log!logvars
<1> QED BY Zenon, <1>1, <1>2, <1>3, <1>4, <1>5, <1>6, <1>7, <1>8, <1>9
        DEF Next, ProducerStep, ThreadStep, Closed

(***************************************************************************)
(* The writer implements ByteLog: bytes reach the file in order, and after *)
(* a close without error all of them have.                                 *)
(***************************************************************************)
THEOREM WriterImplementsLog == Spec => ImplementsLog
BY LogInitially, LogStep, InitWriter, WriterStep, PTL DEF Spec, ImplementsLog, Log!LogSpec

=============================================================================
