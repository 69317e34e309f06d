---------------------------- MODULE SessionPipe ----------------------------
(***************************************************************************)
(* The bounded pipe of adapter/outbound/xraymux/client.go: a session's     *)
(* download buffer (written by readLoop, read by the application) and the  *)
(* carrier's downlink (written by carrierFill, read by readLoop).  Writer  *)
(* and reader wait on ONE condition variable; a write signals it once.     *)
(***************************************************************************)
EXTENDS Integers, Sequences, SequencesExt

CONSTANTS
    Limit,     \* bytes the pipe holds
    MaxChunk,  \* the longest chunk written
    MaxRead,   \* the longest buffer read into
    MaxByte    \* bound: bytes written in all; the i-th byte written is i

\* A chunk fits: 64 KiB frames in 512 KiB, 32 KiB reads in 256 KiB, so
\* MaxChunk <= Limit.

VARIABLES
    chunks, nbytes, closed,  \* the sessionPipe struct
    wpc, data,               \* the writer and its chunk
    rpc, dst, room,          \* the reader, the bytes in its buffer and the room left
    timed, expired,          \* the read has a deadline; it has passed
    next                     \* the next byte to be written
vars == <<chunks, nbytes, closed, wpc, data, rpc, dst, room, timed, expired, next>>
writer == <<wpc, data, next>>
reader == <<rpc, dst, room, timed, expired>>

Bytes == 1..MaxByte
TypeOK ==
    /\ chunks \in Seq(Seq(Bytes) \ {<<>>})
    /\ nbytes \in 0..Limit
    /\ closed \in BOOLEAN /\ timed \in BOOLEAN /\ expired \in BOOLEAN
    /\ wpc \in {"idle", "try", "wait"}
    /\ data \in Seq(Bytes)
    /\ rpc \in {"idle", "try", "wait", "more"}
    /\ dst \in Seq(Bytes) /\ room \in 0..MaxRead
    /\ next \in 1..(MaxByte + 1)

\* newSessionPipe
Init ==
    /\ chunks = <<>> /\ nbytes = 0 /\ closed = FALSE
    /\ wpc = "idle" /\ data = <<>> /\ next = 1
    /\ rpc = "idle" /\ dst = <<>> /\ room = 0 /\ timed = FALSE /\ expired = FALSE

Woken(pc) == IF pc = "wait" THEN "try" ELSE pc

\* cond.Broadcast
Broadcast == wpc' = Woken(wpc) /\ rpc' = Woken(rpc)

-----------------------------------------------------------------------------
(* write *)

WriteCall(n) ==
    /\ wpc = "idle" /\ next + n <= MaxByte + 1
    /\ data' = [i \in 1..n |-> next + i - 1]
    /\ next' = next + n
    /\ wpc' = "try"
    /\ UNCHANGED <<chunks, nbytes, closed, reader>>

WriteClosed ==
    /\ wpc = "try" /\ closed
    /\ wpc' = "idle" /\ data' = <<>>
    /\ UNCHANGED <<chunks, nbytes, closed, reader, next>>

Fits == nbytes + Len(data) <= Limit

\* The writer is awake, so cond.Signal can only wake the reader.
WriteChunk ==
    /\ wpc = "try" /\ ~closed /\ Fits
    /\ chunks' = Append(chunks, data)
    /\ nbytes' = nbytes + Len(data)
    /\ rpc' = Woken(rpc)
    /\ wpc' = "idle" /\ data' = <<>>
    /\ UNCHANGED <<closed, dst, room, timed, expired, next>>

WriteWait ==
    /\ wpc = "try" /\ ~closed /\ ~Fits
    /\ wpc' = "wait"
    /\ UNCHANGED <<chunks, nbytes, closed, data, next, reader>>

-----------------------------------------------------------------------------
(* session.Read: readDeadline, then readAvailable while there is room *)

ReadCall(n, deadline) ==
    /\ rpc = "idle"
    /\ rpc' = "try" /\ dst' = <<>> /\ room' = n /\ timed' = deadline /\ expired' = FALSE
    /\ UNCHANGED <<chunks, nbytes, closed, writer>>

\* What one readLocked copies.
Copied == IF room < Len(Head(chunks)) THEN room ELSE Len(Head(chunks))

\* Mutants: the waiting writer is not woken; the rest of a chunk is dropped.
ReadLockedSilent ==
    /\ rpc \in {"try", "more"} /\ chunks # <<>>
    /\ chunks' = IF Copied = Len(Head(chunks)) THEN Tail(chunks)
                 ELSE [chunks EXCEPT ![1] = SubSeq(@, Copied + 1, Len(@))]
    /\ nbytes' = nbytes - Copied /\ room' = room - Copied
    /\ dst' = dst \o SubSeq(Head(chunks), 1, Copied)
    /\ rpc' = IF Copied = room THEN "idle" ELSE "more"
    /\ UNCHANGED <<closed, writer, timed, expired>>
ReadLockedLossy ==
    /\ rpc \in {"try", "more"} /\ chunks # <<>>
    /\ chunks' = Tail(chunks) /\ nbytes' = nbytes - Len(Head(chunks))
    /\ room' = room - Copied /\ dst' = dst \o SubSeq(Head(chunks), 1, Copied)
    /\ rpc' = IF Copied = room THEN "idle" ELSE "more"
    /\ wpc' = Woken(wpc)
    /\ UNCHANGED <<closed, data, timed, expired, next>>

\* readLocked; Read returns when its buffer is full and otherwise looks for more.
ReadLocked ==
    /\ rpc \in {"try", "more"} /\ chunks # <<>>
    /\ chunks' = IF Copied = Len(Head(chunks)) THEN Tail(chunks)
                 ELSE [chunks EXCEPT ![1] = SubSeq(@, Copied + 1, Len(@))]
    /\ nbytes' = nbytes - Copied /\ room' = room - Copied
    /\ dst' = dst \o SubSeq(Head(chunks), 1, Copied)
    /\ rpc' = IF Copied = room THEN "idle" ELSE "more"
    /\ wpc' = Woken(wpc)
    /\ UNCHANGED <<closed, data, timed, expired, next>>

\* EOF or the cause; a passed deadline; or nothing more to copy.
ReadReturns ==
    /\ chunks = <<>>
    /\ rpc = "more" \/ (rpc = "try" /\ (closed \/ (timed /\ expired)))
    /\ rpc' = "idle"
    /\ UNCHANGED <<chunks, nbytes, closed, writer, dst, room, timed, expired>>

ReadWait ==
    /\ rpc = "try" /\ chunks = <<>> /\ ~closed /\ ~(timed /\ expired)
    /\ rpc' = "wait"
    /\ UNCHANGED <<chunks, nbytes, closed, writer, dst, room, timed, expired>>

\* The deadline passes ...
Expire ==
    /\ rpc # "idle" /\ timed /\ ~expired
    /\ expired' = TRUE
    /\ UNCHANGED <<chunks, nbytes, closed, writer, rpc, dst, room, timed>>

\* ... and the AfterFunc of a waiting read broadcasts.
TimerWakes ==
    /\ rpc = "wait" /\ timed /\ expired
    /\ Broadcast
    /\ UNCHANGED <<chunks, nbytes, closed, data, dst, room, timed, expired, next>>

-----------------------------------------------------------------------------
(* close and drop *)

\* Mutant: close does not wake anybody.
CloseSilent == ~closed /\ closed' = TRUE /\ UNCHANGED <<chunks, nbytes, writer, reader>>

Close ==
    /\ ~closed
    /\ closed' = TRUE
    /\ Broadcast
    /\ UNCHANGED <<chunks, nbytes, data, dst, room, timed, expired, next>>

Drop ==
    /\ ~closed \/ chunks # <<>>
    /\ closed' = TRUE /\ chunks' = <<>> /\ nbytes' = 0
    /\ Broadcast
    /\ UNCHANGED <<data, dst, room, timed, expired, next>>

-----------------------------------------------------------------------------

WriteStep == WriteClosed \/ WriteChunk \/ WriteWait
ReadStep == ReadLocked \/ ReadReturns \/ ReadWait \/ TimerWakes

\* The application reads.
Reads == \E n \in 1..MaxRead, deadline \in BOOLEAN : ReadCall(n, deadline)

Next ==
    \/ \E n \in 1..MaxChunk : WriteCall(n)
    \/ Reads
    \/ WriteStep \/ ReadStep \/ Expire \/ Close \/ Drop

Spec == Init /\ [][Next]_vars

\* Goroutines run, deadlines pass, and the application keeps reading.
Fairness ==
    /\ WF_vars(WriteStep) /\ WF_vars(ReadStep) /\ WF_vars(Expire)
    /\ WF_vars(Reads)

FairSpec == Spec /\ Fairness

-----------------------------------------------------------------------------
(* Properties *)

\* One condition variable is enough: neither side sleeps on a pipe that has what
\* it waits for, although a write wakes one sleeper only.
NoLostWakeup ==
    /\ rpc = "wait" => chunks = <<>> /\ ~closed
    /\ wpc = "wait" => ~closed /\ ~Fits

\* A write held up by backpressure ends, as long as the other side reads; a
\* read with a deadline returns, whatever the writer does.
PipeCallsReturn == []<>(wpc = "idle") /\ []<>(rpc = "idle" \/ ~timed)

\* Seen through its bytes the pipe is a bounded queue: nothing is lost,
\* duplicated or reordered, and close keeps what is buffered.
Fifo == INSTANCE ByteFifo WITH queue <- FlattenSeq(chunks), offered <- next - 1 - Len(data),
                               out <- dst, shut <- closed
RefinesFifo == Fifo!Spec
=============================================================================
