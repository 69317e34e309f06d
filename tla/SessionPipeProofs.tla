------------------------- MODULE SessionPipeProofs -------------------------
(* Proofs about SessionPipe, for every limit, chunk length and read length. *)
EXTENDS SessionPipe, TLAPS

\* A leaf that names no prover is for SMT. The limit is generous: most leaves
\* take well under a second of it.
USE SMTT(120)

\* Every step of the pipe leaves nobody asleep on what it waits for: a step
\* that adds bytes, takes bytes or closes the pipe wakes the side it concerns.
LEMMA WakeupStep == NoLostWakeup /\ [Next]_vars => NoLostWakeup'
<1> SUFFICES ASSUME NoLostWakeup, [Next]_vars PROVE NoLostWakeup'
  OBVIOUS
<1> USE DEF NoLostWakeup, Fits, writer, reader
<1>1. ASSUME NEW n \in 1..MaxChunk, WriteCall(n) PROVE NoLostWakeup'
  BY <1>1 DEF WriteCall
<1>2. ASSUME NEW n \in 1..MaxRead, NEW d \in BOOLEAN, ReadCall(n, d) PROVE NoLostWakeup'
  BY <1>2 DEF ReadCall
<1>3. CASE WriteStep
  <2>1. CASE WriteClosed  BY <2>1 DEF WriteClosed
  <2>2. CASE WriteChunk   BY <2>2 DEF WriteChunk, Woken
  <2>3. CASE WriteWait    BY <2>3 DEF WriteWait
  <2> QED  BY <1>3, <2>1, <2>2, <2>3 DEF WriteStep
<1>4. CASE ReadStep
  <2>1. CASE ReadLocked   BY <2>1 DEF ReadLocked, Woken
  <2>2. CASE ReadReturns  BY <2>2 DEF ReadReturns
  <2>3. CASE ReadWait     BY <2>3 DEF ReadWait
  <2>4. CASE TimerWakes   BY <2>4 DEF TimerWakes, Broadcast, Woken
  <2> QED  BY <1>4, <2>1, <2>2, <2>3, <2>4 DEF ReadStep
<1>5. CASE Expire  BY <1>5 DEF Expire
<1>6. CASE Close   BY <1>6 DEF Close, Broadcast, Woken
<1>7. CASE Drop    BY <1>7 DEF Drop, Broadcast, Woken
<1>8. CASE UNCHANGED vars  BY <1>8 DEF vars
<1> QED  BY <1>1, <1>2, <1>3, <1>4, <1>5, <1>6, <1>7, <1>8 DEF Next, Reads

\* sessionPipe.write, readDeadline, readLocked, close and drop share one
\* condition variable without losing a wakeup.
THEOREM NoLostWakeupHolds == Spec => []NoLostWakeup
<1>1. Init => NoLostWakeup  BY DEF Init, NoLostWakeup
<1> QED  BY <1>1, WakeupStep, PTL DEF Spec
=============================================================================
