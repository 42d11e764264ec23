------------------------- MODULE BackpressureProofs -------------------------
(***************************************************************************)
(* The flow control of the sending loop, for every choice of watermarks,   *)
(* chunk size, file size, queue limit and numbers of waits and retries.    *)
(***************************************************************************)
EXTENDS Backpressure, TLAPS

\* The type invariant in two parts: no prover takes flags and numbers together.
Flags == readyOpen \in BOOLEAN /\ transferCancelled \in BOOLEAN

Numbers ==
    /\ pc \in Places
    /\ bufferedAmount \in Nat /\ sendBytesSent \in Nat
    /\ backpressureWaitIters \in 0..WaitLimit /\ retries \in 0..RetryLimit
    /\ timeouts \in Nat /\ late \in Nat

\* A wait sleeps, and a chunk is sent, only below the limit; the loop goes on
\* only while bytes are left.
Limits ==
    /\ pc = "asleep" => backpressureWaitIters < WaitLimit
    /\ pc = "send" => retries < RetryLimit
    /\ sendBytesSent <= TotalBytes
    /\ pc \in {"wait", "asleep", "read", "retry", "send", "backoff", "count"} =>
          sendBytesSent < TotalBytes

\* The queue as it may be when a chunk is about to be added to it.
Room == bufferedAmount <= High + ChunkSize * timeouts

\* BufferBounded holds because a wait that ends normally, or gives up and is
\* counted, leaves Room; only a cancelled one does not, after which nothing is
\* sent that was not already past the last test.
Bounded ==
    /\ BufferBounded
    /\ pc \in {"read", "retry", "backoff"} /\ ~transferCancelled => Room
    /\ pc = "send" => Room

\* Only a send or a sleep that was decided on before the cancel is late.
Prompt ==
    /\ ~transferCancelled => late = 0
    /\ pc = "send" => late = 0
    /\ late <= 1

IInv == Flags /\ Numbers /\ Limits /\ Bounded /\ RefusedOnlyWhenStalled /\ Prompt

USE WatermarksAssumption, SizesAssumption, LimitsAssumption

\* The arithmetic of the bound: one more wait given up is one more chunk.
LEMMA OneMoreChunk ==
    ASSUME NEW n \in Nat
    PROVE  /\ ChunkSize * n \in Nat
           /\ ChunkSize * (n + 1) \in Nat
           /\ ChunkSize * (n + 1) = ChunkSize * n + ChunkSize
BY SMT

\* A chunk is at least one byte and at most chunkSize while bytes are left.
LEMMA ChunkFits ==
    ASSUME Numbers, sendBytesSent < TotalBytes
    PROVE  /\ ChunkLen \in Nat /\ ChunkLen <= ChunkSize
           /\ sendBytesSent + ChunkLen <= TotalBytes
BY DEF Numbers, ChunkLen

\* The loop starts within its bounds.
LEMMA IInvInit == Init => IInv
<1> SUFFICES ASSUME Init PROVE IInv
  OBVIOUS
<1>1. Flags
  BY Zenon DEF Init, Flags
<1>2. Numbers /\ Limits /\ Prompt
  BY DEF Init, Numbers, Places, Limits, Prompt
<1>3. Bounded /\ RefusedOnlyWhenStalled
  BY OneMoreChunk DEF Init, BufferBounded, Bounded, RefusedOnlyWhenStalled
<1> QED
  BY <1>1, <1>2, <1>3 DEF IInv

\* Every step of the loop, the drain, the cancel and the close keeps them.
LEMMA IInvNext == IInv /\ [Next]_vars => IInv'
<1> SUFFICES ASSUME IInv, [Next]_vars PROVE IInv'
  OBVIOUS
<1> USE DEF IInv
<1>a. /\ ChunkSize * timeouts \in Nat
      /\ ChunkSize * (timeouts + 1) = ChunkSize * timeouts + ChunkSize
  BY OneMoreChunk DEF Numbers
<1>b. ASSUME timeouts' \in {timeouts, timeouts + 1}
      PROVE  /\ ChunkSize * timeouts' \in Nat
             /\ ChunkSize * (timeouts' + 1) = ChunkSize * timeouts' + ChunkSize
             /\ ChunkSize * timeouts <= ChunkSize * timeouts'
             /\ timeouts' = timeouts + 1 => ChunkSize * timeouts' = ChunkSize * timeouts + ChunkSize
  <2>1. timeouts' \in Nat /\ timeouts \in Nat
    BY <1>b DEF Numbers
  <2>2. CASE timeouts' = timeouts
    BY <1>a, <2>1, <2>2, OneMoreChunk
  <2>3. CASE timeouts' = timeouts + 1
    BY <1>a, <2>1, <2>3, OneMoreChunk
  <2> QED
    BY <1>b, <2>2, <2>3
<1>1. CASE WhileTest
  <2>1. Flags'
    BY <1>1, Zenon DEF WhileTest, env, Flags
  <2>2. Numbers'
    BY <1>1 DEF WhileTest, env, flow, Numbers, Places, Limits
  <2>3. Limits'
    BY <1>1 DEF WhileTest, env, flow, Numbers, Limits
  <2>4. Bounded' /\ RefusedOnlyWhenStalled'
    BY <1>1, <1>a, <1>b DEF WhileTest, env, flow, Numbers, Limits, Bounded, Room, BufferBounded,
       RefusedOnlyWhenStalled
  <2>5. Prompt'
    BY <1>1 DEF WhileTest, env, Numbers, Prompt
  <2> QED
    BY <2>1, <2>2, <2>3, <2>4, <2>5
<1>2. CASE WaitTest
  <2>1. Flags'
    BY <1>2, Zenon DEF WaitTest, env, Flags
  <2>2. Numbers'
    BY <1>2 DEF WaitTest, AfterWait, KeepsWaiting, OverHigh, WithinLimit, Counted, env, flow, Numbers, Places, Limits
  <2>3. Limits'
    BY <1>2 DEF WaitTest, AfterWait, KeepsWaiting, OverHigh, WithinLimit, Counted, env, flow, Numbers, Limits
  <2>4. Bounded' /\ RefusedOnlyWhenStalled'
    BY <1>2, <1>a, <1>b DEF WaitTest, AfterWait, KeepsWaiting, OverHigh, WithinLimit, Counted, env, flow, Numbers, Limits, Bounded, Room, BufferBounded,
       RefusedOnlyWhenStalled
  <2>5. Prompt'
    BY <1>2 DEF WaitTest, AfterWait, KeepsWaiting, OverHigh, WithinLimit, Counted, env, Numbers, Prompt
  <2> QED
    BY <2>1, <2>2, <2>3, <2>4, <2>5
<1>3. CASE WaitSleeps
  <2>1. Flags'
    BY <1>3, Zenon DEF WaitSleeps, env, Flags
  <2>2. Numbers'
    BY <1>3 DEF WaitSleeps, AfterWait, CountedWait, env, flow, Numbers, Places, Limits
  <2>3. Limits'
    BY <1>3 DEF WaitSleeps, AfterWait, CountedWait, env, flow, Numbers, Limits
  <2>4. Bounded' /\ RefusedOnlyWhenStalled'
    BY <1>3, <1>a, <1>b DEF WaitSleeps, AfterWait, CountedWait, env, flow, Numbers, Limits, Bounded, Room, BufferBounded,
       RefusedOnlyWhenStalled
  <2>5. Prompt'
    BY <1>3 DEF WaitSleeps, AfterWait, CountedWait, env, Numbers, Prompt
  <2> QED
    BY <2>1, <2>2, <2>3, <2>4, <2>5
<1>4. CASE ReadChunk
  <2>1. Flags'
    BY <1>4, Zenon DEF ReadChunk, env, Flags
  <2>2. Numbers'
    BY <1>4 DEF ReadChunk, env, flow, Numbers, Places, Limits
  <2>3. Limits'
    BY <1>4 DEF ReadChunk, env, flow, Numbers, Limits
  <2>4. Bounded' /\ RefusedOnlyWhenStalled'
    BY <1>4, <1>a, <1>b DEF ReadChunk, env, flow, Numbers, Limits, Bounded, Room, BufferBounded,
       RefusedOnlyWhenStalled
  <2>5. Prompt'
    BY <1>4 DEF ReadChunk, env, Numbers, Prompt
  <2> QED
    BY <2>1, <2>2, <2>3, <2>4, <2>5
<1>5. CASE RetryTest
  <2>1. Flags'
    BY <1>5, Zenon DEF RetryTest, env, Flags
  <2>2. Numbers'
    BY <1>5 DEF RetryTest, MayRetry, env, flow, Numbers, Places, Limits
  <2>3. Limits'
    BY <1>5 DEF RetryTest, MayRetry, env, flow, Numbers, Limits
  <2>4. Bounded' /\ RefusedOnlyWhenStalled'
    BY <1>5, <1>a, <1>b DEF RetryTest, MayRetry, env, flow, Numbers, Limits, Bounded, Room, BufferBounded,
       RefusedOnlyWhenStalled
  <2>5. Prompt'
    BY <1>5 DEF RetryTest, MayRetry, env, Numbers, Prompt
  <2> QED
    BY <2>1, <2>2, <2>3, <2>4, <2>5
<1>6. CASE SendData
  <2>1. Flags'
    BY <1>6, Zenon DEF SendData, env, Flags
  <2>2. Numbers'
    BY <1>6, ChunkFits DEF SendData, Counted, env, flow, Numbers, Places, Limits
  <2>3. Limits'
    BY <1>6, ChunkFits DEF SendData, Counted, env, flow, Numbers, Limits
  <2>4. Bounded' /\ RefusedOnlyWhenStalled'
    BY <1>6, <1>a, <1>b, ChunkFits DEF SendData, Counted, env, flow, Numbers, Limits, Bounded, Room, BufferBounded,
       RefusedOnlyWhenStalled
  <2>5. Prompt'
    BY <1>6 DEF SendData, Counted, env, Numbers, Prompt
  <2> QED
    BY <2>1, <2>2, <2>3, <2>4, <2>5
<1>7. CASE BackoffSleeps
  <2>1. Flags'
    BY <1>7, Zenon DEF BackoffSleeps, env, Flags
  <2>2. Numbers'
    BY <1>7 DEF BackoffSleeps, env, flow, Numbers, Places, Limits
  <2>3. Limits'
    BY <1>7 DEF BackoffSleeps, env, flow, Numbers, Limits
  <2>4. Bounded' /\ RefusedOnlyWhenStalled'
    BY <1>7, <1>a, <1>b DEF BackoffSleeps, env, flow, Numbers, Limits, Bounded, Room, BufferBounded,
       RefusedOnlyWhenStalled
  <2>5. Prompt'
    BY <1>7 DEF BackoffSleeps, env, Numbers, Prompt
  <2> QED
    BY <2>1, <2>2, <2>3, <2>4, <2>5
<1>8. CASE CountChunk
  <2>1. Flags'
    BY <1>8, Zenon DEF CountChunk, env, Flags
  <2>2. Numbers'
    BY <1>8, ChunkFits DEF CountChunk, env, flow, Numbers, Places, Limits
  <2>3. Limits'
    BY <1>8, ChunkFits DEF CountChunk, env, flow, Numbers, Limits
  <2>4. Bounded' /\ RefusedOnlyWhenStalled'
    BY <1>8, <1>a, <1>b, ChunkFits DEF CountChunk, env, flow, Numbers, Limits, Bounded, Room, BufferBounded,
       RefusedOnlyWhenStalled
  <2>5. Prompt'
    BY <1>8 DEF CountChunk, env, Numbers, Prompt
  <2> QED
    BY <2>1, <2>2, <2>3, <2>4, <2>5
<1>9. CASE Drain
  <2>1. Flags'
    BY <1>9, Zenon DEF Drain, env, Flags
  <2>2. Numbers'
    BY <1>9 DEF Drain, env, flow, Numbers, Places, Limits
  <2>3. Limits'
    BY <1>9 DEF Drain, env, flow, Numbers, Limits
  <2>4. Bounded' /\ RefusedOnlyWhenStalled'
    BY <1>9, <1>a, <1>b DEF Drain, env, flow, Numbers, Limits, Bounded, Room, BufferBounded,
       RefusedOnlyWhenStalled
  <2>5. Prompt'
    BY <1>9 DEF Drain, env, Numbers, Prompt
  <2> QED
    BY <2>1, <2>2, <2>3, <2>4, <2>5
<1>10. CASE CancelFileTransfer
  <2>1. Flags'
    BY <1>10, Zenon DEF CancelFileTransfer, env, Flags
  <2>2. Numbers'
    BY <1>10 DEF CancelFileTransfer, env, flow, Numbers, Places, Limits
  <2>3. Limits'
    BY <1>10 DEF CancelFileTransfer, env, flow, Numbers, Limits
  <2>4. Bounded' /\ RefusedOnlyWhenStalled'
    BY <1>10, <1>a, <1>b DEF CancelFileTransfer, env, flow, Numbers, Limits, Bounded, Room, BufferBounded,
       RefusedOnlyWhenStalled
  <2>5. Prompt'
    BY <1>10 DEF CancelFileTransfer, env, Numbers, Prompt
  <2> QED
    BY <2>1, <2>2, <2>3, <2>4, <2>5
<1>11. CASE ChannelCloses
  <2>1. Flags'
    BY <1>11, Zenon DEF ChannelCloses, env, Flags
  <2>2. Numbers'
    BY <1>11 DEF ChannelCloses, env, flow, Numbers, Places, Limits
  <2>3. Limits'
    BY <1>11 DEF ChannelCloses, env, flow, Numbers, Limits
  <2>4. Bounded' /\ RefusedOnlyWhenStalled'
    BY <1>11, <1>a, <1>b DEF ChannelCloses, env, flow, Numbers, Limits, Bounded, Room, BufferBounded,
       RefusedOnlyWhenStalled
  <2>5. Prompt'
    BY <1>11 DEF ChannelCloses, env, Numbers, Prompt
  <2> QED
    BY <2>1, <2>2, <2>3, <2>4, <2>5
<1>12. CASE UNCHANGED vars
  BY <1>12 DEF vars, env, flow, Flags, Numbers, Limits, Bounded, Room, BufferBounded,
     RefusedOnlyWhenStalled, Prompt
<1> QED
  BY <1>1, <1>2, <1>3, <1>4, <1>5, <1>6, <1>7, <1>8, <1>9, <1>10, <1>11, <1>12 DEF Next, Loop

\* The conjunction of these is an invariant of the loop.
LEMMA IInvAlways == Spec => []IInv
BY IInvInit, IInvNext, PTL DEF Spec

\* Counters stay within the limits of 200 waits and 120 retries that the code
\* sets them, and the queue and the file never go below zero.
THEOREM TypeCorrect == Spec => []TypeOK
<1>1. IInv => TypeOK
  BY Zenon DEF IInv, Flags, Numbers, TypeOK
<1> QED
  BY <1>1, IInvAlways, PTL

\* For every watermark and chunk size, the queue of the data channel exceeds the
\* high watermark by at most a chunk and a chunk for every wait that gave up.
THEOREM QueueBounded == Spec => []BufferBounded
<1>1. IInv => BufferBounded
  BY DEF IInv, Bounded
<1> QED
  BY <1>1, IInvAlways, PTL

\* For every queue limit, sendData on an open channel is refused only after
\* enough waits have given up to fill the queue.
THEOREM RefusalsExplained == Spec => []RefusedOnlyWhenStalled
<1>1. IInv => RefusedOnlyWhenStalled
  BY DEF IInv
<1> QED
  BY <1>1, IInvAlways, PTL

\* Whenever the cancel comes, at most one more sendData is made.
THEOREM CancelIsPrompt == Spec => []CancelPrompt
<1>1. IInv => CancelPrompt
  BY DEF IInv, Prompt, CancelPrompt
<1> QED
  BY <1>1, IInvAlways, PTL
=============================================================================
