---------------------------- MODULE Backpressure ----------------------------
(***************************************************************************)
(* The flow control of startSendingLoop (RTCClient.m) for one transfer: the*)
(* wait on bufferedAmount before a chunk is read, and the retries of       *)
(* sendData after.  FileTransfer leaves both out, since they change none   *)
(* of its state; here they are all there is, and every test, sleep and     *)
(* sendData is a step of its own, between which the queue drains, the user *)
(* cancels or the channel closes.                                          *)
(*                                                                         *)
(* The data channel's queue is external: it refuses what would not fit     *)
(* (data_channel_interface.h, Send) and drains as SCTP pleases.            *)
(***************************************************************************)
EXTENDS Naturals

CONSTANTS High, Low,      \* kBufferedAmountHighWatermark, kBufferedAmountLowWatermark
          ChunkSize,      \* RTCClient.chunkSize
          TotalBytes,     \* sendTotalBytes
          MaxSendQueue,   \* DataChannelInterface::MaxSendQueueSize()
          WaitLimit,      \* 200: tests of bufferedAmount before a chunk is read anyway
          RetryLimit      \* 120: calls of sendData before the transfer fails

ASSUME WatermarksAssumption == High \in Nat /\ Low \in 0..High /\ MaxSendQueue \in Nat
ASSUME SizesAssumption == ChunkSize \in Nat \ {0} /\ TotalBytes \in Nat \ {0}
ASSUME LimitsAssumption == WaitLimit \in Nat \ {0} /\ RetryLimit \in Nat \ {0}

VARIABLES
    pc,                      \* the file queue's place in the loop
    bufferedAmount, readyOpen,     \* of the data channel
    transferCancelled, sendBytesSent,
    backpressureWaitIters, retries,
    \* history
    timeouts,                \* waits that ended at WaitLimit
    late                     \* sleeps and sends begun after the cancel

flow == <<backpressureWaitIters, retries>>
env  == <<readyOpen, transferCancelled>>
vars == <<pc, bufferedAmount, env, sendBytesSent, flow, timeouts, late>>

Places == {"while", "wait", "asleep", "read", "retry", "send", "backoff", "count", "end", "failed"}

TypeOK ==
    /\ pc \in Places
    /\ bufferedAmount \in Nat /\ sendBytesSent \in Nat
    /\ readyOpen \in BOOLEAN /\ transferCancelled \in BOOLEAN
    /\ backpressureWaitIters \in 0..WaitLimit /\ retries \in 0..RetryLimit
    /\ timeouts \in Nat /\ late \in Nat

Init ==
    /\ pc = "while"
    /\ bufferedAmount = 0 /\ sendBytesSent = 0
    /\ readyOpen = TRUE /\ transferCancelled = FALSE
    /\ backpressureWaitIters = 0 /\ retries = 0
    /\ timeouts = 0 /\ late = 0
-----------------------------------------------------------------------------
(* The loop.                                                               *)

\* A sleep or a send begins.
Counted == late' = IF transferCancelled THEN late + 1 ELSE late

WhileTest ==
    /\ pc = "while"
    /\ pc' = IF ~transferCancelled /\ sendBytesSent < TotalBytes THEN "wait" ELSE "end"
    /\ backpressureWaitIters' = 0
    /\ UNCHANGED <<bufferedAmount, env, sendBytesSent, retries, timeouts, late>>

Unlimited(iters) == TRUE     \* mutant: no limit

WithinLimit(iters) == iters < WaitLimit

NoHigh == FALSE              \* mutant: the queue is not looked at

OverHigh == bufferedAmount > High

\* The condition of the inner while.
KeepsWaiting ==
    /\ ~transferCancelled
    /\ readyOpen
    /\ OverHigh
    /\ WithinLimit(backpressureWaitIters)

\* Where the loop goes on when the wait is over.
AfterWait == IF readyOpen THEN "read" ELSE "failed"

WaitTest ==
    /\ pc = "wait"
    /\ IF KeepsWaiting
       THEN pc' = "asleep" /\ Counted /\ UNCHANGED timeouts
       ELSE /\ pc' = AfterWait
            /\ timeouts' = IF OverHigh /\ backpressureWaitIters = WaitLimit
                           THEN timeouts + 1 ELSE timeouts
            /\ UNCHANGED late
    /\ UNCHANGED <<bufferedAmount, env, sendBytesSent, flow>>

NotCounted(iters) == iters   \* mutant: the sleeps of a wait are not counted

CountedWait(iters) == iters + 1

WaitSleeps ==
    /\ pc = "asleep"
    /\ backpressureWaitIters' = CountedWait(backpressureWaitIters)
    /\ pc' = IF bufferedAmount <= Low THEN AfterWait ELSE "wait"
    /\ UNCHANGED <<bufferedAmount, env, sendBytesSent, retries, timeouts, late>>

\* readDataUpToLength: a chunk, or nothing because of an error.
ReadChunk ==
    /\ pc = "read"
    /\ pc' \in {"retry", "end"}
    /\ retries' = 0
    /\ UNCHANGED <<bufferedAmount, env, sendBytesSent, backpressureWaitIters, timeouts, late>>

\* mutant: the retry loop goes on after a cancel
MayRetryCancelled == retries < RetryLimit /\ readyOpen

\* The condition of the retry loop and the test it begins with.
MayRetry == retries < RetryLimit /\ ~transferCancelled /\ readyOpen

RetryTest ==
    /\ pc = "retry"
    /\ pc' = IF MayRetry THEN "send" ELSE "failed"
    /\ UNCHANGED <<bufferedAmount, env, sendBytesSent, flow, timeouts, late>>

ChunkLen ==
    IF TotalBytes - sendBytesSent < ChunkSize THEN TotalBytes - sendBytesSent ELSE ChunkSize

\* sendData, and the sleep after a refusal.
SendData ==
    /\ pc = "send"
    /\ Counted
    /\ IF readyOpen /\ bufferedAmount + ChunkLen <= MaxSendQueue
       THEN /\ bufferedAmount' = bufferedAmount + ChunkLen
            /\ pc' = "count"
            /\ UNCHANGED retries
       ELSE /\ pc' = "backoff"
            /\ retries' = retries + 1
            /\ UNCHANGED bufferedAmount
    /\ UNCHANGED <<env, sendBytesSent, backpressureWaitIters, timeouts>>

BackoffSleeps ==
    /\ pc = "backoff"
    /\ pc' = "retry"
    /\ UNCHANGED <<bufferedAmount, env, sendBytesSent, flow, timeouts, late>>

CountChunk ==
    /\ pc = "count"
    /\ sendBytesSent' = sendBytesSent + ChunkLen
    /\ pc' = "while"
    /\ UNCHANGED <<bufferedAmount, env, flow, timeouts, late>>

Loop ==
    \/ WhileTest \/ WaitTest \/ WaitSleeps \/ ReadChunk
    \/ RetryTest \/ SendData \/ BackoffSleeps \/ CountChunk
-----------------------------------------------------------------------------
(* Meanwhile.                                                              *)

Drain ==
    /\ readyOpen
    /\ bufferedAmount > 0
    /\ bufferedAmount' \in 0..(bufferedAmount - 1)
    /\ UNCHANGED <<pc, env, sendBytesSent, flow, timeouts, late>>

CancelFileTransfer ==
    /\ ~transferCancelled
    /\ transferCancelled' = TRUE
    /\ UNCHANGED <<pc, bufferedAmount, readyOpen, sendBytesSent, flow, timeouts, late>>

ChannelCloses ==
    /\ readyOpen
    /\ readyOpen' = FALSE
    /\ UNCHANGED <<pc, bufferedAmount, transferCancelled, sendBytesSent, flow, timeouts, late>>

Next == Loop \/ Drain \/ CancelFileTransfer \/ ChannelCloses

Spec == Init /\ [][Next]_vars

\* The file queue's thread runs; the network need not drain.
FairSpec == Spec /\ WF_vars(Loop)
-----------------------------------------------------------------------------
(* Properties.                                                             *)

\* However the drain, the waits and the retries interleave, the queue holds at
\* most one chunk more than the high watermark, and one more for every wait that
\* gave up.
BufferBounded == bufferedAmount <= High + ChunkSize * (timeouts + 1)

\* An open channel refuses a chunk, and the retry loop of 717 comes into play,
\* only after as many waits have given up as fill the queue from the watermark.
RefusedOnlyWhenStalled ==
    retries > 0 /\ readyOpen => High + ChunkSize * (timeouts + 1) > MaxSendQueue

\* A cancel takes hold wherever the loop is, in a wait of 200 sleeps or of 120
\* retries: at most one more round of either begins after it.
CancelPrompt == late <= 1

\* The loop ends even if nothing ever drains and nobody cancels.
LoopEnds == <>(pc \in {"end", "failed"})
=============================================================================
