----------------------- MODULE StatePersistence_proofs -----------------------
(***************************************************************************)
(* Proofs about StatePersistence, for every bound and every switch.        *)
(***************************************************************************)
EXTENDS StatePersistence, TLAPS

-----------------------------------------------------------------------------
(* Type correctness.                                                       *)

LEMMA InitTypeOK == Init => TypeOK
<1> SUFFICES ASSUME Init PROVE TypeOK
  OBVIOUS
<1>1. upTo \in [Ids -> Nat]
  BY DEF Init
<1>2. 0 \in 0..MaxTransientRetries
  BY BoundsAssumption
<1>3. /\ toWorker \in Seq(Requests) /\ toMain \in Seq(Responses)
      /\ writeQueue \in Seq(Nat) /\ batch \in Seq(Nat)
      /\ pendingFlushIds \in Seq(Ids) /\ durable \in Seq(Nat)
  BY DEF Init
<1> QED
  BY <1>1, <1>2, <1>3 DEF Init, TypeOK

LEMMA NextTypeOK == TypeOK /\ [Next]_vars => TypeOK'
<1> SUFFICES ASSUME TypeOK, [Next]_vars PROVE TypeOK'
  OBVIOUS
<1> USE BoundsAssumption, SwitchesAssumption
<1>1. CASE EnqueueWorkerWrite
  <2>1. Run(issued + 1) \in Requests
    BY DEF Run, Requests, TypeOK
  <2>2. toWorker' \in Seq(Requests)
    BY <1>1, <2>1 DEF EnqueueWorkerWrite, Post, TypeOK
  <2>3. poison' \subseteq Nat
    BY <1>1 DEF EnqueueWorkerWrite, TypeOK
  <2> QED
    BY <1>1, <2>2, <2>3
    DEF EnqueueWorkerWrite, TypeOK, workerVars
<1>2. CASE Flush
  <2>1. FlushMsg(msgSeq + 1, issued) \in Requests
    BY <1>2 DEF Flush, FlushMsg, Requests, TypeOK
  <2>2. toWorker' \in Seq(Requests)
    BY <1>2, <2>1 DEF Flush, Post, TypeOK
  <2> QED
    BY <1>2, <2>2 DEF Flush, TypeOK, workerVars
<1>3. CASE RequestShutdown
  <2>1. ShutdownMsg(msgSeq + 1, issued) \in Requests
    BY <1>3 DEF RequestShutdown, ShutdownMsg, Requests, TypeOK
  <2>2. toWorker' \in Seq(Requests)
    BY <1>3, <2>1 DEF RequestShutdown, Post, TypeOK
  <2> QED
    BY <1>3, <2>2 DEF RequestShutdown, TypeOK, workerVars, historyVars
<1>4. CASE OnFlushComplete
  <2>1. Head(toMain) \in Responses /\ toMain' \in Seq(Responses)
    BY <1>4 DEF OnFlushComplete, TypeOK
  <2>2. Head(toMain).id \in Ids
    BY <2>1 DEF Responses
  <2> QED
    BY <1>4, <2>1, <2>2 DEF OnFlushComplete, TypeOK, workerVars
<1>5. CASE OnShutdownComplete
  <2>1. toMain' \in Seq(Responses)
    BY <1>5 DEF OnShutdownComplete, TypeOK
  <2> QED
    BY <1>5, <2>1 DEF OnShutdownComplete, TypeOK, workerVars
<1>6. CASE OnWorkerError
  BY <1>6 DEF OnWorkerError, TypeOK, workerVars, historyVars
<1>7. CASE ReceiveRun
  <2>1. Head(toWorker) \in Requests /\ toWorker' \in Seq(Requests)
    BY <1>7 DEF ReceiveRun, Receive, TypeOK
  <2>2. Head(toWorker).n \in Nat
    BY <2>1 DEF Requests
  <2> QED
    BY <1>7, <2>1, <2>2 DEF ReceiveRun, TypeOK, mainVars, historyVars
<1>8. CASE ReceiveFlush
  <2>1. Head(toWorker) \in Requests /\ toWorker' \in Seq(Requests)
    BY <1>8 DEF ReceiveFlush, Receive, TypeOK
  <2>2. Head(toWorker).id \in Ids
    BY <1>8, <2>1 DEF ReceiveFlush, Receive, Requests
  <2> QED
    BY <1>8, <2>1, <2>2 DEF ReceiveFlush, TypeOK, mainVars, historyVars
<1>9. CASE ReceiveShutdown
  <2>1. Head(toWorker) \in Requests /\ toWorker' \in Seq(Requests)
    BY <1>9 DEF ReceiveShutdown, Receive, TypeOK
  <2>2. Head(toWorker).id \in Ids
    BY <1>9, <2>1 DEF ReceiveShutdown, Receive, Requests
  <2> QED
    BY <1>9, <2>1, <2>2 DEF ReceiveShutdown, TypeOK, mainVars, historyVars
<1>10. CASE TimerTick
  BY <1>10 DEF TimerTick, TypeOK, mainVars, historyVars
<1>11. CASE TakeBatch
  BY <1>11 DEF TakeBatch, LeftBehind, TypeOK, mainVars, historyVars
<1>12. CASE EndFlush
  <2> DEFINE acks == [i \in 1..Len(pendingFlushIds)
                        |-> Complete(pendingFlushIds[i])]
             last == IF closing = 0 THEN << >> ELSE <<ShutdownComplete(closing)>>
  <2>1. acks \in Seq(Responses)
    <3>1. \A i \in 1..Len(pendingFlushIds) :
            Complete(pendingFlushIds[i]) \in Responses
      BY DEF TypeOK, Complete, Responses
    <3>2. Len(pendingFlushIds) \in Nat
      BY DEF TypeOK
    <3> QED
      BY <3>1, <3>2
  <2>2. last \in Seq(Responses)
    <3>1. closing # 0 => ShutdownComplete(closing) \in Responses
      BY DEF TypeOK, ShutdownComplete, Responses
    <3> QED
      BY <3>1
  <2>3. toMain' = (toMain \o acks) \o last
    BY <1>12 DEF EndFlush
  <2>4. toMain' \in Seq(Responses)
    <3> HIDE DEF acks, last
    <3> QED
      BY <2>1, <2>2, <2>3 DEF TypeOK
  <2> QED
    BY <1>12, <2>4 DEF EndFlush, TypeOK, mainVars, historyVars
<1>13. CASE CommitBatch
  <2>1. durable' \in Seq(Nat) /\ batch' \in Seq(Nat) /\ settled' \in Nat
    BY <1>13 DEF CommitBatch, TypeOK
  <2>2. transientRetries' \in 0..MaxTransientRetries
    BY <1>13 DEF CommitBatch
  <2> QED
    BY <1>13, <2>1, <2>2 DEF CommitBatch, TypeOK, mainVars
<1>14. CASE RequeueBatch
  <2>1. writeQueue' \in Seq(Nat) /\ batch' \in Seq(Nat)
    BY <1>14 DEF RequeueBatch, Unshifted, TypeOK
  <2>2. transientRetries' \in 0..MaxTransientRetries
    BY <1>14 DEF RequeueBatch, RetriesLeft, TypeOK
  <2> QED
    BY <1>14, <2>1, <2>2 DEF RequeueBatch, TypeOK, mainVars, historyVars
<1>15. CASE StartReplay
  <2>1. transientRetries' \in 0..MaxTransientRetries
    BY <1>15 DEF StartReplay
  <2> QED
    BY <1>15, <2>1 DEF StartReplay, TypeOK, mainVars, historyVars
<1>16. CASE ReplayWrite
  <2>1. Head(batch) \in Nat /\ batch' \in Seq(Nat)
    BY <1>16 DEF ReplayWrite, TypeOK
  <2>2. durable' \in Seq(Nat)
    <3>1. Append(durable, Head(batch)) \in Seq(Nat) /\ durable \in Seq(Nat)
      BY <2>1 DEF TypeOK
    <3> QED
      BY <1>16, <3>1 DEF ReplayWrite
  <2>3. dropped' \subseteq Nat
    <3>1. dropped \cup {Head(batch)} \subseteq Nat /\ dropped \subseteq Nat
      BY <2>1 DEF TypeOK
    <3> QED
      BY <1>16, <3>1 DEF ReplayWrite
  <2>4. settled' \in Nat
    BY <1>16 DEF ReplayWrite, TypeOK
  <2> QED
    BY <1>16, <2>1, <2>2, <2>3, <2>4 DEF ReplayWrite, TypeOK, mainVars
<1>17. CASE EndReplay
  BY <1>17 DEF EndReplay, TypeOK, mainVars, historyVars
<1>18. CASE WorkerDies
  <2>1. /\ << >> \in Seq(Requests) /\ << >> \in Seq(Nat) /\ << >> \in Seq(Ids)
    OBVIOUS
  <2> QED
    BY <1>18, <2>1 DEF WorkerDies, TypeOK, mainVars, historyVars
<1>19. CASE CrashAndRestart
  <2>1. /\ << >> \in Seq(Requests) /\ << >> \in Seq(Nat) /\ << >> \in Seq(Ids)
        /\ << >> \in Seq(Responses)
    OBVIOUS
  <2>2. upTo' \in [Ids -> Nat] /\ lost' \subseteq Nat
    BY <1>19 DEF CrashAndRestart, TypeOK
  <2>3. 0 \in 0..MaxTransientRetries /\ crashes' \in Nat
    BY <1>19 DEF CrashAndRestart, TypeOK
  <2>4. /\ toWorker' \in Seq(Requests) /\ toMain' \in Seq(Responses)
        /\ writeQueue' \in Seq(Nat) /\ batch' \in Seq(Nat)
        /\ pendingFlushIds' \in Seq(Ids) /\ durable' \in Seq(Nat)
    BY <1>19, <2>1 DEF CrashAndRestart, TypeOK
  <2> QED
    BY <1>19, <2>2, <2>3, <2>4 DEF CrashAndRestart, TypeOK
<1>20. CASE UNCHANGED vars
  BY <1>20 DEF vars, mainVars, workerVars, historyVars, TypeOK
<1> QED
  BY <1>1, <1>2, <1>3, <1>4, <1>5, <1>6, <1>7, <1>8, <1>9, <1>10, <1>11,
     <1>12, <1>13, <1>14, <1>15, <1>16, <1>17, <1>18, <1>19, <1>20
  DEF Next, MainHandles, FlushStep

(* The retry counter stays under its cap and every queue holds what it     *)
(* should, in every behaviour of the persistence layer.                    *)
THEOREM TypeCorrect == Spec => []TypeOK
  BY InitTypeOK, NextTypeOK, PTL DEF Spec

-----------------------------------------------------------------------------
(* The writes on their way: queues, channel, phases.                       *)

WritesInOrder == QueuesInOrder /\ ChannelInOrder /\ FlushPhases

(* A message posted behind the others continues their numbering.           *)
LEMMA PostKeepsOrder ==
  ASSUME TypeOK, ChannelInOrder, NEW m \in Requests, Post(m),
         UNCHANGED <<worker, settled, batch, writeQueue>>,
         m.n = issued', issued' = issued + (IF m.type = "run" THEN 1 ELSE 0)
  PROVE  ChannelInOrder'
<1>1. CASE ~Alive
  BY <1>1 DEF ChannelInOrder, Alive
<1>2. CASE Alive
  <2>1. toWorker' = Append(toWorker, m) /\ Received' = Received
    BY <1>2 DEF Post, Received
  <2>2. toWorker \in Seq(Requests) /\ Len(toWorker) \in Nat
    BY DEF TypeOK
  <2>3. Len(toWorker') = Len(toWorker) + 1 /\ toWorker'[Len(toWorker) + 1] = m
    BY <2>1, <2>2
  <2>4. \A i \in 1..Len(toWorker) : toWorker'[i] = toWorker[i]
    BY <2>1, <2>2
  <2>5. issued' = toWorker'[Len(toWorker')].n /\ toWorker' # << >>
    BY <2>1, <2>2, <2>3
  <2>6. \A i \in 1..Len(toWorker') :
          toWorker'[i].n = (IF i = 1 THEN Received' ELSE toWorker'[i - 1].n)
                           + (IF toWorker'[i].type = "run" THEN 1 ELSE 0)
    <3> SUFFICES ASSUME NEW i \in 1..Len(toWorker')
                 PROVE toWorker'[i].n
                         = (IF i = 1 THEN Received' ELSE toWorker'[i - 1].n)
                           + (IF toWorker'[i].type = "run" THEN 1 ELSE 0)
      OBVIOUS
    <3>1. CASE i \in 1..Len(toWorker)
      <4>1. i # 1 => i - 1 \in 1..Len(toWorker)
        BY <3>1, <2>2
      <4> QED
        BY <1>2, <3>1, <4>1, <2>1, <2>4 DEF ChannelInOrder
    <3>2. CASE i = Len(toWorker) + 1
      <4>1. issued = IF toWorker = << >> THEN Received
                     ELSE toWorker[Len(toWorker)].n
        BY <1>2 DEF ChannelInOrder
      <4>2. toWorker = << >> <=> Len(toWorker) = 0
        BY <2>2
      <4>3. i # 1 => toWorker'[i - 1] = toWorker[Len(toWorker)]
        BY <3>2, <2>2, <2>4
      <4>4. IF i = 1 THEN issued = Received' ELSE issued = toWorker'[i - 1].n
        BY <2>1, <2>2, <3>2, <4>1, <4>2, <4>3
      <4> QED
        BY <2>3, <3>2, <4>4
    <3> QED
      BY <2>2, <2>3, <3>1, <3>2
  <2>7. Received' <= issued' /\ issued <= issued'
    BY <1>2, <2>1 DEF ChannelInOrder, TypeOK, Received
  <2>8. \A i \in 1..Len(toWorker') : toWorker'[i].n <= issued'
    <3>1. \A i \in 1..Len(toWorker) : toWorker[i].n <= issued /\ toWorker[i].n \in Nat
      BY <1>2, <2>2 DEF ChannelInOrder, Requests
    <3>2. m.n <= issued' /\ issued \in Nat /\ issued' \in Nat
      BY DEF TypeOK
    <3> SUFFICES ASSUME NEW i \in 1..Len(toWorker')
                 PROVE toWorker'[i].n <= issued'
      OBVIOUS
    <3>3. i \in 1..Len(toWorker) \/ i = Len(toWorker) + 1
      BY <2>2, <2>3
    <3> QED
      BY <2>3, <2>4, <2>7, <3>1, <3>2, <3>3
  <2> QED
    BY <2>5, <2>6, <2>7, <2>8 DEF ChannelInOrder
<1> QED
  BY <1>1, <1>2

(* Taking the first message moves its writes into the worker.              *)
LEMMA ReceiveKeepsOrder ==
  ASSUME TypeOK, ChannelInOrder, NEW type, Receive(type), issued' = issued,
         Received' = Head(toWorker).n
  PROVE  ChannelInOrder'
<1>1. /\ toWorker \in Seq(Requests) /\ Len(toWorker) \in Nat /\ Len(toWorker) > 0
      /\ toWorker' = Tail(toWorker) /\ Alive
  BY DEF TypeOK, Receive, Alive
<1>2. /\ Len(toWorker') = Len(toWorker) - 1
      /\ \A i \in 1..Len(toWorker') : toWorker'[i] = toWorker[i + 1]
      /\ Received' = toWorker[1].n
  BY <1>1
<1>3. \A i \in 1..Len(toWorker') :
        toWorker'[i].n = (IF i = 1 THEN Received' ELSE toWorker'[i - 1].n)
                         + (IF toWorker'[i].type = "run" THEN 1 ELSE 0)
  <2> SUFFICES ASSUME NEW i \in 1..Len(toWorker')
               PROVE toWorker'[i].n
                       = (IF i = 1 THEN Received' ELSE toWorker'[i - 1].n)
                         + (IF toWorker'[i].type = "run" THEN 1 ELSE 0)
    OBVIOUS
  <2>1. i + 1 \in 1..Len(toWorker) /\ i + 1 # 1 /\ (i + 1) - 1 = i
    BY <1>1, <1>2
  <2>2. toWorker[i + 1].n
          = toWorker[i].n + (IF toWorker[i + 1].type = "run" THEN 1 ELSE 0)
    BY <1>1, <2>1 DEF ChannelInOrder
  <2>3. i # 1 => toWorker'[i - 1] = toWorker[i]
    BY <1>1, <1>2
  <2> QED
    BY <1>2, <2>2, <2>3
<1>4. issued' = IF toWorker' = << >> THEN Received'
                ELSE toWorker'[Len(toWorker')].n
  <2>1. issued = toWorker[Len(toWorker)].n
    BY <1>1 DEF ChannelInOrder
  <2>2. toWorker' \in Seq(Requests)
    BY <1>1
  <2>3. toWorker' = << >> <=> Len(toWorker') = 0
    BY <2>2
  <2> QED
    BY <1>1, <1>2, <2>1, <2>3
<1>5. Received' <= issued'
      /\ \A i \in 1..Len(toWorker') : toWorker'[i].n <= issued'
  BY <1>1, <1>2 DEF ChannelInOrder
<1> QED
  BY <1>3, <1>4, <1>5 DEF ChannelInOrder

LEMMA InitWrites == Init => WritesInOrder
  BY DEF Init, WritesInOrder, QueuesInOrder, ChannelInOrder, FlushPhases, Received

LEMMA NextWrites == TypeOK /\ WritesInOrder /\ [Next]_vars => WritesInOrder'
<1> SUFFICES ASSUME TypeOK, WritesInOrder, [Next]_vars PROVE WritesInOrder'
  OBVIOUS
<1> USE DEF WritesInOrder
<1>t. TypeOK'
  BY NextTypeOK
<1>l. /\ Len(batch) \in Nat /\ Len(writeQueue) \in Nat /\ Len(toWorker) \in Nat
      /\ settled \in Nat /\ issued \in Nat
      /\ batch \in Seq(Nat) /\ writeQueue \in Seq(Nat)
  BY DEF TypeOK
<1>1. CASE EnqueueWorkerWrite
  <2>1. Run(issued + 1) \in Requests /\ Run(issued + 1).type = "run"
        /\ Run(issued + 1).n = issued + 1
    BY <1>l DEF Run, Requests
  <2>2. ChannelInOrder'
    BY <1>1, <1>l, <2>1, PostKeepsOrder DEF EnqueueWorkerWrite, workerVars
  <2> QED
    BY <1>1, <1>l, <2>2
    DEF EnqueueWorkerWrite, workerVars, QueuesInOrder, FlushPhases, Alive
<1>2. CASE Flush
  <2>1. FlushMsg(msgSeq + 1, issued) \in Requests
        /\ FlushMsg(msgSeq + 1, issued).type = "flush"
        /\ FlushMsg(msgSeq + 1, issued).n = issued
    BY <1>2, <1>l DEF FlushMsg, Requests, Flush
  <2>2. ChannelInOrder'
    BY <1>2, <1>l, <2>1, PostKeepsOrder DEF Flush, workerVars
  <2> QED
    BY <1>2, <2>2 DEF Flush, workerVars, QueuesInOrder, FlushPhases, Alive
<1>3. CASE RequestShutdown
  <2>1. ShutdownMsg(msgSeq + 1, issued) \in Requests
        /\ ShutdownMsg(msgSeq + 1, issued).type = "shutdown"
        /\ ShutdownMsg(msgSeq + 1, issued).n = issued
    BY <1>3, <1>l DEF ShutdownMsg, Requests, RequestShutdown
  <2>2. ChannelInOrder'
    BY <1>3, <1>l, <2>1, PostKeepsOrder DEF RequestShutdown, workerVars, historyVars
  <2> QED
    BY <1>3, <2>2
    DEF RequestShutdown, workerVars, historyVars, QueuesInOrder, FlushPhases, Alive
<1>4. CASE OnFlushComplete \/ OnShutdownComplete \/ OnWorkerError
  BY <1>4 DEF OnFlushComplete, OnShutdownComplete, OnWorkerError, workerVars,
     historyVars, QueuesInOrder, ChannelInOrder, FlushPhases, Alive, Received
<1>h. ASSUME NEW type, Receive(type)
      PROVE /\ Head(toWorker).n = Received + (IF type = "run" THEN 1 ELSE 0)
            /\ Alive /\ batch = << >>
  <2>1. toWorker \in Seq(Requests) /\ Len(toWorker) > 0 /\ Alive
        /\ Head(toWorker) = toWorker[1] /\ 1 \in 1..Len(toWorker)
    BY <1>h DEF TypeOK, Receive, Alive
  <2>2. toWorker[1].n = Received + (IF toWorker[1].type = "run" THEN 1 ELSE 0)
    BY <2>1 DEF ChannelInOrder
  <2> QED
    BY <1>h, <2>1, <2>2 DEF Receive, FlushPhases
<1>5. CASE ReceiveRun
  <2> DEFINE w == Head(toWorker).n
  <2>1. w = Received + 1 /\ Alive /\ batch = << >>
    BY <1>5, <1>h DEF ReceiveRun
  <2>2. w \in Nat
    BY <1>l, <2>1 DEF Received
  <2> HIDE DEF w
  <2>3. writeQueue' = Append(writeQueue, w) /\ UNCHANGED <<batch, settled, worker, issued>>
    BY <1>5 DEF ReceiveRun, w, historyVars, mainVars
  <2>4. /\ Len(writeQueue') = Len(writeQueue) + 1
        /\ writeQueue'[Len(writeQueue) + 1] = w
        /\ \A i \in 1..Len(writeQueue) : writeQueue'[i] = writeQueue[i]
    BY <1>l, <2>2, <2>3
  <2>5. Received' = w
    BY <1>l, <2>1, <2>3, <2>4 DEF Received
  <2>6. ChannelInOrder'
    BY <1>5, <2>3, <2>5, ReceiveKeepsOrder DEF ReceiveRun, w
  <2>7. QueuesInOrder'
    <3>1. \A i \in 1..Len(writeQueue') :
            writeQueue'[i] = settled' + Len(batch') + i
      BY <1>l, <2>1, <2>3, <2>4 DEF QueuesInOrder, Received
    <3> QED
      BY <2>1, <2>3, <3>1 DEF QueuesInOrder, Alive
  <2>8. FlushPhases'
    BY <1>5, <2>3 DEF ReceiveRun, Receive, FlushPhases
  <2> QED
    BY <2>6, <2>7, <2>8
<1>6. CASE ReceiveFlush \/ ReceiveShutdown
  <2>1. PICK type \in {"flush", "shutdown"} : Receive(type)
    BY <1>6 DEF ReceiveFlush, ReceiveShutdown
  <2>2. UNCHANGED <<batch, writeQueue, settled, issued>> /\ worker' = "flush"
    BY <1>6 DEF ReceiveFlush, ReceiveShutdown, mainVars, historyVars
  <2>3. Received' = Head(toWorker).n /\ Alive /\ batch = << >>
    BY <1>h, <1>l, <2>1, <2>2 DEF Received
  <2>4. ChannelInOrder'
    BY <2>1, <2>2, <2>3, ReceiveKeepsOrder
  <2> QED
    BY <2>2, <2>3, <2>4 DEF QueuesInOrder, FlushPhases, Alive
<1>7. CASE TimerTick
  BY <1>7 DEF TimerTick, mainVars, historyVars, QueuesInOrder, ChannelInOrder,
     FlushPhases, Alive, Received
<1>8. CASE TakeBatch
  <2>1. /\ worker = "flush" /\ worker' = "attempt" /\ batch = << >>
        /\ batch' = writeQueue /\ writeQueue' = << >>
        /\ UNCHANGED <<toWorker, settled, issued>>
    BY <1>8 DEF TakeBatch, LeftBehind, FlushPhases, mainVars, historyVars
  <2>2. Len(batch) = 0 /\ Len(writeQueue') = 0 /\ Received' = Received
    BY <1>l, <2>1 DEF Received
  <2>3. QueuesInOrder'
    BY <1>l, <2>1, <2>2 DEF QueuesInOrder, Alive
  <2> QED
    BY <2>1, <2>2, <2>3 DEF ChannelInOrder, FlushPhases, Alive
<1>9. CASE EndFlush
  BY <1>9 DEF EndFlush, NothingQueued, mainVars, historyVars, QueuesInOrder,
     ChannelInOrder, FlushPhases, Alive, Received
<1>10. CASE CommitBatch
  <2>1. /\ worker = "attempt" /\ worker' = "flush" /\ writeQueue = << >>
        /\ batch' = << >> /\ settled' = settled + Len(batch)
        /\ UNCHANGED <<toWorker, writeQueue, issued>>
    BY <1>10 DEF CommitBatch, FlushPhases, mainVars
  <2>2. Len(batch') = 0 /\ Len(writeQueue) = 0 /\ Received' = Received
    BY <1>l, <2>1 DEF Received
  <2>3. settled' <= issued'
    BY <1>l, <2>1, <2>2 DEF ChannelInOrder, Received, Alive
  <2> QED
    BY <1>l, <2>1, <2>2, <2>3 DEF QueuesInOrder, ChannelInOrder, FlushPhases, Alive
<1>11. CASE RequeueBatch
  <2>1. /\ worker = "attempt" /\ worker' = "flush" /\ writeQueue = << >>
        /\ batch' = << >> /\ writeQueue' = batch \o writeQueue
        /\ UNCHANGED <<toWorker, settled, issued>>
    BY <1>11 DEF RequeueBatch, Unshifted, FlushPhases, mainVars, historyVars
  <2>2. Len(batch') = 0 /\ writeQueue' = batch /\ Received' = Received
    BY <1>l, <2>1 DEF Received
  <2> QED
    BY <1>l, <2>1, <2>2 DEF QueuesInOrder, ChannelInOrder, FlushPhases, Alive
<1>12. CASE StartReplay
  BY <1>12 DEF StartReplay, mainVars, historyVars, QueuesInOrder,
     ChannelInOrder, FlushPhases, Alive, Received
<1>13. CASE ReplayWrite
  <2>1. /\ worker = "replay" /\ writeQueue = << >> /\ batch # << >>
        /\ batch' = Tail(batch) /\ settled' = settled + 1
        /\ UNCHANGED <<toWorker, worker, writeQueue, issued>>
    BY <1>13 DEF ReplayWrite, FlushPhases, mainVars
  <2>2. /\ Len(batch) > 0 /\ Len(batch') = Len(batch) - 1
        /\ \A i \in 1..Len(batch') : batch'[i] = batch[i + 1]
    BY <1>l, <2>1
  <2>3. Received' = Received /\ Len(writeQueue) = 0
    BY <1>l, <2>1, <2>2 DEF Received
  <2>4. QueuesInOrder'
    BY <1>l, <2>1, <2>2, <2>3 DEF QueuesInOrder, Alive
  <2>5. ChannelInOrder'
    BY <2>1, <2>3 DEF ChannelInOrder, Alive
  <2>6. settled' <= issued'
    BY <1>l, <2>1, <2>2, <2>3 DEF ChannelInOrder, Received, Alive
  <2> QED
    BY <2>1, <2>4, <2>5, <2>6 DEF FlushPhases
<1>14. CASE EndReplay
  BY <1>14 DEF EndReplay, mainVars, historyVars, QueuesInOrder,
     ChannelInOrder, FlushPhases, Alive, Received
<1>15. CASE WorkerDies
  BY <1>15 DEF WorkerDies, mainVars, historyVars, QueuesInOrder,
     ChannelInOrder, FlushPhases, Alive
<1>16. CASE CrashAndRestart
  <2>1. /\ toWorker' = << >> /\ batch' = << >> /\ writeQueue' = << >>
        /\ worker' = "idle" /\ settled' = issued /\ issued' = issued
    BY <1>16 DEF CrashAndRestart
  <2>2. Received' = issued
    BY <1>l, <2>1 DEF Received
  <2> QED
    BY <1>l, <2>1, <2>2 DEF QueuesInOrder, ChannelInOrder, FlushPhases
<1>17. CASE UNCHANGED vars
  BY <1>17 DEF vars, mainVars, workerVars, historyVars, QueuesInOrder,
     ChannelInOrder, FlushPhases, Alive, Received
<1> QED
  BY <1>1, <1>2, <1>3, <1>4, <1>5, <1>6, <1>7, <1>8, <1>9, <1>10, <1>11,
     <1>12, <1>13, <1>14, <1>15, <1>16, <1>17
  DEF Next, MainHandles, FlushStep

-----------------------------------------------------------------------------
(* The fate of each write and the order of the commits.                    *)

Fates == OneFate /\ CommitOrder

(* Appending the next writes in order keeps the fates apart.               *)
LEMMA AppendKeepsFates ==
  ASSUME TypeOK, Fates, NEW new \in Seq(Nat), durable' = durable \o new,
         \A i \in 1..Len(new) : new[i] = settled + i,
         settled' = settled + Len(new), dropped' = dropped, lost' = lost
  PROVE  Fates'
<1>1. /\ durable \in Seq(Nat) /\ Len(durable) \in Nat /\ Len(new) \in Nat
      /\ settled \in Nat
  BY DEF TypeOK
<1>2. /\ Len(durable') = Len(durable) + Len(new)
      /\ \A i \in 1..Len(durable) : durable'[i] = durable[i]
      /\ \A i \in 1..Len(new) : durable'[Len(durable) + i] = settled + i
  BY <1>1
<1>3. \A i \in Len(durable) + 1 .. Len(durable') :
        durable'[i] = settled + (i - Len(durable))
  <2> SUFFICES ASSUME NEW i \in Len(durable) + 1 .. Len(durable')
               PROVE durable'[i] = settled + (i - Len(durable))
    OBVIOUS
  <2>1. i - Len(durable) \in 1..Len(new) /\ Len(durable) + (i - Len(durable)) = i
    BY <1>1, <1>2
  <2> QED
    BY <1>2, <2>1
<1>4. Committed' = Committed \cup (settled + 1 .. settled')
  <2>1. ASSUME NEW w \in Committed' PROVE w \in Committed \cup (settled + 1 .. settled')
    <3>1. PICK i \in 1..Len(durable') : w = durable'[i]
      BY <2>1 DEF Committed
    <3>2. CASE i \in 1..Len(durable)
      BY <1>2, <3>1, <3>2 DEF Committed
    <3>3. CASE i \in Len(durable) + 1 .. Len(durable')
      BY <1>1, <1>2, <1>3, <3>1, <3>3
    <3> QED
      BY <1>1, <1>2, <3>2, <3>3
  <2>2. ASSUME NEW w \in Committed PROVE w \in Committed'
    <3>1. PICK i \in 1..Len(durable) : w = durable[i]
      BY <2>2 DEF Committed
    <3>2. i \in 1..Len(durable') /\ durable'[i] = w
      BY <1>1, <1>2, <3>1
    <3> QED
      BY <3>2 DEF Committed
  <2>3. ASSUME NEW w \in settled + 1 .. settled' PROVE w \in Committed'
    <3>1. /\ Len(durable) + (w - settled) \in Len(durable) + 1 .. Len(durable')
          /\ Len(durable) + (w - settled) \in 1..Len(durable')
          /\ settled + ((Len(durable) + (w - settled)) - Len(durable)) = w
      BY <1>1, <1>2
    <3>2. durable'[Len(durable) + (w - settled)] = w
      BY <1>3, <3>1
    <3> QED
      BY <3>1, <3>2 DEF Committed
  <2> QED
    BY <2>1, <2>2, <2>3
<1>5. 1..settled' = (1..settled) \cup (settled + 1 .. settled')
  BY <1>1
<1>6. OneFate'
  <2>1. \A w \in settled + 1 .. settled' : w \notin 1..settled
    BY <1>1
  <2> QED
    BY <1>4, <1>5, <2>1 DEF Fates, OneFate
<1>7. CommitOrder'
  <2> SUFFICES ASSUME NEW i \in 1..Len(durable'), NEW j \in 1..Len(durable'), i < j
               PROVE durable'[i] < durable'[j]
    BY DEF CommitOrder
  <2>1. CASE j \in 1..Len(durable)
    <3>1. i \in 1..Len(durable)
      BY <1>1, <2>1
    <3> QED
      BY <1>2, <2>1, <3>1 DEF Fates, CommitOrder
  <2>2. CASE i \in 1..Len(durable) /\ j \in Len(durable) + 1 .. Len(durable')
    <3>1. durable[i] \in 1..settled
      BY <2>2 DEF Fates, OneFate, Committed
    <3>2. durable'[j] > settled /\ durable'[j] \in Nat
      BY <1>1, <1>3, <2>2
    <3> QED
      BY <1>1, <1>2, <2>2, <3>1, <3>2
  <2>3. CASE i \in Len(durable) + 1 .. Len(durable')
    <3>1. j \in Len(durable) + 1 .. Len(durable')
      BY <1>1, <1>2, <2>3
    <3> QED
      BY <1>1, <1>3, <2>3, <3>1
  <2> QED
    BY <1>1, <1>2, <2>1, <2>2, <2>3
<1> QED
  BY <1>6, <1>7 DEF Fates

LEMMA InitFates == Init => Fates
  BY DEF Init, Fates, OneFate, CommitOrder, Committed

LEMMA NextFates == TypeOK /\ WritesInOrder /\ Fates /\ [Next]_vars => Fates'
<1> SUFFICES ASSUME TypeOK, WritesInOrder, Fates, [Next]_vars PROVE Fates'
  OBVIOUS
<1>u. ASSUME UNCHANGED <<durable, dropped, lost, settled>> PROVE Fates'
  BY <1>u DEF Fates, OneFate, CommitOrder, Committed
<1>1. CASE EnqueueWorkerWrite \/ Flush \/ RequestShutdown \/ MainHandles
  BY <1>1, <1>u DEF EnqueueWorkerWrite, Flush, RequestShutdown, MainHandles,
     OnFlushComplete, OnShutdownComplete, OnWorkerError, historyVars
<1>2. CASE ReceiveRun \/ ReceiveFlush \/ ReceiveShutdown \/ TimerTick \/ TakeBatch
  BY <1>2, <1>u DEF ReceiveRun, ReceiveFlush, ReceiveShutdown, TimerTick,
     TakeBatch, historyVars
<1>3. CASE EndFlush \/ RequeueBatch \/ StartReplay \/ EndReplay \/ WorkerDies
  BY <1>3, <1>u DEF EndFlush, RequeueBatch, StartReplay, EndReplay, WorkerDies,
     historyVars
<1>4. CASE CommitBatch
  <2>1. \A i \in 1..Len(batch) : batch[i] = settled + i
    BY <1>4 DEF CommitBatch, WritesInOrder, QueuesInOrder, Alive
  <2> QED
    BY <1>4, <2>1, AppendKeepsFates DEF CommitBatch, TypeOK
<1>5. CASE ReplayWrite
  <2>1. /\ batch \in Seq(Nat) /\ Len(batch) > 0 /\ Head(batch) = batch[1]
        /\ settled \in Nat /\ durable \in Seq(Nat)
    BY <1>5 DEF ReplayWrite, TypeOK
  <2>2. Head(batch) = settled + 1
    BY <1>5, <2>1 DEF ReplayWrite, WritesInOrder, QueuesInOrder, Alive
  <2>3. settled' = settled + 1 /\ lost' = lost
    BY <1>5 DEF ReplayWrite
  <2>4. CASE durable' = Append(durable, Head(batch)) /\ dropped' = dropped
    <3> DEFINE new == <<Head(batch)>>
    <3>1. new \in Seq(Nat) /\ Len(new) = 1 /\ new[1] = settled + 1
      BY <2>1, <2>2
    <3>2. durable' = durable \o new
      BY <2>1, <2>2, <2>4
    <3>3. \A i \in 1..Len(new) : new[i] = settled + i
      BY <2>1, <3>1
    <3> HIDE DEF new
    <3> QED
      BY <2>3, <2>4, <3>1, <3>2, <3>3, AppendKeepsFates
  <2>5. CASE durable' = durable /\ dropped' = dropped \cup {Head(batch)}
    <3>1. 1..settled' = (1..settled) \cup {settled + 1} /\ settled + 1 \notin 1..settled
      BY <2>1, <2>3
    <3>2. OneFate'
      BY <2>2, <2>3, <2>5, <3>1 DEF Fates, OneFate, Committed
    <3> QED
      BY <2>5, <3>2 DEF Fates, CommitOrder
  <2> QED
    BY <1>5, <2>4, <2>5 DEF ReplayWrite
<1>6. CASE CrashAndRestart
  <2>1. /\ settled \in Nat /\ issued \in Nat /\ settled <= issued
    BY DEF TypeOK, WritesInOrder, FlushPhases
  <2>2. /\ 1..issued = (1..settled) \cup (settled + 1 .. issued)
        /\ \A w \in settled + 1 .. issued : w \notin 1..settled
    BY <2>1
  <2>3. /\ settled' = issued /\ lost' = lost \cup (settled + 1 .. issued)
        /\ UNCHANGED <<durable, dropped>>
    BY <1>6 DEF CrashAndRestart
  <2> QED
    BY <2>2, <2>3 DEF Fates, OneFate, CommitOrder, Committed
<1>7. CASE UNCHANGED vars
  BY <1>7, <1>u DEF vars, historyVars
<1> QED
  BY <1>1, <1>2, <1>3, <1>4, <1>5, <1>6, <1>7 DEF Next, FlushStep

-----------------------------------------------------------------------------
(* Flush requests.                                                         *)

Flushes == FlushesTracked /\ AckedAreSettled

LEMMA InitFlushes == Init => Flushes
  BY DEF Init, Flushes, FlushesTracked, AckedAreSettled

(* A step that leaves the requests where they are and lets the counters of *)
(* received and settled writes only grow.                                  *)
LEMMA GrowthKeepsFlushes ==
  ASSUME TypeOK, TypeOK', Flushes,
         UNCHANGED <<toMain, pendingFlushIds, pendingFlushes, acked, upTo, msgSeq>>,
         Alive' => Alive /\ Received <= Received', settled <= settled',
         \/ toWorker' = toWorker
         \/ toWorker # << >> /\ toWorker' = Tail(toWorker)
         \/ toWorker' = << >>
  PROVE  Flushes'
<1>1. /\ settled \in Nat /\ settled' \in Nat /\ upTo \in [Ids -> Nat]
      /\ toWorker \in Seq(Requests) /\ toMain \in Seq(Responses)
      /\ pendingFlushIds \in Seq(Ids) /\ acked \subseteq Ids
  BY DEF TypeOK
<1>r. Received \in Nat /\ Received' \in Nat
  <2>1. batch \in Seq(Nat) /\ writeQueue \in Seq(Nat)
    BY DEF TypeOK
  <2>2. batch' \in Seq(Nat) /\ writeQueue' \in Seq(Nat)
    BY DEF TypeOK
  <2>3. /\ Len(batch) \in Nat /\ Len(writeQueue) \in Nat
        /\ Len(batch') \in Nat /\ Len(writeQueue') \in Nat
    BY <2>1, <2>2
  <2> QED
    BY <1>1, <2>3 DEF Received
<1>2. ASSUME Alive', NEW i \in 1..Len(toWorker'), toWorker'[i].type = "flush"
      PROVE  toWorker'[i].id \in 1..msgSeq /\ upTo[toWorker'[i].id] = toWorker'[i].n
  <2>1. Alive
    BY <1>2
  <2>2. CASE toWorker' = toWorker
    BY <1>2, <2>1, <2>2 DEF Flushes, FlushesTracked
  <2>3. CASE toWorker # << >> /\ toWorker' = Tail(toWorker)
    <3>1. i + 1 \in 1..Len(toWorker) /\ toWorker'[i] = toWorker[i + 1]
      BY <1>1, <1>2, <2>3
    <3> QED
      BY <1>2, <2>1, <3>1 DEF Flushes, FlushesTracked
  <2>4. CASE toWorker' = << >>
    BY <1>2, <2>4
  <2> QED
    BY <2>2, <2>3, <2>4
<1>3. ASSUME Alive', NEW i \in 1..Len(pendingFlushIds)
      PROVE  pendingFlushIds[i] \in 1..msgSeq /\ upTo[pendingFlushIds[i]] <= Received'
  <2>1. pendingFlushIds[i] \in 1..msgSeq /\ upTo[pendingFlushIds[i]] <= Received
    BY <1>3 DEF Flushes, FlushesTracked
  <2>2. upTo[pendingFlushIds[i]] \in Nat
    BY <1>1
  <2> QED
    BY <1>r, <1>3, <2>1, <2>2
<1>4. ASSUME NEW i \in 1..Len(toMain), toMain[i].type = "flush_complete"
      PROVE  toMain[i].id \in 1..msgSeq /\ upTo[toMain[i].id] <= settled'
  <2>1. toMain[i].id \in 1..msgSeq /\ upTo[toMain[i].id] <= settled
    BY <1>4 DEF Flushes, FlushesTracked
  <2>2. upTo[toMain[i].id] \in Nat
    <3>1. toMain[i] \in Responses
      BY <1>1
    <3> QED
      BY <1>1, <3>1 DEF Responses
  <2> QED
    BY <1>1, <2>1, <2>2
<1>5. ASSUME NEW f \in acked PROVE upTo[f] <= settled'
  <2>1. upTo[f] <= settled /\ upTo[f] \in Nat
    BY <1>1 DEF Flushes, AckedAreSettled
  <2> QED
    BY <1>1, <2>1
<1> QED
  BY <1>2, <1>3, <1>4, <1>5 DEF Flushes, FlushesTracked, AckedAreSettled

LEMMA NextFlushes == TypeOK /\ WritesInOrder /\ Flushes /\ [Next]_vars => Flushes'
<1> SUFFICES ASSUME TypeOK, WritesInOrder, Flushes, [Next]_vars PROVE Flushes'
  OBVIOUS
<1>t. TypeOK' /\ WritesInOrder'
  BY NextTypeOK, NextWrites
<1>l. /\ settled \in Nat /\ issued \in Nat /\ upTo \in [Ids -> Nat]
      /\ toWorker \in Seq(Requests) /\ toMain \in Seq(Responses)
      /\ Len(batch) \in Nat /\ Len(writeQueue) \in Nat /\ batch \in Seq(Nat)
      /\ writeQueue \in Seq(Nat)
      /\ pendingFlushIds \in Seq(Ids) /\ msgSeq \in Nat /\ Received \in Nat
      /\ pendingFlushes \subseteq 1..msgSeq /\ acked \subseteq 1..msgSeq
  BY BoundsAssumption DEF TypeOK, Received, Flushes, FlushesTracked, Ids
(* Posting a message that is not a flush request.                          *)
<1>p. ASSUME NEW m \in Requests, Post(m), m.type # "flush",
             UNCHANGED <<worker, batch, writeQueue, settled, toMain,
                         pendingFlushIds, acked, upTo, pendingFlushes>>,
             msgSeq' \in Nat, msgSeq <= msgSeq'
      PROVE  Flushes'
  <2>1. ASSUME Alive, NEW i \in 1..Len(toWorker'), toWorker'[i].type = "flush"
        PROVE  toWorker'[i].id \in 1..msgSeq /\ upTo[toWorker'[i].id] = toWorker'[i].n
    <3>1. toWorker' = Append(toWorker, m)
      BY <1>p, <2>1 DEF Post
    <3>2. i \in 1..Len(toWorker) /\ toWorker'[i] = toWorker[i]
      BY <1>l, <1>p, <2>1, <3>1
    <3> QED
      BY <2>1, <3>2 DEF Flushes, FlushesTracked
  <2>2. Received' = Received /\ Alive' = Alive /\ 1..msgSeq \subseteq 1..msgSeq'
    BY <1>l, <1>p DEF Received, Alive
  <2> QED
    BY <1>p, <2>1, <2>2 DEF Flushes, FlushesTracked, AckedAreSettled
<1>1. CASE EnqueueWorkerWrite
  <2>1. Run(issued + 1) \in Requests /\ Run(issued + 1).type # "flush"
    BY <1>l DEF Run, Requests
  <2> QED
    BY <1>1, <1>l, <1>p, <2>1 DEF EnqueueWorkerWrite, workerVars
<1>2. CASE RequestShutdown
  <2>1. ShutdownMsg(msgSeq + 1, issued) \in Requests
        /\ ShutdownMsg(msgSeq + 1, issued).type # "flush"
    BY <1>l, <1>2 DEF ShutdownMsg, Requests, RequestShutdown
  <2> QED
    BY <1>2, <1>l, <1>p, <2>1 DEF RequestShutdown, workerVars, historyVars
<1>3. CASE Flush
  <2> DEFINE f == msgSeq + 1
             m == FlushMsg(f, issued)
  <2>1. /\ m \in Requests /\ m.type = "flush" /\ m.id = f /\ m.n = issued
        /\ f \in Ids /\ f \in Nat /\ f \notin 1..msgSeq /\ f \in 1..f
        /\ 1..msgSeq \subseteq 1..f
    BY <1>3, <1>l DEF FlushMsg, Requests, Flush
  <2>2. /\ msgSeq' = f /\ upTo' = [upTo EXCEPT ![f] = issued] /\ Post(m)
        /\ pendingFlushes' = pendingFlushes \cup {f}
        /\ UNCHANGED <<worker, batch, writeQueue, settled, toMain,
                       pendingFlushIds, acked>>
    BY <1>3 DEF Flush, workerVars
  <2>3. upTo'[f] = issued /\ \A g \in 1..msgSeq : g \in Ids => upTo'[g] = upTo[g]
    BY <1>l, <2>1, <2>2
  <2> HIDE DEF f, m
  <2>4. ASSUME Alive, NEW i \in 1..Len(toWorker'), toWorker'[i].type = "flush"
        PROVE  toWorker'[i].id \in 1..f /\ upTo'[toWorker'[i].id] = toWorker'[i].n
    <3>1. toWorker' = Append(toWorker, m)
      BY <2>2, <2>4 DEF Post
    <3>2. CASE i \in 1..Len(toWorker)
      <4>1. toWorker'[i] = toWorker[i] /\ toWorker[i] \in Requests
        BY <1>l, <3>1, <3>2
      <4>2. toWorker[i].id \in Ids
        BY <2>4, <4>1 DEF Requests
      <4>3. toWorker[i].id \in 1..msgSeq /\ upTo[toWorker[i].id] = toWorker[i].n
        BY <2>4, <3>2, <4>1 DEF Flushes, FlushesTracked
      <4> QED
        BY <2>1, <2>3, <4>1, <4>2, <4>3
    <3>3. CASE i = Len(toWorker) + 1
      <4>1. toWorker'[i] = m
        BY <1>l, <2>1, <3>1, <3>3
      <4> QED
        BY <2>1, <2>3, <4>1
    <3> QED
      BY <1>l, <2>1, <3>1, <3>2, <3>3
  <2>5. Received' = Received /\ Alive' = Alive
    BY <2>2 DEF Received, Alive
  <2>6. ASSUME Alive, NEW i \in 1..Len(pendingFlushIds)
        PROVE  pendingFlushIds[i] \in 1..f /\ upTo'[pendingFlushIds[i]] <= Received
    <3>1. pendingFlushIds[i] \in 1..msgSeq /\ pendingFlushIds[i] \in Ids
          /\ upTo[pendingFlushIds[i]] <= Received
      BY <1>l, <2>6 DEF Flushes, FlushesTracked
    <3> QED
      BY <2>1, <2>3, <3>1
  <2>7. ASSUME NEW i \in 1..Len(toMain), toMain[i].type = "flush_complete"
        PROVE  toMain[i].id \in 1..f /\ upTo'[toMain[i].id] <= settled
    <3>1. toMain[i].id \in 1..msgSeq /\ upTo[toMain[i].id] <= settled
      BY <2>7 DEF Flushes, FlushesTracked
    <3>2. toMain[i].id \in Ids
      <4>1. toMain[i] \in Responses
        BY <1>l
      <4> QED
        BY <4>1 DEF Responses
    <3> QED
      BY <2>1, <2>3, <3>1, <3>2
  <2>8. \A g \in acked : upTo'[g] <= settled
    BY <1>l, <2>3 DEF Flushes, AckedAreSettled, TypeOK
  <2>9. pendingFlushes' \subseteq 1..f /\ acked' \subseteq 1..f
    BY <1>l, <2>1, <2>2
  <2> QED
    BY <2>2, <2>4, <2>5, <2>6, <2>7, <2>8, <2>9
    DEF Flushes, FlushesTracked, AckedAreSettled
<1>4. CASE OnFlushComplete
  <2> DEFINE f == Head(toMain).id
  <2>1. /\ Len(toMain) > 0 /\ Head(toMain) = toMain[1] /\ toMain' = Tail(toMain)
        /\ toMain[1].type = "flush_complete"
    BY <1>4, <1>l DEF OnFlushComplete
  <2>2. f \in 1..msgSeq /\ upTo[f] <= settled
    <3>1. 1 \in 1..Len(toMain) /\ f = toMain[1].id
      BY <1>l, <2>1
    <3> HIDE DEF f
    <3> QED
      BY <2>1, <3>1 DEF Flushes, FlushesTracked
  <2>3. \A i \in 1..Len(toMain') : i + 1 \in 1..Len(toMain) /\ toMain'[i] = toMain[i + 1]
    BY <1>l, <2>1
  <2>4. /\ pendingFlushes' \subseteq pendingFlushes /\ acked' \subseteq acked \cup {f}
        /\ UNCHANGED <<worker, batch, writeQueue, settled, toWorker,
                       pendingFlushIds, upTo, msgSeq>>
    BY <1>4 DEF OnFlushComplete, workerVars
  <2>5. Received' = Received /\ Alive' = Alive
    BY <2>4 DEF Received, Alive
  <2> HIDE DEF f
  <2> QED
    BY <1>l, <2>2, <2>3, <2>4, <2>5 DEF Flushes, FlushesTracked, AckedAreSettled
<1>5. CASE OnShutdownComplete
  <2>1. Len(toMain) > 0 /\ toMain' = Tail(toMain)
    BY <1>5, <1>l DEF OnShutdownComplete
  <2>2. \A i \in 1..Len(toMain') : i + 1 \in 1..Len(toMain) /\ toMain'[i] = toMain[i + 1]
    BY <1>l, <2>1
  <2>3. /\ UNCHANGED <<worker, batch, writeQueue, settled, toWorker, pendingFlushes,
                       acked, pendingFlushIds, upTo, msgSeq>>
    BY <1>5 DEF OnShutdownComplete, workerVars
  <2>4. Received' = Received /\ Alive' = Alive
    BY <2>3 DEF Received, Alive
  <2> QED
    BY <2>2, <2>3, <2>4 DEF Flushes, FlushesTracked, AckedAreSettled
<1>6. CASE OnWorkerError
  <2>1. Received' = Received /\ Alive' = Alive
    BY <1>6 DEF OnWorkerError, workerVars, historyVars, Received, Alive
  <2> QED
    BY <1>6, <2>1 DEF OnWorkerError, workerVars, historyVars, Flushes,
       FlushesTracked, AckedAreSettled
<1>7. CASE ReceiveRun \/ ReceiveShutdown \/ TimerTick \/ TakeBatch
  <2>1. /\ UNCHANGED <<toMain, pendingFlushIds, pendingFlushes, acked, upTo, msgSeq,
                       settled>>
        /\ Alive' => Alive
        /\ toWorker' = toWorker \/ (toWorker # << >> /\ toWorker' = Tail(toWorker))
    BY <1>7 DEF ReceiveRun, ReceiveShutdown, TimerTick, TakeBatch, Receive,
       mainVars, historyVars, Alive
  <2>2. Received <= Received'
    <3>1. CASE ReceiveRun
      <4>1. Len(writeQueue') = Len(writeQueue) + 1
        BY <1>l, <3>1 DEF ReceiveRun
      <4> QED
        BY <1>l, <3>1, <4>1 DEF ReceiveRun, Received, historyVars
    <3>2. CASE ReceiveShutdown \/ TimerTick
      BY <1>l, <3>2 DEF ReceiveShutdown, TimerTick, Received, historyVars
    <3>3. CASE TakeBatch
      <4>1. Len(batch) = 0 /\ Len(writeQueue') = 0 /\ batch' = writeQueue
        BY <3>3 DEF TakeBatch, LeftBehind, WritesInOrder, FlushPhases
      <4> QED
        BY <1>l, <3>3, <4>1 DEF TakeBatch, Received, historyVars
    <3> QED
      BY <1>7, <3>1, <3>2, <3>3
  <2> QED
    BY <1>l, <1>t, <2>1, <2>2, GrowthKeepsFlushes
<1>8. CASE ReceiveFlush
  <2> DEFINE f == Head(toWorker).id
  <2>1. /\ Len(toWorker) > 0 /\ Head(toWorker) = toWorker[1] /\ toWorker' = Tail(toWorker)
        /\ toWorker[1].type = "flush" /\ 1 \in 1..Len(toWorker) /\ f = toWorker[1].id
        /\ toWorker[1] \in Requests /\ Alive
    BY <1>8, <1>l DEF ReceiveFlush, Receive, Alive
  <2>2. f \in 1..msgSeq /\ upTo[f] = toWorker[1].n /\ f \in Ids
    BY <2>1 DEF Flushes, FlushesTracked, Requests
  <2>3. toWorker[1].n = Received
    <3>1. toWorker[1].n = Received + (IF toWorker[1].type = "run" THEN 1 ELSE 0)
      BY <2>1 DEF WritesInOrder, ChannelInOrder
    <3> QED
      BY <1>l, <2>1, <3>1
  <2>4. /\ pendingFlushIds' = Append(pendingFlushIds, f)
        /\ UNCHANGED <<batch, writeQueue, settled, toMain, pendingFlushes, acked,
                       upTo, msgSeq>>
    BY <1>8 DEF ReceiveFlush, mainVars, historyVars
  <2> HIDE DEF f
  <2>5. ASSUME NEW i \in 1..Len(pendingFlushIds')
        PROVE  pendingFlushIds'[i] \in 1..msgSeq /\ upTo[pendingFlushIds'[i]] <= Received
    <3>1. CASE i \in 1..Len(pendingFlushIds)
      <4>1. pendingFlushIds'[i] = pendingFlushIds[i]
        BY <1>l, <2>4, <3>1
      <4> QED
        BY <2>1, <3>1, <4>1 DEF Flushes, FlushesTracked
    <3>2. CASE i = Len(pendingFlushIds) + 1
      <4>1. pendingFlushIds'[i] = f
        BY <1>l, <2>2, <2>4, <3>2
      <4>2. upTo[f] <= Received
        BY <1>l, <2>2, <2>3
      <4> QED
        BY <2>2, <4>1, <4>2
    <3>3. Len(pendingFlushIds') = Len(pendingFlushIds) + 1
      BY <1>l, <2>2, <2>4
    <3>4. i \in 1..Len(pendingFlushIds) \/ i = Len(pendingFlushIds) + 1
      <4>1. Len(pendingFlushIds) \in Nat
        BY <1>l
      <4> QED
        BY <3>3, <4>1
    <3> QED
      BY <3>1, <3>2, <3>4
  <2>6. \A i \in 1..Len(toWorker') : i + 1 \in 1..Len(toWorker) /\ toWorker'[i] = toWorker[i + 1]
    BY <1>l, <2>1
  <2>7. Received' = Received
    BY <2>4 DEF Received
  <2> QED
    BY <2>1, <2>4, <2>5, <2>6, <2>7 DEF Flushes, FlushesTracked, AckedAreSettled
<1>9. CASE EndFlush
  <2> DEFINE acks == [i \in 1..Len(pendingFlushIds) |-> Complete(pendingFlushIds[i])]
             last == IF closing = 0 THEN << >> ELSE <<ShutdownComplete(closing)>>
  <2>1. /\ worker = "flush" /\ writeQueue = << >> /\ batch = << >>
        /\ toMain' = (toMain \o acks) \o last /\ pendingFlushIds' = << >>
        /\ UNCHANGED <<batch, writeQueue, settled, toWorker, pendingFlushes, acked,
                       upTo, msgSeq>>
    BY <1>9 DEF EndFlush, NothingQueued, mainVars, historyVars, WritesInOrder, FlushPhases
  <2>2. Received = settled /\ Alive /\ Received' = Received
    <3>1. Len(batch) = 0 /\ Len(writeQueue) = 0
      BY <2>1
    <3> QED
      BY <1>l, <2>1, <3>1 DEF Received, Alive
  <2>3. /\ acks \in Seq(Responses) /\ Len(acks) = Len(pendingFlushIds)
        /\ \A i \in 1..Len(acks) : acks[i].id = pendingFlushIds[i]
    <3>1. \A i \in 1..Len(pendingFlushIds) :
            /\ Complete(pendingFlushIds[i]) \in Responses
            /\ Complete(pendingFlushIds[i]).id = pendingFlushIds[i]
      BY <1>l DEF Complete, Responses
    <3>2. Len(pendingFlushIds) \in Nat
      BY <1>l
    <3> QED
      BY <3>1, <3>2
  <2>4. last \in Seq(Responses) /\ \A i \in 1..Len(last) : last[i].type = "shutdown_complete"
    <3>1. closing # 0 => /\ ShutdownComplete(closing) \in Responses
                         /\ ShutdownComplete(closing).type = "shutdown_complete"
      BY DEF TypeOK, ShutdownComplete, Responses
    <3> QED
      BY <3>1
  <2> HIDE DEF acks, last
  <2>5. ASSUME NEW i \in 1..Len(toMain'), toMain'[i].type = "flush_complete"
        PROVE  toMain'[i].id \in 1..msgSeq /\ upTo[toMain'[i].id] <= settled
    <3>1. CASE i \in 1..Len(toMain)
      <4>1. toMain'[i] = toMain[i]
        BY <1>l, <2>1, <2>3, <2>4, <3>1
      <4> QED
        BY <2>5, <3>1, <4>1 DEF Flushes, FlushesTracked
    <3>2. CASE i \in Len(toMain) + 1 .. Len(toMain) + Len(acks)
      <4>1. /\ i - Len(toMain) \in 1..Len(acks)
            /\ toMain'[i] = acks[i - Len(toMain)]
        BY <1>l, <2>1, <2>3, <2>4, <3>2
      <4> QED
        BY <2>2, <2>3, <4>1 DEF Flushes, FlushesTracked
    <3>3. CASE i \in Len(toMain) + Len(acks) + 1 .. Len(toMain')
      <4>1. /\ i - (Len(toMain) + Len(acks)) \in 1..Len(last)
            /\ toMain'[i] = last[i - (Len(toMain) + Len(acks))]
        BY <1>l, <2>1, <2>3, <2>4, <3>3
      <4> QED
        BY <2>4, <2>5, <4>1
    <3> QED
      BY <1>l, <2>1, <2>3, <2>4, <3>1, <3>2, <3>3
  <2>6. \A i \in 1..Len(toWorker) : toWorker[i].type = "flush" =>
          toWorker[i].id \in 1..msgSeq /\ upTo[toWorker[i].id] = toWorker[i].n
    BY <2>2 DEF Flushes, FlushesTracked
  <2> QED
    BY <2>1, <2>5, <2>6 DEF Flushes, FlushesTracked, AckedAreSettled
<1>10. CASE CommitBatch \/ RequeueBatch \/ StartReplay \/ ReplayWrite \/ EndReplay
  <2>1. /\ UNCHANGED <<toMain, pendingFlushIds, pendingFlushes, acked, upTo, msgSeq,
                       toWorker>>
        /\ Alive' => Alive
    BY <1>10 DEF CommitBatch, RequeueBatch, StartReplay, ReplayWrite, EndReplay,
       mainVars, historyVars, Alive
  <2>2. Received <= Received' /\ settled <= settled'
    <3>1. CASE CommitBatch
      <4>1. Len(batch') = 0 /\ settled' = settled + Len(batch) /\ writeQueue' = writeQueue
        BY <3>1 DEF CommitBatch
      <4> QED
        BY <1>l, <4>1 DEF Received
    <3>2. CASE RequeueBatch
      <4>1. /\ Len(batch') = 0 /\ settled' = settled
            /\ Len(writeQueue') = Len(batch) + Len(writeQueue)
        BY <1>l, <3>2 DEF RequeueBatch, Unshifted, historyVars
      <4> QED
        BY <1>l, <4>1 DEF Received
    <3>3. CASE StartReplay \/ EndReplay
      BY <1>l, <3>3 DEF StartReplay, EndReplay, Received, historyVars
    <3>4. CASE ReplayWrite
      <4>1. Len(batch') = Len(batch) - 1 /\ settled' = settled + 1 /\ writeQueue' = writeQueue
        BY <1>l, <3>4 DEF ReplayWrite
      <4> QED
        BY <1>l, <4>1 DEF Received
    <3> QED
      BY <1>10, <3>1, <3>2, <3>3, <3>4
  <2> QED
    BY <1>t, <2>1, <2>2, GrowthKeepsFlushes
<1>11. CASE WorkerDies
  BY <1>11 DEF WorkerDies, mainVars, historyVars, Flushes, FlushesTracked,
     AckedAreSettled, Alive
<1>12. CASE CrashAndRestart
  BY <1>12 DEF CrashAndRestart, Flushes, FlushesTracked, AckedAreSettled
<1>13. CASE UNCHANGED vars
  BY <1>13 DEF vars, mainVars, workerVars, historyVars, Flushes, FlushesTracked,
     AckedAreSettled, Alive, Received
<1> QED
  BY <1>1, <1>2, <1>3, <1>4, <1>5, <1>6, <1>7, <1>8, <1>9, <1>10, <1>11,
     <1>12, <1>13
  DEF Next, MainHandles, FlushStep

-----------------------------------------------------------------------------
(* Shutdown.                                                               *)

Shutdowns == ShutdownLast /\ ShutdownSettles

LEMMA InitShutdowns == Init => Shutdowns
  BY DEF Init, Shutdowns, ShutdownLast, ShutdownSettles

LEMMA NextShutdowns ==
  TypeOK /\ WritesInOrder /\ Shutdowns /\ [Next]_vars => Shutdowns'
<1> SUFFICES ASSUME TypeOK, WritesInOrder, Shutdowns, [Next]_vars PROVE Shutdowns'
  OBVIOUS
<1> USE DEF Shutdowns
<1>l. /\ toWorker \in Seq(Requests) /\ toMain \in Seq(Responses)
      /\ pendingFlushIds \in Seq(Ids) /\ settled \in Nat /\ issued \in Nat
      /\ settled <= issued /\ msgSeq \in Nat
  BY BoundsAssumption DEF TypeOK, WritesInOrder, FlushPhases, Ids
<1>1. CASE EnqueueWorkerWrite \/ Flush
  <2>1. /\ ~shutdownRequested
        /\ UNCHANGED <<worker, closing, toMain, shutdownDone, shutdownRequested>>
    BY <1>1 DEF EnqueueWorkerWrite, Flush, workerVars
  <2>2. PICK m \in Requests : Post(m) /\ m.type # "shutdown"
    <3>1. CASE EnqueueWorkerWrite
      <4>1. Run(issued + 1) \in Requests /\ Run(issued + 1).type # "shutdown"
        BY <1>l DEF Run, Requests
      <4> QED
        BY <3>1, <4>1 DEF EnqueueWorkerWrite
    <3>2. CASE Flush
      <4>1. FlushMsg(msgSeq + 1, issued) \in Requests
            /\ FlushMsg(msgSeq + 1, issued).type # "shutdown"
        BY <1>l, <3>2 DEF FlushMsg, Requests, Flush
      <4> QED
        BY <3>2, <4>1 DEF Flush
    <3> QED
      BY <1>1, <3>1, <3>2
  <2>3. ASSUME Alive, NEW i \in 1..Len(toWorker') PROVE toWorker'[i].type # "shutdown"
    <3>1. toWorker' = Append(toWorker, m)
      BY <2>2, <2>3 DEF Post
    <3>2. CASE i \in 1..Len(toWorker)
      <4>1. toWorker'[i] = toWorker[i]
        BY <1>l, <3>1, <3>2
      <4> QED
        BY <2>1, <2>3, <3>2, <4>1 DEF ShutdownLast
    <3>3. CASE i = Len(toWorker) + 1
      <4>1. toWorker'[i] = m
        BY <1>l, <2>2, <3>1, <3>3
      <4> QED
        BY <2>2, <4>1
    <3>4. Len(toWorker') = Len(toWorker) + 1
      BY <1>l, <2>2, <3>1
    <3> QED
      BY <1>l, <2>3, <3>2, <3>3, <3>4
  <2>4. closing = 0 /\ ~shutdownDone
        /\ \A i \in 1..Len(toMain) : toMain[i].type # "shutdown_complete"
    BY <2>1 DEF ShutdownLast
  <2> QED
    BY <2>1, <2>3, <2>4 DEF ShutdownLast, ShutdownSettles, Alive
<1>2. CASE RequestShutdown
  <2> DEFINE m == ShutdownMsg(msgSeq + 1, issued)
  <2>1. /\ ~shutdownRequested /\ shutdownRequested' = TRUE /\ Post(m)
        /\ UNCHANGED <<worker, closing, toMain, shutdownDone, issued, settled>>
    BY <1>2 DEF RequestShutdown, workerVars, historyVars
  <2>2. m \in Requests /\ m.type = "shutdown" /\ m.id = msgSeq + 1 /\ m.id # 0
    BY <1>2, <1>l DEF ShutdownMsg, Requests, RequestShutdown
  <2> HIDE DEF m
  <2>3. ASSUME Alive, NEW i \in 1..Len(toWorker'), toWorker'[i].type = "shutdown"
        PROVE  i = Len(toWorker') /\ toWorker'[i].id # 0
    <3>1. toWorker' = Append(toWorker, m)
      BY <2>1, <2>3 DEF Post
    <3>2. i \in 1..Len(toWorker) => toWorker'[i] = toWorker[i]
      BY <1>l, <3>1
    <3>3. i \notin 1..Len(toWorker)
      BY <2>1, <2>3, <3>2 DEF ShutdownLast
    <3>4. Len(toWorker') = Len(toWorker) + 1 /\ toWorker'[Len(toWorker) + 1] = m
      BY <1>l, <2>2, <3>1
    <3>5. i = Len(toWorker) + 1
      BY <1>l, <2>3, <3>3, <3>4
    <3> QED
      BY <2>2, <3>4, <3>5
  <2>4. closing = 0 /\ ~shutdownDone
        /\ \A i \in 1..Len(toMain) : toMain[i].type # "shutdown_complete"
    BY <2>1 DEF ShutdownLast
  <2> QED
    BY <2>1, <2>3, <2>4 DEF ShutdownLast, ShutdownSettles, Alive
<1>3. CASE OnFlushComplete \/ OnShutdownComplete
  <2>1. /\ Len(toMain) > 0 /\ toMain' = Tail(toMain) /\ Head(toMain) = toMain[1]
        /\ 1 \in 1..Len(toMain)
    BY <1>3, <1>l DEF OnFlushComplete, OnShutdownComplete
  <2>2. \A i \in 1..Len(toMain') : i + 1 \in 1..Len(toMain) /\ toMain'[i] = toMain[i + 1]
    BY <1>l, <2>1
  <2>3. UNCHANGED <<worker, closing, toWorker, shutdownRequested, issued, settled>>
    BY <1>3 DEF OnFlushComplete, OnShutdownComplete, workerVars
  <2>4. shutdownDone' => shutdownRequested /\ settled = issued
    <3>1. CASE OnFlushComplete
      BY <3>1 DEF OnFlushComplete, ShutdownLast, ShutdownSettles
    <3>2. CASE OnShutdownComplete
      <4>1. toMain[1].type = "shutdown_complete"
        BY <2>1, <3>2 DEF OnShutdownComplete
      <4> QED
        BY <2>1, <4>1 DEF ShutdownLast
    <3> QED
      BY <1>3, <3>1, <3>2
  <2> QED
    BY <2>2, <2>3, <2>4 DEF ShutdownLast, ShutdownSettles, Alive
<1>4. CASE OnWorkerError
  BY <1>4 DEF OnWorkerError, workerVars, historyVars, ShutdownLast,
     ShutdownSettles, Alive
<1>5. CASE ReceiveRun \/ ReceiveFlush \/ ReceiveShutdown
  <2>1. /\ Len(toWorker) > 0 /\ toWorker' = Tail(toWorker) /\ Head(toWorker) = toWorker[1]
        /\ 1 \in 1..Len(toWorker) /\ Alive
    BY <1>5, <1>l DEF ReceiveRun, ReceiveFlush, ReceiveShutdown, Receive, Alive
  <2>2. \A i \in 1..Len(toWorker') : i + 1 \in 1..Len(toWorker) /\ toWorker'[i] = toWorker[i + 1]
    BY <1>l, <2>1
  <2>3. Len(toWorker') = Len(toWorker) - 1 /\ toWorker' \in Seq(Requests)
    BY <1>l, <2>1
  <2>4. UNCHANGED <<toMain, shutdownRequested, issued, settled, shutdownDone>>
    BY <1>5 DEF ReceiveRun, ReceiveFlush, ReceiveShutdown, mainVars, historyVars
  <2>5. ASSUME NEW i \in 1..Len(toWorker'), toWorker'[i].type = "shutdown"
        PROVE  i = Len(toWorker') /\ toWorker'[i].id # 0 /\ shutdownRequested
    <3>1. i + 1 = Len(toWorker) /\ toWorker[i + 1].id # 0 /\ shutdownRequested
      BY <2>1, <2>2, <2>5 DEF ShutdownLast
    <3> QED
      BY <1>l, <2>2, <2>3, <3>1
  <2>6. closing' # 0 => toWorker' = << >> /\ shutdownRequested
    <3>1. CASE closing' = closing
      BY <2>1, <3>1 DEF ShutdownLast
    <3>2. CASE ReceiveShutdown
      <4>1. toWorker[1].type = "shutdown"
        BY <2>1, <3>2 DEF ReceiveShutdown, Receive
      <4>2. Len(toWorker) = 1 /\ shutdownRequested
        BY <2>1, <4>1 DEF ShutdownLast
      <4> QED
        BY <2>3, <4>2
    <3> QED
      BY <1>5, <3>1, <3>2 DEF ReceiveRun, ReceiveFlush
  <2> QED
    BY <2>4, <2>5, <2>6 DEF ShutdownLast, ShutdownSettles
<1>6. CASE TimerTick \/ TakeBatch \/ StartReplay \/ EndReplay \/ RequeueBatch
  BY <1>6 DEF TimerTick, TakeBatch, StartReplay, EndReplay, RequeueBatch, mainVars,
     historyVars, ShutdownLast, ShutdownSettles, Alive
<1>7. CASE EndFlush
  <2> DEFINE acks == [i \in 1..Len(pendingFlushIds) |-> Complete(pendingFlushIds[i])]
             last == IF closing = 0 THEN << >> ELSE <<ShutdownComplete(closing)>>
  <2>1. /\ worker = "flush" /\ writeQueue = << >> /\ batch = << >>
        /\ toMain' = (toMain \o acks) \o last
        /\ UNCHANGED <<closing, settled, issued, toWorker, shutdownRequested, shutdownDone>>
    BY <1>7 DEF EndFlush, NothingQueued, mainVars, historyVars, WritesInOrder, FlushPhases
  <2>2. Alive /\ Len(batch) = 0 /\ Len(writeQueue) = 0
    BY <2>1 DEF Alive
  <2>3. closing # 0 => shutdownRequested /\ settled = issued
    BY <1>l, <2>2 DEF ShutdownLast, WritesInOrder, ChannelInOrder, Received
  <2>4. /\ acks \in Seq(Responses)
        /\ \A i \in 1..Len(acks) : acks[i].type = "flush_complete"
    <3>1. \A i \in 1..Len(pendingFlushIds) :
            /\ Complete(pendingFlushIds[i]) \in Responses
            /\ Complete(pendingFlushIds[i]).type = "flush_complete"
      BY <1>l DEF Complete, Responses
    <3>2. Len(pendingFlushIds) \in Nat
      BY <1>l
    <3> QED
      BY <3>1, <3>2
  <2>5. last \in Seq(Responses) /\ (closing = 0 => Len(last) = 0)
    <3>1. closing # 0 => ShutdownComplete(closing) \in Responses
      BY DEF TypeOK, ShutdownComplete, Responses
    <3> QED
      BY <3>1
  <2> HIDE DEF acks, last
  <2>6. ASSUME NEW i \in 1..Len(toMain'), toMain'[i].type = "shutdown_complete"
        PROVE  shutdownRequested /\ settled = issued
    <3>1. CASE i \in 1..Len(toMain)
      <4>1. toMain'[i] = toMain[i]
        BY <1>l, <2>1, <2>4, <2>5, <3>1
      <4> QED
        BY <2>6, <3>1, <4>1 DEF ShutdownLast
    <3>2. CASE i \in Len(toMain) + 1 .. Len(toMain) + Len(acks)
      <4>1. i - Len(toMain) \in 1..Len(acks) /\ toMain'[i] = acks[i - Len(toMain)]
        BY <1>l, <2>1, <2>4, <2>5, <3>2
      <4> QED
        BY <2>4, <2>6, <4>1
    <3>3. CASE i \in Len(toMain) + Len(acks) + 1 .. Len(toMain')
      <4>1. closing # 0
        BY <1>l, <2>1, <2>4, <2>5, <3>3
      <4> QED
        BY <2>3, <4>1
    <3> QED
      BY <1>l, <2>1, <2>4, <2>5, <3>1, <3>2, <3>3
  <2> QED
    BY <2>1, <2>2, <2>6 DEF ShutdownLast, ShutdownSettles
<1>8. CASE CommitBatch \/ ReplayWrite
  <2>1. /\ UNCHANGED <<closing, toWorker, toMain, shutdownRequested, issued,
                       shutdownDone>>
        /\ Alive
    BY <1>8 DEF CommitBatch, ReplayWrite, mainVars, Alive
  <2>2. settled <= settled'
    <3>1. CASE CommitBatch
      <4>1. Len(batch) \in Nat /\ settled' = settled + Len(batch)
        BY <3>1 DEF CommitBatch, TypeOK
      <4> QED
        BY <1>l, <4>1
    <3>2. CASE ReplayWrite
      BY <1>l, <3>2 DEF ReplayWrite
    <3> QED
      BY <1>8, <3>1, <3>2
  <2>3. settled' \in Nat /\ settled' <= issued
    BY <2>1, NextTypeOK, NextWrites DEF TypeOK, WritesInOrder, FlushPhases
  <2>4. settled = issued => settled' = issued
    BY <1>l, <2>2, <2>3
  <2> QED
    BY <2>1, <2>4 DEF ShutdownLast, ShutdownSettles
<1>9. CASE WorkerDies
  BY <1>9 DEF WorkerDies, mainVars, historyVars, ShutdownLast, ShutdownSettles, Alive
<1>10. CASE CrashAndRestart
  BY <1>10 DEF CrashAndRestart, ShutdownLast, ShutdownSettles
<1>11. CASE UNCHANGED vars
  BY <1>11 DEF vars, mainVars, workerVars, historyVars, ShutdownLast,
     ShutdownSettles, Alive
<1> QED
  BY <1>1, <1>2, <1>3, <1>4, <1>5, <1>6, <1>7, <1>8, <1>9, <1>10, <1>11
  DEF Next, MainHandles, FlushStep

-----------------------------------------------------------------------------
(* The inductive invariant and what follows from it.                       *)

LEMMA InitIInv == Init => IInv
  BY InitTypeOK, InitWrites, InitFates, InitFlushes, InitShutdowns
  DEF IInv, WritesInOrder, Fates, Flushes, Shutdowns

LEMMA NextIInv == IInv /\ [Next]_vars => IInv'
  BY NextTypeOK, NextWrites, NextFates, NextFlushes, NextShutdowns
  DEF IInv, WritesInOrder, Fates, Flushes, Shutdowns

(* Every write and every request stays on its way from the caller to the   *)
(* disk, in order, through retries, replays, deaths of the worker and      *)
(* crashes.                                                                *)
THEOREM Invariance == Spec => []IInv
  BY InitIInv, NextIInv, PTL DEF Spec

(* A forced persist acknowledged by the worker covers all earlier writes.  *)
THEOREM AcknowledgedFlushesAreSettled == Spec => []AckedAreSettled
<1>1. IInv => AckedAreSettled
  BY DEF IInv
<1> QED
  BY Invariance, <1>1, PTL

(* Rows are committed in the order of the calls and none twice.            *)
THEOREM CommitsInOrder == Spec => []CommitOrder
<1>1. IInv => CommitOrder
  BY DEF IInv
<1> QED
  BY Invariance, <1>1, PTL

(* No write is forgotten or has two fates.                                 *)
THEOREM WritesHaveOneFate == Spec => []OneFate
<1>1. IInv => OneFate
  BY DEF IInv
<1> QED
  BY Invariance, <1>1, PTL

(* A completed shutdown has settled every write posted.                    *)
THEOREM ShutdownIsComplete == Spec => []ShutdownSettles
<1>1. IInv => ShutdownSettles
  BY DEF IInv
<1> QED
  BY Invariance, <1>1, PTL
-----------------------------------------------------------------------------
(* The refinement of the abstract store.                                   *)

(* The next writes, committed in order: one step of the abstract store, or *)
(* none when there were no writes.                                         *)
LEMMA CommitSettles ==
  ASSUME TypeOK, QueuesInOrder, FlushPhases, ChannelInOrder, CommitBatch
  PROVE  Abstract!Next \/ UNCHANGED Abstract!vars
<1> DEFINE k == Len(batch)
           n == Len(durable)
<1>1. /\ durable \in Seq(Nat) /\ batch \in Seq(Nat) /\ n \in Nat /\ k \in Nat
      /\ settled \in Nat /\ issued \in Nat
      /\ \A i \in 1..k : batch[i] = settled + i
      /\ settled + k <= issued
  BY DEF TypeOK, QueuesInOrder, ChannelInOrder, Received, CommitBatch, Alive
<1>2. /\ durable' = durable \o batch /\ settled' = settled + k
      /\ UNCHANGED <<issued, lost, upTo, pendingFlushes, acked, dropped>>
  BY DEF CommitBatch, mainVars
<1>3. CASE k = 0
  <2>1. batch = << >>
    BY <1>1, <1>3
  <2>2. durable' = durable /\ settled' = settled
    BY <1>1, <1>2, <1>3, <2>1
  <2>3. QED BY <1>2, <2>2 DEF Abstract!vars
<1>4. CASE k # 0
  <2>1. /\ Len(durable') = n + k
        /\ \A i \in 1..n : durable'[i] = durable[i]
        /\ \A i \in n + 1..n + k : durable'[i] = settled + (i - n)
    BY <1>1, <1>2
  <2>2. Abstract!Settle(k)
    <3> DEFINE kept == {durable'[i] : i \in n + 1..Len(durable')}
    <3>1. kept = settled + 1..settled + k
      <4>1. ASSUME NEW w \in settled + 1..settled + k PROVE w \in kept
        <5>1. PICK i \in n + 1..n + k : settled + (i - n) = w
          <6>1. \E m \in Nat : w = settled + m /\ m <= k /\ m >= 1
            BY <1>1
          <6>2. PICK m \in Nat : w = settled + m /\ m <= k /\ m >= 1
            BY <6>1
          <6> HIDE DEF n, k
          <6>3. n + m \in n + 1..n + k /\ settled + ((n + m) - n) = w
            BY <1>1, <6>2
          <6>4. QED BY <6>3
        <5>2. durable'[i] = w /\ i \in n + 1..Len(durable')
          BY <2>1, <5>1
        <5>3. QED BY <5>2
      <4>2. ASSUME NEW i \in n + 1..Len(durable')
            PROVE  durable'[i] \in settled + 1..settled + k
        BY <1>1, <2>1
      <4>3. QED BY <4>1, <4>2
    <3>2. dropped' = dropped \cup ((settled + 1..settled + k) \ kept)
      BY <1>2, <3>1
    <3>3. \A i, j \in n + 1..Len(durable') : i < j => durable'[i] < durable'[j]
      BY <1>1, <2>1
    <3>4. QED BY <1>1, <1>2, <2>1, <3>1, <3>2, <3>3 DEF Abstract!Settle
  <2>3. k \in 1..(issued - settled)
    BY <1>1, <1>4
  <2>4. QED BY <2>2, <2>3 DEF Abstract!Next
<1>5. QED BY <1>3, <1>4

(* One write of a replay settles, committed or dropped.                    *)
LEMMA ReplaySettles ==
  ASSUME TypeOK, QueuesInOrder, FlushPhases, ChannelInOrder, ReplayWrite
  PROVE  Abstract!Next
<1> DEFINE w == settled + 1
           n == Len(durable)
<1>1. /\ durable \in Seq(Nat) /\ batch \in Seq(Nat) /\ n \in Nat /\ batch # << >>
      /\ Len(batch) \in Nat /\ Len(writeQueue) \in Nat
      /\ settled \in Nat /\ issued \in Nat /\ Alive
  BY DEF TypeOK, ReplayWrite, Alive
<1>2. Head(batch) = w /\ w <= issued
  <2>1. Len(batch) > 0 /\ Head(batch) = batch[1] /\ 1 \in 1..Len(batch)
    BY <1>1
  <2>2. QED BY <1>1, <2>1 DEF QueuesInOrder, ChannelInOrder, Received
<1>3. /\ settled' = settled + 1
      /\ UNCHANGED <<issued, lost, upTo, pendingFlushes, acked>>
      /\ \/ durable' = Append(durable, w) /\ dropped' = dropped
         \/ durable' = durable /\ dropped' = dropped \cup {w}
  BY <1>2 DEF ReplayWrite, mainVars
<1>4. settled + 1..settled + 1 = {w}
  BY <1>1
<1> DEFINE kept == {durable'[i] : i \in n + 1..Len(durable')}
<1>5. CASE durable' = Append(durable, w) /\ dropped' = dropped
  <2>1. /\ Len(durable') = n + 1 /\ durable'[n + 1] = w
        /\ \A i \in 1..n : durable'[i] = durable[i]
    BY <1>1, <1>5
  <2>2. \A i \in n + 1..Len(durable') : i = n + 1
    BY <1>1, <2>1
  <2>3. kept = {w} /\ n + 1 \in n + 1..Len(durable')
    BY <1>1, <2>1, <2>2
  <2>4. dropped' = dropped \cup ((settled + 1..settled + 1) \ kept)
    BY <1>4, <1>5, <2>3
  <2>5. Abstract!Settle(1)
    BY <1>1, <1>2, <1>3, <1>4, <2>1, <2>2, <2>3, <2>4 DEF Abstract!Settle
  <2>6. QED BY <1>1, <1>2, <2>5 DEF Abstract!Next
<1>6. CASE durable' = durable /\ dropped' = dropped \cup {w}
  <2>1. n + 1..Len(durable') = {}
    BY <1>1, <1>6
  <2>2. kept = {}
    BY <2>1
  <2>3. dropped' = dropped \cup ((settled + 1..settled + 1) \ kept)
    BY <1>4, <1>6, <2>2
  <2>4. Abstract!Settle(1)
    BY <1>1, <1>2, <1>3, <1>6, <2>1, <2>2, <2>3 DEF Abstract!Settle
  <2>5. QED BY <1>1, <1>2, <2>4 DEF Abstract!Next
<1>7. QED BY <1>3, <1>5, <1>6

LEMMA StepRefines ==
  ASSUME IInv, [Next]_vars
  PROVE  Abstract!Next \/ UNCHANGED Abstract!vars
<1>1. CASE EnqueueWorkerWrite
  BY <1>1 DEF EnqueueWorkerWrite, Abstract!Issue, Abstract!Next
<1>2. CASE Flush
  <2>1. msgSeq + 1 \in Ids /\ msgSeq + 1 \notin pendingFlushes
    BY <1>2 DEF Flush, IInv, FlushesTracked, TypeOK, Ids
  <2>2. Abstract!RequestFlush(msgSeq + 1)
    BY <1>2, <2>1 DEF Flush, Abstract!RequestFlush
  <2>3. QED BY <2>1, <2>2 DEF Abstract!Next
<1>3. CASE OnFlushComplete
  <2> DEFINE f == Head(toMain).id
  <2>1. /\ pendingFlushes' = pendingFlushes \ {f}
        /\ acked' = IF f \in pendingFlushes THEN acked \cup {f} ELSE acked
        /\ UNCHANGED <<issued, settled, durable, dropped, lost, upTo>>
    BY <1>3 DEF OnFlushComplete
  <2>2. upTo[f] <= settled
    <3>1. toMain \in Seq(Responses) /\ toMain # << >> /\ Head(toMain).type = "flush_complete"
      BY <1>3 DEF OnFlushComplete, IInv, TypeOK
    <3>2. Head(toMain) = toMain[1] /\ 1 \in 1..Len(toMain)
      BY <3>1
    <3>3. QED BY <3>1, <3>2 DEF IInv, FlushesTracked
  <2> HIDE DEF f
  <2>3. CASE f \in pendingFlushes
    <3>1. f \in Ids
      BY <2>3 DEF IInv, TypeOK
    <3>2. Abstract!Ack(f)
      BY <2>1, <2>2, <2>3 DEF Abstract!Ack
    <3>3. QED BY <3>1, <3>2 DEF Abstract!Next
  <2>4. CASE f \notin pendingFlushes
    BY <2>1, <2>4 DEF Abstract!vars
  <2>5. QED BY <2>3, <2>4
<1>4. CASE OnWorkerError
  BY <1>4 DEF OnWorkerError, historyVars, Abstract!GiveUp, Abstract!Next
<1>5. CASE CommitBatch
  BY <1>5, CommitSettles DEF IInv
<1>6. CASE ReplayWrite
  BY <1>6, ReplaySettles DEF IInv
<1>7. CASE CrashAndRestart
  BY <1>7 DEF CrashAndRestart, Abstract!Crash, Abstract!Next
<1>8. CASE \/ RequestShutdown \/ OnShutdownComplete
           \/ ReceiveRun \/ ReceiveFlush \/ ReceiveShutdown \/ TimerTick
  BY <1>8 DEF RequestShutdown, OnShutdownComplete, ReceiveRun, ReceiveFlush,
     ReceiveShutdown, TimerTick, mainVars, historyVars, Abstract!vars
<1>9. CASE TakeBatch \/ EndFlush \/ RequeueBatch \/ StartReplay \/ EndReplay \/ WorkerDies
  BY <1>9 DEF TakeBatch, EndFlush, RequeueBatch, StartReplay, EndReplay, WorkerDies,
     mainVars, historyVars, Abstract!vars
<1>10. CASE UNCHANGED vars
  BY <1>10 DEF vars, mainVars, historyVars, Abstract!vars
<1>11. QED
  BY <1>1, <1>2, <1>3, <1>4, <1>5, <1>6, <1>7, <1>8, <1>9, <1>10
  DEF Next, MainHandles, FlushStep

(* Whatever locks, poison writes, retries, deaths of the worker and        *)
(* crashes do to the queues, the layer keeps the promise of WriteBehind:   *)
(* writes settle in order, once, a flush that resolves covers what was     *)
(* issued before it, a crash loses a suffix (state.persistence.ts,         *)
(* state.worker.ts).                                                       *)
THEOREM ImplementsWriteBehind == Spec => AbstractSpec
<1>1. Init => Abstract!Init
  BY DEF Init, Abstract!Init
<1>2. IInv /\ [Next]_vars => [Abstract!Next]_(Abstract!vars)
  BY StepRefines
<1>3. QED BY <1>1, <1>2, Invariance, PTL DEF Spec, AbstractSpec, Abstract!Spec

=============================================================================
