--------------------------- MODULE StatePersistence ---------------------------
(***************************************************************************)
(* The write-behind persistence of the bot.  The main thread               *)
(* (core/state/state.persistence.ts) posts every store write to a worker   *)
(* thread (core/state/state.worker.ts), which queues it and commits the    *)
(* queue to SQLite in one transaction per flush.  Both message directions  *)
(* are FIFO channels.  A flush runs inside one turn of the worker's event  *)
(* loop, so no message is handled during it, but the process may die       *)
(* between any two of its steps and the main thread runs beside it.        *)
(*                                                                         *)
(* A write is its number in the order the main thread posted it; the field *)
(* n of a message is the number of writes posted up to and including it (a *)
(* history value, the code has only the order).                            *)
(***************************************************************************)
EXTENDS Naturals, Sequences

CONSTANTS
  MaxRequests,          \* bound on the flush and shutdown requests
  MaxWrites,            \* bound on the writes posted
  MaxCrashes,           \* bound on the crashes of the process
  MaxTransientRetries,  \* MAX_TRANSIENT_RETRIES
  LockContention,       \* another process may hold the database lock
  WorkerMayFail         \* the worker thread may die of an uncaught error

ASSUME BoundsAssumption ==
  /\ MaxRequests \in Nat /\ MaxWrites \in Nat /\ MaxCrashes \in Nat
  /\ MaxTransientRetries \in Nat
ASSUME SwitchesAssumption ==
  LockContention \in BOOLEAN /\ WorkerMayFail \in BOOLEAN

VARIABLES
  \* main thread
  issued,               \* writes posted
  msgSeq,               \* _msgSeq
  pendingFlushes,       \* keys of _pendingFlushes
  pendingShutdown,      \* id of the shutdown awaited, 0 when none
  shutdownRequested,    \* _shutdownRequested
  errorSeen,            \* the 'error' event of the worker was handled
  \* channels
  toWorker,             \* messages posted to the worker, not yet handled
  toMain,               \* messages posted by the worker, not yet handled
  \* worker thread
  worker,               \* "idle", in flush() at "flush", "attempt" or
                        \* "replay", "closed" or "dead"
  writeQueue,           \* writes received and not taken by a flush
  batch,                \* writes taken by the flush in progress
  pendingFlushIds,      \* flush ids to acknowledge when the queue is empty
  transientRetries,
  inTransientRetry,
  closing,              \* id of the shutdown message being handled, or 0
  \* database
  durable,              \* committed writes, in the order of their commits
  \* history
  settled,              \* writes 1..settled were committed, dropped or lost
  dropped,              \* writes replayIndividually gave up
  lost,                 \* writes lost with the process
  poison,               \* writes SQLite can never accept
  upTo,                 \* upTo[f]: issued when flush f was posted
  acked,                \* flushes resolved by flush_complete
  shutdownDone,         \* requestShutdown resolved by shutdown_complete
  crashes               \* crashes so far

mainVars == <<issued, msgSeq, pendingFlushes, pendingShutdown,
              shutdownRequested, errorSeen>>
workerVars == <<worker, writeQueue, batch, pendingFlushIds, transientRetries,
                inTransientRetry, closing>>
historyVars == <<settled, dropped, lost, poison, upTo, acked, shutdownDone,
                 crashes>>
vars == <<mainVars, toWorker, toMain, workerVars, durable, historyVars>>

-----------------------------------------------------------------------------
Ids == 1..MaxRequests    \* the values _msgSeq takes

Alive == worker \notin {"closed", "dead"}

Run(n)           == [type |-> "run", id |-> 0, n |-> n]
FlushMsg(f, n)   == [type |-> "flush", id |-> f, n |-> n]
ShutdownMsg(f, n) == [type |-> "shutdown", id |-> f, n |-> n]
Requests == [type : {"run"}, id : {0}, n : Nat]
            \cup [type : {"flush", "shutdown"}, id : Ids, n : Nat]

Complete(f)     == [type |-> "flush_complete", id |-> f]
ShutdownComplete(f) == [type |-> "shutdown_complete", id |-> f]
Responses == [type : {"flush_complete", "shutdown_complete"}, id : Ids]

(* postMessage: a thread that has ended receives nothing.                  *)
Post(m) == toWorker' = IF Alive THEN Append(toWorker, m) ELSE toWorker

Init ==
  /\ issued = 0 /\ msgSeq = 0 /\ pendingFlushes = {} /\ pendingShutdown = 0
  /\ shutdownRequested = FALSE /\ errorSeen = FALSE
  /\ toWorker = << >> /\ toMain = << >>
  /\ worker = "idle" /\ writeQueue = << >> /\ batch = << >>
  /\ pendingFlushIds = << >> /\ transientRetries = 0
  /\ inTransientRetry = FALSE /\ closing = 0
  /\ durable = << >>
  /\ settled = 0 /\ dropped = {} /\ lost = {} /\ poison = {}
  /\ upTo = [f \in Ids |-> 0] /\ acked = {} /\ shutdownDone = FALSE
  /\ crashes = 0

-----------------------------------------------------------------------------
(* Main thread.                                                            *)

(* _enqueueWorkerWrite: one run message per write; refused, without a      *)
(* trace, once shutdown was requested (the guard).                         *)
EnqueueWorkerWrite ==
  /\ ~shutdownRequested
  /\ issued < MaxWrites
  /\ issued' = issued + 1
  /\ \E bad \in BOOLEAN :
       poison' = IF bad THEN poison \cup {issued + 1} ELSE poison
  /\ Post(Run(issued + 1))
  /\ UNCHANGED <<msgSeq, pendingFlushes, pendingShutdown, shutdownRequested,
                 errorSeen, toMain, workerVars, durable, settled, dropped,
                 lost, upTo, acked, shutdownDone, crashes>>

(* flush(), also reached by persist({force}): post a request, return a     *)
(* promise that flush_complete resolves.                                   *)
Flush ==
  /\ ~shutdownRequested
  /\ msgSeq + 1 \in Ids
  /\ msgSeq' = msgSeq + 1
  /\ pendingFlushes' = pendingFlushes \cup {msgSeq + 1}
  /\ upTo' = [upTo EXCEPT ![msgSeq + 1] = issued]
  /\ Post(FlushMsg(msgSeq + 1, issued))
  /\ UNCHANGED <<issued, pendingShutdown, shutdownRequested, errorSeen, toMain,
                 workerVars, durable, settled, dropped, lost, poison, acked,
                 shutdownDone, crashes>>

RequestShutdown ==
  /\ ~shutdownRequested
  /\ msgSeq + 1 \in Ids
  /\ shutdownRequested' = TRUE
  /\ msgSeq' = msgSeq + 1
  /\ pendingShutdown' = msgSeq + 1
  /\ Post(ShutdownMsg(msgSeq + 1, issued))
  /\ UNCHANGED <<issued, pendingFlushes, errorSeen, toMain, workerVars, durable,
                 historyVars>>

OnFlushComplete ==
  /\ toMain # << >> /\ Head(toMain).type = "flush_complete"
  /\ toMain' = Tail(toMain)
  /\ LET f == Head(toMain).id
     IN /\ pendingFlushes' = pendingFlushes \ {f}
        /\ acked' = IF f \in pendingFlushes THEN acked \cup {f} ELSE acked
  /\ UNCHANGED <<issued, msgSeq, pendingShutdown, shutdownRequested, errorSeen,
                 toWorker, workerVars, durable, settled, dropped, lost, poison,
                 upTo, shutdownDone, crashes>>

OnShutdownComplete ==
  /\ toMain # << >> /\ Head(toMain).type = "shutdown_complete"
  /\ toMain' = Tail(toMain)
  /\ pendingShutdown' = 0
  /\ shutdownDone' = (shutdownDone \/ pendingShutdown # 0)
  /\ UNCHANGED <<issued, msgSeq, pendingFlushes, shutdownRequested, errorSeen,
                 toWorker, workerVars, durable, settled, dropped, lost, poison,
                 upTo, acked, crashes>>

(* Mutant: the 'error' handler forgets the shutdown promise.               *)
OnWorkerError_FlushesOnly ==
  /\ worker = "dead" /\ ~errorSeen
  /\ errorSeen' = TRUE
  /\ pendingFlushes' = {}
  /\ UNCHANGED <<issued, msgSeq, pendingShutdown, shutdownRequested, toWorker,
                 toMain, workerVars, durable, historyVars>>

(* The 'error' handler releases every waiting caller; _worker stays set.   *)
OnWorkerError ==
  /\ worker = "dead" /\ ~errorSeen
  /\ errorSeen' = TRUE
  /\ pendingFlushes' = {}
  /\ pendingShutdown' = 0
  /\ UNCHANGED <<issued, msgSeq, shutdownRequested, toWorker, toMain,
                 workerVars, durable, historyVars>>

-----------------------------------------------------------------------------
(* Worker thread: the message handler and the timer, when the thread is    *)
(* idle.                                                                   *)

Receive(type) ==
  /\ worker = "idle"
  /\ toWorker # << >> /\ Head(toWorker).type = type
  /\ toWorker' = Tail(toWorker)

ReceiveRun ==
  /\ Receive("run")
  /\ writeQueue' = Append(writeQueue, Head(toWorker).n)
  /\ UNCHANGED <<mainVars, toMain, worker, batch, pendingFlushIds,
                 transientRetries, inTransientRetry, closing, durable,
                 historyVars>>

ReceiveFlush ==
  /\ Receive("flush")
  /\ pendingFlushIds' = Append(pendingFlushIds, Head(toWorker).id)
  /\ worker' = "flush"
  /\ UNCHANGED <<mainVars, toMain, writeQueue, batch, transientRetries,
                 inTransientRetry, closing, durable, historyVars>>

ReceiveShutdown ==
  /\ Receive("shutdown")
  /\ closing' = Head(toWorker).id
  /\ worker' = "flush"
  /\ UNCHANGED <<mainVars, toMain, writeQueue, batch, pendingFlushIds,
                 transientRetries, inTransientRetry, durable, historyVars>>

TimerTick ==
  /\ worker = "idle"
  /\ worker' = "flush"
  /\ UNCHANGED <<mainVars, toWorker, toMain, writeQueue, batch, pendingFlushIds,
                 transientRetries, inTransientRetry, closing, durable,
                 historyVars>>

(* flush(): isFlushing is (worker # "idle").  The finally block either     *)
(* calls flush() again or acknowledges, which is what flush() does on an   *)
(* empty queue, so every path comes back to "flush".                       *)

(* What the flush leaves in the queue it took.  Mutant: a copy is taken,   *)
(* the queue keeps its writes.                                             *)
LeftBehind_Copied == writeQueue
LeftBehind == << >>

(* splice(0), with a fresh retry budget unless this is a retry.            *)
TakeBatch ==
  /\ worker = "flush" /\ writeQueue # << >>
  /\ batch' = writeQueue
  /\ writeQueue' = LeftBehind
  /\ transientRetries' = IF inTransientRetry THEN transientRetries ELSE 0
  /\ worker' = "attempt"
  /\ UNCHANGED <<mainVars, toWorker, toMain, pendingFlushIds, inTransientRetry,
                 closing, durable, historyVars>>

(* Mutant: the finally block acknowledges whatever the queue holds.        *)
NothingQueued_Unchecked == TRUE
NothingQueued == writeQueue = << >>

(* drainPendingFlushIds, and, in the handler of a shutdown message, the    *)
(* close of the database and of the port.                                  *)
EndFlush ==
  /\ worker = "flush" /\ NothingQueued
  /\ toMain' = toMain
       \o [i \in 1..Len(pendingFlushIds) |-> Complete(pendingFlushIds[i])]
       \o (IF closing = 0 THEN << >> ELSE <<ShutdownComplete(closing)>>)
  /\ pendingFlushIds' = << >>
  /\ worker' = IF closing = 0 THEN "idle" ELSE "closed"
  /\ UNCHANGED <<mainVars, toWorker, writeQueue, batch, transientRetries,
                 inTransientRetry, closing, durable, historyVars>>

HasPoison(b) == \E i \in 1..Len(b) : b[i] \in poison

CommitBatch ==
  /\ worker = "attempt" /\ ~HasPoison(batch)
  /\ durable' = durable \o batch
  /\ settled' = settled + Len(batch)
  /\ batch' = << >>
  /\ transientRetries' = 0 /\ inTransientRetry' = FALSE
  /\ worker' = "flush"
  /\ UNCHANGED <<mainVars, toWorker, toMain, writeQueue, pendingFlushIds,
                 closing, dropped, lost, poison, upTo, acked, shutdownDone,
                 crashes>>

RetriesLeft == transientRetries < MaxTransientRetries

(* Mutant: the rolled back batch is not put back.                          *)
Unshifted_Forgotten == writeQueue
Unshifted == batch \o writeQueue

(* SQLITE_BUSY or SQLITE_LOCKED: the transaction is rolled back and the    *)
(* batch goes back to the front of the queue.                              *)
RequeueBatch ==
  /\ worker = "attempt" /\ LockContention /\ RetriesLeft
  /\ transientRetries' = transientRetries + 1
  /\ inTransientRetry' = TRUE
  /\ writeQueue' = Unshifted
  /\ batch' = << >>
  /\ worker' = "flush"
  /\ UNCHANGED <<mainVars, toWorker, toMain, pendingFlushIds, closing, durable,
                 historyVars>>

(* A permanent error, or a transient one with the retries used up.         *)
StartReplay ==
  /\ worker = "attempt"
  /\ \/ HasPoison(batch)
     \/ LockContention /\ ~RetriesLeft
  /\ transientRetries' = 0 /\ inTransientRetry' = FALSE
  /\ worker' = "replay"
  /\ UNCHANGED <<mainVars, toWorker, toMain, writeQueue, batch, pendingFlushIds,
                 closing, durable, historyVars>>

(* The writes that throw in the replay.                                    *)
Throws(w) == w \in poison \/ LockContention

(* replayIndividually: each write in a transaction of its own; one that    *)
(* throws, whatever the error, is logged and dropped.                      *)
ReplayWrite ==
  /\ worker = "replay" /\ batch # << >>
  /\ \/ /\ Head(batch) \notin poison
        /\ durable' = Append(durable, Head(batch))
        /\ dropped' = dropped
     \/ /\ Throws(Head(batch))
        /\ dropped' = dropped \cup {Head(batch)}
        /\ durable' = durable
  /\ settled' = settled + 1
  /\ batch' = Tail(batch)
  /\ UNCHANGED <<mainVars, toWorker, toMain, worker, writeQueue,
                 pendingFlushIds, transientRetries, inTransientRetry, closing,
                 lost, poison, upTo, acked, shutdownDone, crashes>>

EndReplay ==
  /\ worker = "replay" /\ batch = << >>
  /\ worker' = "flush"
  /\ UNCHANGED <<mainVars, toWorker, toMain, writeQueue, batch, pendingFlushIds,
                 transientRetries, inTransientRetry, closing, durable,
                 historyVars>>

-----------------------------------------------------------------------------
(* Environment.                                                            *)

(* An uncaught error ends the worker thread: the database could not be     *)
(* opened, the heap limit was hit.  What it held is gone.                  *)
WorkerDies ==
  /\ WorkerMayFail /\ Alive
  /\ worker' = "dead"
  /\ toWorker' = << >> /\ writeQueue' = << >> /\ batch' = << >>
  /\ pendingFlushIds' = << >>
  /\ UNCHANGED <<mainVars, toMain, transientRetries, inTransientRetry, closing,
                 durable, historyVars>>

(* The process dies at any point; the next one starts from the database    *)
(* (init and loadFromDb) with empty queues and a new worker.               *)
CrashAndRestart ==
  /\ crashes < MaxCrashes
  /\ crashes' = crashes + 1
  /\ lost' = lost \cup (settled + 1 .. issued)
  /\ settled' = issued
  /\ msgSeq' = 0 /\ pendingFlushes' = {} /\ pendingShutdown' = 0
  /\ shutdownRequested' = FALSE /\ errorSeen' = FALSE
  /\ toWorker' = << >> /\ toMain' = << >>
  /\ worker' = "idle" /\ writeQueue' = << >> /\ batch' = << >>
  /\ pendingFlushIds' = << >> /\ transientRetries' = 0
  /\ inTransientRetry' = FALSE /\ closing' = 0
  /\ upTo' = [f \in Ids |-> 0] /\ acked' = {} /\ shutdownDone' = FALSE
  /\ UNCHANGED <<issued, durable, dropped, poison>>

-----------------------------------------------------------------------------
MainHandles == OnFlushComplete \/ OnShutdownComplete \/ OnWorkerError

FlushStep ==
  \/ TakeBatch \/ EndFlush
  \/ CommitBatch \/ RequeueBatch \/ StartReplay \/ ReplayWrite \/ EndReplay

Next ==
  \/ EnqueueWorkerWrite \/ Flush \/ RequestShutdown
  \/ MainHandles
  \/ ReceiveRun \/ ReceiveFlush \/ ReceiveShutdown \/ TimerTick
  \/ FlushStep
  \/ WorkerDies \/ CrashAndRestart

Spec == Init /\ [][Next]_vars

(* Both event loops run and setInterval keeps firing.  A turn of the       *)
(* worker, once begun, ends; its steps include the failing attempts, for   *)
(* nothing promises that a lock is ever released.  Node serves the message *)
(* port in every iteration of the loop, so timer turns cannot starve it:   *)
(* strong fairness, as each timer turn disables the handlers for a while.  *)
Fairness ==
  /\ WF_vars(MainHandles)
  /\ WF_vars(FlushStep)
  /\ SF_vars(ReceiveRun \/ ReceiveFlush \/ ReceiveShutdown)
  /\ WF_vars(TimerTick)

FairSpec == Spec /\ Fairness

-----------------------------------------------------------------------------
(* Properties.                                                             *)

(* The variables stay in their ranges; the retry counter of the worker     *)
(* never passes its cap.                                                   *)
TypeOK ==
  /\ issued \in Nat /\ msgSeq \in Ids \cup {0}
  /\ pendingFlushes \subseteq Ids /\ pendingShutdown \in Ids \cup {0}
  /\ shutdownRequested \in BOOLEAN /\ errorSeen \in BOOLEAN
  /\ toWorker \in Seq(Requests) /\ toMain \in Seq(Responses)
  /\ worker \in {"idle", "flush", "attempt", "replay", "closed", "dead"}
  /\ writeQueue \in Seq(Nat) /\ batch \in Seq(Nat)
  /\ pendingFlushIds \in Seq(Ids)
  /\ transientRetries \in 0..MaxTransientRetries /\ inTransientRetry \in BOOLEAN
  /\ closing \in Ids \cup {0}
  /\ durable \in Seq(Nat) /\ settled \in Nat
  /\ dropped \subseteq Nat /\ lost \subseteq Nat /\ poison \subseteq Nat
  /\ upTo \in [Ids -> Nat] /\ acked \subseteq Ids
  /\ shutdownDone \in BOOLEAN /\ crashes \in Nat

Committed == {durable[i] : i \in 1..Len(durable)}

(* A forced persist that the worker acknowledged covers every write posted *)
(* before it: state.worker.ts acknowledges only on an empty queue, through *)
(* retries, replays and the death of the worker.                           *)
AckedAreSettled == \A f \in acked : upTo[f] <= settled

(* Rows reach SQLite in the order of the calls and no write runs twice,    *)
(* although a rolled back batch is queued again: a closed trade is one row *)
(* and a removal is never overtaken by the upsert before it.               *)
CommitOrder ==
  \A i, j \in 1..Len(durable) : i < j => durable[i] < durable[j]

(* Every settled write has exactly one fate: committed, dropped by the     *)
(* replay, or lost with a crash.  None is forgotten between the queue, the *)
(* batch and the retry.                                                    *)
OneFate ==
  /\ 1..settled = Committed \cup dropped \cup lost
  /\ Committed \cap dropped = {} /\ Committed \cap lost = {}
  /\ dropped \cap lost = {}

(* requestShutdown resolves by shutdown_complete only when everything      *)
(* posted before it is settled.                                            *)
ShutdownSettles == shutdownDone => settled = issued

-----------------------------------------------------------------------------
(* The strengthening that makes the safety properties inductive: where     *)
(* each write and each request is on its way from the caller to the disk.  *)

Received == settled + Len(batch) + Len(writeQueue)

(* The batch and the queue hold consecutive writes, starting right after   *)
(* the settled ones.                                                       *)
QueuesInOrder ==
  Alive =>
    /\ \A i \in 1..Len(batch) : batch[i] = settled + i
    /\ \A i \in 1..Len(writeQueue) :
         writeQueue[i] = settled + Len(batch) + i

(* The channel continues the queue up to the last write posted.            *)
ChannelInOrder ==
  Alive =>
    /\ \A i \in 1..Len(toWorker) :
         toWorker[i].n = (IF i = 1 THEN Received ELSE toWorker[i - 1].n)
                         + (IF toWorker[i].type = "run" THEN 1 ELSE 0)
    /\ issued = IF toWorker = << >> THEN Received
                ELSE toWorker[Len(toWorker)].n
    /\ Received <= issued
    /\ \A i \in 1..Len(toWorker) : toWorker[i].n <= issued

(* Where the batch and the queue are empty.                                *)
FlushPhases ==
  /\ worker \notin {"attempt", "replay"} => batch = << >>
  /\ worker \in {"attempt", "replay", "closed"} => writeQueue = << >>
  /\ settled <= issued

(* A flush request carries its promise through every place it is in.       *)
FlushesTracked ==
  /\ Alive => \A i \in 1..Len(toWorker) : toWorker[i].type = "flush" =>
       toWorker[i].id \in 1..msgSeq /\ upTo[toWorker[i].id] = toWorker[i].n
  /\ Alive => \A i \in 1..Len(pendingFlushIds) :
       pendingFlushIds[i] \in 1..msgSeq /\ upTo[pendingFlushIds[i]] <= Received
  /\ \A i \in 1..Len(toMain) : toMain[i].type = "flush_complete" =>
       toMain[i].id \in 1..msgSeq /\ upTo[toMain[i].id] <= settled
  /\ pendingFlushes \subseteq 1..msgSeq /\ acked \subseteq 1..msgSeq

(* Nothing follows a shutdown request.                                     *)
ShutdownLast ==
  /\ Alive => \A i \in 1..Len(toWorker) : toWorker[i].type = "shutdown" =>
       i = Len(toWorker) /\ toWorker[i].id # 0 /\ shutdownRequested
  /\ closing # 0 => toWorker = << >> /\ shutdownRequested
  /\ \A i \in 1..Len(toMain) : toMain[i].type = "shutdown_complete" =>
       shutdownRequested /\ settled = issued
  /\ shutdownDone => shutdownRequested

IInv ==
  /\ TypeOK
  /\ QueuesInOrder /\ ChannelInOrder /\ FlushPhases
  /\ FlushesTracked /\ AckedAreSettled
  /\ ShutdownLast /\ ShutdownSettles
  /\ OneFate /\ CommitOrder

-----------------------------------------------------------------------------
(* Every flush awaited before the worker is known to be dead returns, and  *)
(* so does requestShutdown, which performShutdown awaits last: a lock that *)
(* is never released and a write that always fails do not wedge the queue. *)
RequestsReturn ==
  /\ \A f \in Ids :
       (f \in pendingFlushes /\ ~errorSeen) ~> (f \notin pendingFlushes)
  /\ (pendingShutdown # 0 /\ ~errorSeen) ~> (pendingShutdown = 0)

(* Every write posted settles, with no flush requested: the timer is       *)
(* enough, unless the worker dies.                                         *)
WritesSettle ==
  \A n \in 1..MaxWrites :
    (issued >= n) ~> (settled >= n \/ worker = "dead")

(* No caller waits for ever, and no write either.                          *)
Progress == RequestsReturn /\ WritesSettle

(* The detailed behaviour is one the abstract store allows.                *)
Abstract == INSTANCE WriteBehind
AbstractSpec == Abstract!Spec
=============================================================================
