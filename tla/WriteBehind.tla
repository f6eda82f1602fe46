----------------------------- MODULE WriteBehind -----------------------------
(***************************************************************************)
(* What the persistence layer (core/state/state.persistence.ts and         *)
(* core/state/state.worker.ts) promises to the rest of the bot, whatever   *)
(* its threads, queues and retries are: every write handed over is settled *)
(* in the order it was handed over, once, by being committed or dropped; a *)
(* flush that resolves does so after every write issued before it; a crash *)
(* loses only a suffix of the writes.                                      *)
(*                                                                         *)
(* A write is its number in the order of issue: 1, 2, 3, ...               *)
(***************************************************************************)
EXTENDS Naturals, Sequences

CONSTANT Ids                  \* identifiers of flush requests

VARIABLES
  issued,                     \* number of writes handed over so far
  settled,                    \* writes 1..settled have reached their end
  durable,                    \* the committed writes, in commit order
  dropped,                    \* writes given up by the worker
  lost,                       \* writes that a crash of the process lost
  upTo,                       \* upTo[f]: issued when flush f was requested
  pendingFlushes,             \* flushes whose caller still waits
  acked                       \* flushes reported complete

vars == <<issued, settled, durable, dropped, lost, upTo, pendingFlushes, acked>>

Committed == {durable[i] : i \in 1..Len(durable)}

Init ==
  /\ issued = 0 /\ settled = 0
  /\ durable = << >> /\ dropped = {} /\ lost = {}
  /\ upTo = [f \in Ids |-> 0]
  /\ pendingFlushes = {} /\ acked = {}

Issue ==
  /\ issued' = issued + 1
  /\ UNCHANGED <<settled, durable, dropped, lost, upTo, pendingFlushes, acked>>

(* The next k writes settle: the committed ones are appended in order, the *)
(* rest are dropped.                                                       *)
Settle(k) ==
  LET new == settled + 1 .. settled + k
      kept == {durable'[i] : i \in Len(durable) + 1 .. Len(durable')}
  IN /\ settled + k <= issued
     /\ settled' = settled + k
     /\ Len(durable') >= Len(durable)
     /\ \A i \in 1..Len(durable) : durable'[i] = durable[i]
     /\ kept \subseteq new
     /\ \A i, j \in Len(durable) + 1 .. Len(durable') :
          i < j => durable'[i] < durable'[j]
     /\ dropped' = dropped \cup (new \ kept)
     /\ UNCHANGED <<issued, lost, upTo, pendingFlushes, acked>>

RequestFlush(f) ==
  /\ f \notin pendingFlushes
  /\ pendingFlushes' = pendingFlushes \cup {f}
  /\ upTo' = [upTo EXCEPT ![f] = issued]
  /\ UNCHANGED <<issued, settled, durable, dropped, lost, acked>>

(* A flush is reported complete only when all it waited for has settled.   *)
Ack(f) ==
  /\ f \in pendingFlushes
  /\ upTo[f] <= settled
  /\ pendingFlushes' = pendingFlushes \ {f}
  /\ acked' = acked \cup {f}
  /\ UNCHANGED <<issued, settled, durable, dropped, lost, upTo>>

(* The worker failed: the callers are released without a promise.          *)
GiveUp ==
  /\ pendingFlushes' = {}
  /\ UNCHANGED <<issued, settled, durable, dropped, lost, upTo, acked>>

(* The process dies and starts again: what had not settled is lost.        *)
Crash ==
  /\ lost' = lost \cup (settled + 1 .. issued)
  /\ settled' = issued
  /\ pendingFlushes' = {} /\ acked' = {}
  /\ upTo' = [f \in Ids |-> 0]
  /\ UNCHANGED <<issued, durable, dropped>>

Next ==
  \/ Issue
  \/ \E k \in 1..(issued - settled) : Settle(k)
  \/ \E f \in Ids : RequestFlush(f) \/ Ack(f)
  \/ GiveUp
  \/ Crash

Spec == Init /\ [][Next]_vars
=============================================================================
