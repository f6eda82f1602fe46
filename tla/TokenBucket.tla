---------------------------- MODULE TokenBucket ----------------------------
(***************************************************************************)
(* The token bucket that paces the RPC calls to one endpoint               *)
(* (core/utils/solana.ts, makePriorityTokenBucket).  Nothing runs when a   *)
(* token becomes due: tokens are added in arrears by whoever calls         *)
(* processQueues, an arriving request or one of the timers that earlier    *)
(* calls left behind.                                                      *)
(*                                                                         *)
(* Time passes in intervals of intervalMs; unclaimed counts those since    *)
(* lastRefillAt.  A timer may run late, and, timers being rounded to       *)
(* milliseconds, a little early.  Within a priority requests leave in the  *)
(* order they came, so a queue is its length.                              *)
(***************************************************************************)
EXTENDS Naturals

CONSTANTS
    Rate,                  \* ratePerSec
    MaxRequests            \* bound on the requests

ASSUME BucketAssumption == Rate \in Nat \ {0} /\ MaxRequests \in Nat

Priorities == {"ULTRA_HIGH", "HIGH", "MEDIUM", "LOW"}

\* The priorities served before p.
Above(p) ==
    CASE p = "ULTRA_HIGH" -> {}
      [] p = "HIGH" -> {"ULTRA_HIGH"}
      [] p = "MEDIUM" -> {"ULTRA_HIGH", "HIGH"}
      [] p = "LOW" -> {"ULTRA_HIGH", "HIGH", "MEDIUM"}

Lengths == [Priorities -> Nat]

VARIABLES
    tokens,
    unclaimed,             \* intervals passed since lastRefillAt
    queues,                \* priority -> requests waiting
    timers,                \* timeouts armed to call processQueues
    granted,               \* history: priority -> requests let through
    requests               \* requests so far

vars == <<tokens, unclaimed, queues, timers, granted, requests>>

Least(m, n) == IF m < n THEN m ELSE n

Total(q) == q["ULTRA_HIGH"] + q["HIGH"] + q["MEDIUM"] + q["LOW"]
None == [p \in Priorities |-> 0]

TypeOK ==
    /\ tokens \in 0..Rate /\ unclaimed \in 0..Rate
    /\ queues \in Lengths /\ granted \in Lengths
    /\ requests \in 0..MaxRequests /\ timers \in 0..requests

Init ==
    /\ tokens = Rate /\ unclaimed = 0
    /\ queues = None /\ timers = 0
    /\ granted = None /\ requests = 0

-----------------------------------------------------------------------------

Refilled_Uncapped == tokens + unclaimed        \* Mutant: the bucket overflows
\* refill
Refilled == Least(Rate, tokens + unclaimed)

Served_LowFirst(q, t) ==                       \* Mutant: the order reversed
    [p \in Priorities |->
       LET before == CASE p = "LOW" -> 0
                       [] p = "MEDIUM" -> q["LOW"]
                       [] p = "HIGH" -> q["LOW"] + q["MEDIUM"]
                       [] p = "ULTRA_HIGH" -> q["LOW"] + q["MEDIUM"] + q["HIGH"]
       IN  IF before >= t THEN 0 ELSE Least(q[p], t - before)]

\* The loop of processQueues: t tokens go to the first t requests, by priority.
Served(q, t) ==
    [p \in Priorities |->
       LET before == CASE p = "ULTRA_HIGH" -> 0
                       [] p = "HIGH" -> q["ULTRA_HIGH"]
                       [] p = "MEDIUM" -> q["ULTRA_HIGH"] + q["HIGH"]
                       [] p = "LOW" -> q["ULTRA_HIGH"] + q["HIGH"] + q["MEDIUM"]
       IN  IF before >= t THEN 0 ELSE Least(q[p], t - before)]

Rearm_Never(q) == 0                            \* Mutant: no timer is left behind
Rearm(q) == IF Total(q) > 0 THEN 1 ELSE 0

\* processQueues on the queues q, with t timers armed.
ProcessQueues(q, t) ==
    LET served == Served(q, Refilled)
        left   == [p \in Priorities |-> q[p] - served[p]]
    IN  /\ tokens' = Refilled - Total(served)
        /\ unclaimed' = 0
        /\ queues' = left
        /\ granted' = [p \in Priorities |-> granted[p] + served[p]]
        /\ timers' = t + Rearm(left)

\* acquireToken: every request that has to wait arms one more timer.
AcquireToken(p) ==
    /\ requests < MaxRequests
    /\ requests' = requests + 1
    /\ ProcessQueues([queues EXCEPT ![p] = @ + 1], timers)

\* onAbort takes the request out without calling processQueues; the test for
\* aborted requests there only repeats this for one whose listener is yet to run.
Abort(p) ==
    /\ queues[p] > 0
    /\ queues' = [queues EXCEPT ![p] = @ - 1]
    /\ UNCHANGED <<tokens, unclaimed, timers, granted, requests>>

TimerFires ==
    /\ timers > 0
    /\ ProcessQueues(queues, timers - 1)
    /\ UNCHANGED requests

\* More than Rate unclaimed intervals refill the bucket as Rate of them do.
IntervalPasses ==
    /\ unclaimed' = Least(Rate, unclaimed + 1)
    /\ UNCHANGED <<tokens, queues, timers, granted, requests>>

Next ==
    \/ \E p \in Priorities : AcquireToken(p) \/ Abort(p)
    \/ TimerFires \/ IntervalPasses

Spec == Init /\ [][Next]_vars

\* Time goes on and timers run.
FairSpec == Spec /\ WF_vars(IntervalPasses) /\ WF_vars(TimerFires /\ unclaimed > 0)

-----------------------------------------------------------------------------
(* Properties.                                                             *)

\* A request that waits is waiting for a token, and a timer will look after
\* it: no token idles beside a queue, and no wake-up is lost, although the
\* timers that served others end and the aborts call nobody.
WaitersWatched == Total(queues) > 0 => tokens = 0 /\ timers > 0

\* A request is let through only when none of a higher priority stays behind,
\* whichever call of processQueues serves it.
HigherFirst ==
    [][\A p \in Priorities : granted'[p] > granted[p] =>
         \A h \in Above(p) : queues'[h] = 0]_vars

\* When the callers pause, everyone who waits is let through.
QueuesDrain == []<>(Total(queues) = 0)

\* Refilling in arrears lets through no more than a bucket refilled on time,
\* however late the timers run and however they and the requests interleave.
Limiter == INSTANCE RateLimiter WITH
             credit <- Least(Rate, tokens + unclaimed), granted <- Total(granted)
LimiterSpec == Limiter!Spec

=============================================================================
