--------------------------- MODULE Trading_proofs ---------------------------
(***************************************************************************)
(* Proofs about what a live trade goes through, for every rate, pool of    *)
(* endpoints, set of callers and number of requests, calls and retries:    *)
(* the token bucket, the swap, the RPC pool and the shared fetches.  Each  *)
(* part has its own invariant; a step of the composition moves one of them.*)
(***************************************************************************)
EXTENDS MCTrading, FiniteSetTheorems, WellFoundedInduction, TLAPS

-----------------------------------------------------------------------------
(* The token bucket.  TypeOK /\ WaitersWatched is inductive.  Everything    *)
(* rests on one lemma about the loop of processQueues: what Served takes   *)
(* from the queues.                                                        *)


\* Sums of queue lengths are numbers, and are taken priority by priority.
LEMMA LengthsType ==
    ASSUME NEW q \in Lengths
    PROVE  /\ q["ULTRA_HIGH"] \in Nat /\ q["HIGH"] \in Nat
           /\ q["MEDIUM"] \in Nat /\ q["LOW"] \in Nat
           /\ Total(q) \in Nat
BY SMT DEF Lengths, Priorities, Total

\* The loop of processQueues serves min(t, waiting) requests, none that does
\* not wait, and serves a priority only after those above it are empty.
LEMMA ServedCorrect ==
    ASSUME NEW q \in Lengths, NEW t \in Nat
    PROVE  /\ Served(q, t) \in Lengths
           /\ \A p \in Priorities : Served(q, t)[p] <= q[p]
           /\ Total(Served(q, t)) = Least(t, Total(q))
           /\ \A p \in Priorities : Served(q, t)[p] > 0 =>
                \A h \in Above(p) : Served(q, t)[h] = q[h]
<1> DEFINE s == Served(q, t)
<1>1. /\ q["ULTRA_HIGH"] \in Nat /\ q["HIGH"] \in Nat
      /\ q["MEDIUM"] \in Nat /\ q["LOW"] \in Nat
  BY LengthsType
<1>2. /\ s["ULTRA_HIGH"] = IF 0 >= t THEN 0 ELSE Least(q["ULTRA_HIGH"], t - 0)
      /\ s["HIGH"] = IF q["ULTRA_HIGH"] >= t THEN 0
                     ELSE Least(q["HIGH"], t - q["ULTRA_HIGH"])
      /\ s["MEDIUM"] = IF q["ULTRA_HIGH"] + q["HIGH"] >= t THEN 0
                       ELSE Least(q["MEDIUM"], t - (q["ULTRA_HIGH"] + q["HIGH"]))
      /\ s["LOW"] = IF q["ULTRA_HIGH"] + q["HIGH"] + q["MEDIUM"] >= t THEN 0
                    ELSE Least(q["LOW"], t - (q["ULTRA_HIGH"] + q["HIGH"] + q["MEDIUM"]))
      /\ s = [p \in Priorities |-> s[p]]
  BY DEF Served, Priorities
<1>3. /\ s["ULTRA_HIGH"] \in Nat /\ s["HIGH"] \in Nat
      /\ s["MEDIUM"] \in Nat /\ s["LOW"] \in Nat
  BY <1>1, <1>2, SMT DEF Least
<1>4. s \in Lengths
  <2>1. \A p \in Priorities : s[p] \in Nat
    BY <1>3 DEF Priorities
  <2> QED
    BY <2>1, <1>2 DEF Lengths
<1>5. /\ s["ULTRA_HIGH"] <= q["ULTRA_HIGH"] /\ s["HIGH"] <= q["HIGH"]
      /\ s["MEDIUM"] <= q["MEDIUM"] /\ s["LOW"] <= q["LOW"]
  BY <1>1, <1>2, SMT DEF Least
<1>6. Total(s) = Least(t, Total(q))
  BY <1>1, <1>2, SMT DEF Least, Total
<1>7. /\ s["HIGH"] > 0 => s["ULTRA_HIGH"] = q["ULTRA_HIGH"]
      /\ s["MEDIUM"] > 0 => s["ULTRA_HIGH"] = q["ULTRA_HIGH"] /\ s["HIGH"] = q["HIGH"]
      /\ s["LOW"] > 0 => /\ s["ULTRA_HIGH"] = q["ULTRA_HIGH"]
                         /\ s["HIGH"] = q["HIGH"] /\ s["MEDIUM"] = q["MEDIUM"]
  BY <1>1, <1>2, SMT DEF Least
<1> HIDE DEF s
<1>8. \A p \in Priorities : s[p] <= q[p]
  BY <1>5 DEF Priorities
<1>9. \A p \in Priorities : s[p] > 0 => \A h \in Above(p) : s[h] = q[h]
  BY <1>7 DEF Priorities, Above
<1> QED
  BY <1>4, <1>6, <1>8, <1>9 DEF s

\* What is left after some requests of q are served.
LEMMA LeftCorrect ==
    ASSUME NEW q \in Lengths, NEW s \in Lengths, \A p \in Priorities : s[p] <= q[p]
    PROVE  /\ [p \in Priorities |-> q[p] - s[p]] \in Lengths
           /\ Total([p \in Priorities |-> q[p] - s[p]]) = Total(q) - Total(s)
<1>1. \A p \in Priorities : q[p] - s[p] \in Nat
  BY SMT DEF Lengths
<1>2. Total([p \in Priorities |-> q[p] - s[p]]) = Total(q) - Total(s)
  BY LengthsType, SMT DEF Total, Priorities
<1> QED
  BY <1>1, <1>2 DEF Lengths

\* processQueues, run on well-formed queues q with t timers armed: it keeps
\* the types, pays for what it grants out of the refilled tokens, and leaves
\* requests behind only with no token left and a timer armed.
LEMMA ProcessQueuesCorrect ==
    ASSUME TypeOK, NEW q \in Lengths, NEW t \in Nat, ProcessQueues(q, t)
    PROVE  /\ tokens' \in 0..Rate /\ unclaimed' = 0
           /\ queues' \in Lengths /\ granted' \in Lengths
           /\ timers' \in t..(t + 1)
           /\ Total(queues') > 0 => tokens' = 0 /\ timers' > 0
           /\ Total(granted') - Total(granted) = Least(Refilled, Total(q))
           /\ tokens' = Refilled - Least(Refilled, Total(q))
           /\ Total(q) \in Nat
           /\ \A p \in Priorities : granted'[p] > granted[p] =>
                \A h \in Above(p) : queues'[h] = 0
<1> DEFINE served == Served(q, Refilled)
           left   == [p \in Priorities |-> q[p] - served[p]]
<1>1. Refilled \in 0..Rate
  BY BucketAssumption, SMT DEF TypeOK, Refilled, Least
<1>2. /\ served \in Lengths
      /\ \A p \in Priorities : served[p] <= q[p]
      /\ Total(served) = Least(Refilled, Total(q))
      /\ \A p \in Priorities : served[p] > 0 =>
           \A h \in Above(p) : served[h] = q[h]
  <2>1. Refilled \in Nat
    BY <1>1, BucketAssumption, SMT
  <2> QED
    BY <2>1, ServedCorrect
<1>3. Total(q) \in Nat /\ Total(served) \in Nat
  BY <1>2, LengthsType
<1>4. /\ tokens' = Refilled - Total(served)
      /\ unclaimed' = 0
      /\ queues' = left
      /\ granted' = [p \in Priorities |-> granted[p] + served[p]]
      /\ timers' = t + Rearm(left)
  BY Zenon DEF ProcessQueues
<1> HIDE DEF served
<1>5. left \in Lengths /\ Total(left) = Total(q) - Total(served)
  BY <1>2, LeftCorrect
<1>6. tokens' \in 0..Rate
  BY <1>1, <1>2, <1>3, <1>4, BucketAssumption, SMT DEF Least
<1>7. granted' \in Lengths /\ Total(granted') = Total(granted) + Total(served)
  <2>1. granted \in Lengths
    BY DEF TypeOK
  <2>2. \A p \in Priorities : granted[p] + served[p] \in Nat
    BY <2>1, <1>2, SMT DEF Lengths
  <2>3. granted' \in Lengths
    BY <2>2, <1>4 DEF Lengths
  <2>4. Total(granted') = Total(granted) + Total(served)
    BY <2>1, <1>2, <1>4, LengthsType, SMT DEF Total, Priorities
  <2> QED
    BY <2>3, <2>4
<1>8. timers' \in t..(t + 1)
  BY <1>4, SMT DEF Rearm
<1>9. ASSUME Total(queues') > 0
      PROVE  tokens' = 0 /\ timers' > 0
  BY <1>1, <1>2, <1>3, <1>4, <1>5, <1>9, SMT DEF Least, Rearm
<1>10. ASSUME NEW p \in Priorities, granted'[p] > granted[p]
       PROVE  \A h \in Above(p) : queues'[h] = 0
  <2>1. granted[p] \in Nat /\ served[p] \in Nat
    BY <1>2 DEF TypeOK, Lengths
  <2>2. served[p] > 0
    BY <1>4, <1>10, <2>1, SMT
  <2>3. ASSUME NEW h \in Above(p) PROVE queues'[h] = 0
    <3>1. h \in Priorities
      BY DEF Above, Priorities
    <3>2. served[h] = q[h] /\ q[h] \in Nat
      BY <1>2, <2>2, <3>1 DEF Lengths
    <3> QED
      BY <1>4, <3>1, <3>2, SMT
  <2> QED
    BY <2>3
<1>11. Total(granted) \in Nat
  BY LengthsType DEF TypeOK
<1>12. /\ Total(granted') - Total(granted) = Least(Refilled, Total(q))
       /\ tokens' = Refilled - Least(Refilled, Total(q))
  BY <1>2, <1>3, <1>4, <1>7, <1>11, SMT
<1> QED
  BY <1>3, <1>4, <1>5, <1>6, <1>7, <1>8, <1>9, <1>10, <1>12
-----------------------------------------------------------------------------

IInv == TypeOK /\ WaitersWatched

LEMMA InitIInv == Init => IInv
<1> SUFFICES ASSUME Init PROVE IInv
  OBVIOUS
<1>1. None \in Lengths /\ Total(None) = 0
  BY SMT DEF None, Lengths, Priorities, Total
<1> QED
  BY <1>1, BucketAssumption, SMT DEF Init, IInv, TypeOK, WaitersWatched

\* Every step preserves the invariant.
LEMMA NextIInv == IInv /\ [Next]_vars => IInv'
<1> SUFFICES ASSUME IInv, [Next]_vars PROVE IInv'
  OBVIOUS
<1> USE DEF IInv
<1>t. /\ tokens \in 0..Rate /\ unclaimed \in 0..Rate
      /\ queues \in Lengths /\ granted \in Lengths
      /\ requests \in 0..MaxRequests /\ timers \in 0..requests
  BY DEF TypeOK
<1>1. ASSUME NEW p \in Priorities, AcquireToken(p) PROVE IInv'
  <2> DEFINE q == [queues EXCEPT ![p] = @ + 1]
  <2>1. q \in Lengths
    BY <1>t, SMT DEF Lengths
  <2>2. timers \in Nat
    BY <1>t, BucketAssumption, SMT
  <2>3. /\ tokens' \in 0..Rate /\ unclaimed' = 0
        /\ queues' \in Lengths /\ granted' \in Lengths
        /\ timers' \in timers..(timers + 1)
        /\ Total(queues') > 0 => tokens' = 0 /\ timers' > 0
    <3> HIDE DEF q
    <3>1. ProcessQueues(q, timers)
      BY <1>1 DEF AcquireToken, q
    <3> QED
      BY <2>1, <2>2, <3>1, ProcessQueuesCorrect
  <2>4. requests' \in 0..MaxRequests /\ timers' \in 0..requests'
    BY <1>1, <1>t, <2>3, BucketAssumption, SMT DEF AcquireToken
  <2> QED
    BY <2>3, <2>4, BucketAssumption, SMT DEF TypeOK, WaitersWatched
<1>2. ASSUME NEW p \in Priorities, Abort(p) PROVE IInv'
  <2>1. queues' \in Lengths
    BY <1>2, <1>t, SMT DEF Abort, Lengths
  <2>2. Total(queues') > 0 => Total(queues) > 0
    <3>1. /\ queues["ULTRA_HIGH"] \in Nat /\ queues["HIGH"] \in Nat
          /\ queues["MEDIUM"] \in Nat /\ queues["LOW"] \in Nat
      BY <1>t, LengthsType
    <3>2. \A r \in Priorities : queues'[r] <= queues[r]
      BY <1>2, <1>t, SMT DEF Abort, Lengths
    <3>3. /\ queues'["ULTRA_HIGH"] \in Nat /\ queues'["HIGH"] \in Nat
          /\ queues'["MEDIUM"] \in Nat /\ queues'["LOW"] \in Nat
      BY <2>1, LengthsType
    <3> QED
      BY <3>1, <3>2, <3>3, SMT DEF Total, Priorities
  <2> QED
    BY <1>2, <1>t, <2>1, <2>2 DEF Abort, TypeOK, WaitersWatched
<1>3. CASE TimerFires
  <2>1. timers - 1 \in Nat
    BY <1>3, <1>t, BucketAssumption, SMT DEF TimerFires
  <2>2. /\ tokens' \in 0..Rate /\ unclaimed' = 0
        /\ queues' \in Lengths /\ granted' \in Lengths
        /\ timers' \in (timers - 1)..(timers - 1 + 1)
        /\ Total(queues') > 0 => tokens' = 0 /\ timers' > 0
    BY <1>3, <1>t, <2>1, ProcessQueuesCorrect DEF TimerFires
  <2>3. requests' \in 0..MaxRequests /\ timers' \in 0..requests'
    BY <1>3, <1>t, <2>1, <2>2, BucketAssumption, SMT DEF TimerFires
  <2> QED
    BY <2>2, <2>3, BucketAssumption, SMT DEF TypeOK, WaitersWatched
<1>4. CASE IntervalPasses
  BY <1>4, <1>t, BucketAssumption, SMT
     DEF IntervalPasses, TypeOK, WaitersWatched, Least
<1>5. CASE UNCHANGED vars
  BY <1>5 DEF vars, TypeOK, WaitersWatched
<1> QED
  BY <1>1, <1>2, <1>3, <1>4, <1>5 DEF Next

\* The types hold always; in particular the timers never outnumber the
\* requests, so a long queue does not breed wake-ups.
THEOREM TypeCorrect == Spec => []TypeOK
<1>1. IInv => TypeOK
  BY DEF IInv
<1> QED
  BY InitIInv, NextIInv, <1>1, PTL DEF Spec

\* No token idles beside a waiting request, and a timer watches over it.
THEOREM WaitersAreWatched == Spec => []WaitersWatched
<1>1. IInv => WaitersWatched
  BY DEF IInv
<1> QED
  BY InitIInv, NextIInv, <1>1, PTL DEF Spec

\* A step lets a request through only when nobody above it stays behind.
THEOREM PrioritiesRespected == Spec => HigherFirst
<1> DEFINE A == \A p \in Priorities : granted'[p] > granted[p] =>
                  \A h \in Above(p) : queues'[h] = 0
<1>1. ASSUME IInv, [Next]_vars PROVE [A]_vars
  <2>t. timers \in 0..requests /\ queues \in Lengths /\ granted \in Lengths
    BY <1>1 DEF IInv, TypeOK
  <2>r. requests \in 0..MaxRequests
    BY <1>1 DEF IInv, TypeOK
  <2>1. ASSUME NEW p \in Priorities, AcquireToken(p) PROVE A
    <3> DEFINE q == [queues EXCEPT ![p] = @ + 1]
    <3>1. q \in Lengths
      BY <2>t, SMT DEF Lengths
    <3>2. timers \in Nat
      BY <2>t, <2>r, BucketAssumption, SMT
    <3> HIDE DEF q
    <3>3. ProcessQueues(q, timers)
      BY <2>1 DEF AcquireToken, q
    <3> QED
      BY <1>1, <3>1, <3>2, <3>3, ProcessQueuesCorrect DEF IInv
  <2>2. ASSUME NEW p \in Priorities, Abort(p) PROVE A
    <3>1. granted' = granted
      BY <2>2 DEF Abort
    <3>2. \A r \in Priorities : granted[r] \in Nat
      BY <2>t DEF Lengths
    <3> QED
      BY <3>1, <3>2, SMT
  <2>3. CASE TimerFires
    <3>1. timers - 1 \in Nat
      BY <2>3, <2>t, <2>r, BucketAssumption, SMT DEF TimerFires
    <3> QED
      BY <1>1, <2>3, <2>t, <3>1, ProcessQueuesCorrect DEF IInv, TimerFires
  <2>4. CASE IntervalPasses
    <3>1. granted' = granted
      BY <2>4 DEF IntervalPasses
    <3>2. \A r \in Priorities : granted[r] \in Nat
      BY <2>t DEF Lengths
    <3> QED
      BY <3>1, <3>2, SMT
  <2>5. CASE UNCHANGED vars
    BY <2>5
  <2> QED
    BY <1>1, <2>1, <2>2, <2>3, <2>4, <2>5 DEF Next
<1> QED
  BY InitIInv, NextIInv, <1>1, PTL DEF Spec, HigherFirst

-----------------------------------------------------------------------------
(* The refinement.                                                         *)

LEMMA InitLimiter == Init => Limiter!Init
<1> SUFFICES ASSUME Init PROVE Limiter!Init
  OBVIOUS
<1>1. Total(None) = 0
  BY SMT DEF None, Priorities, Total
<1> QED
  BY <1>1, BucketAssumption, SMT DEF Init, Limiter!Init, Least

\* A run of processQueues is one grant, paid out of the due tokens.
LEMMA ProcessQueuesGrants ==
    ASSUME TypeOK, NEW q \in Lengths, NEW t \in Nat, ProcessQueues(q, t)
    PROVE  [Limiter!Next]_(Limiter!vars)
<1> DEFINE n == Least(Refilled, Total(q))
<1>1. /\ tokens' \in 0..Rate /\ unclaimed' = 0
      /\ Total(granted') - Total(granted) = n
      /\ tokens' = Refilled - n
      /\ Total(q) \in Nat /\ granted' \in Lengths
  BY ProcessQueuesCorrect
<1>2. Total(granted) \in Nat /\ Total(granted') \in Nat
  BY <1>1, LengthsType DEF TypeOK
<1>3. Refilled \in Nat /\ Refilled = Least(Rate, tokens + unclaimed)
  BY BucketAssumption, SMT DEF TypeOK, Refilled, Least
<1>4. n \in 0..Refilled
  BY <1>1, <1>3, SMT DEF Least
<1>5. Least(Rate, tokens' + unclaimed') = Refilled - n
  BY <1>1, <1>3, <1>4, BucketAssumption, SMT DEF Least
<1>6. Total(granted') = Total(granted) + n
  BY <1>1, <1>2, <1>4, <1>3, SMT
<1> HIDE DEF n
<1>7. CASE n = 0
  BY <1>2, <1>3, <1>5, <1>6, <1>7, SMT DEF Limiter!vars
<1>8. CASE n > 0
  <2>1. n \in 1..Refilled
    BY <1>3, <1>4, <1>8, SMT
  <2>2. Limiter!Grant(n)
    BY <1>3, <1>5, <1>6 DEF Limiter!Grant
  <2> QED
    BY <1>3, <2>1, <2>2 DEF Limiter!Next
<1> QED
  BY <1>3, <1>4, <1>7, <1>8, SMT

LEMMA NextLimiter == IInv /\ [Next]_vars => [Limiter!Next]_(Limiter!vars)
<1> SUFFICES ASSUME IInv, [Next]_vars PROVE [Limiter!Next]_(Limiter!vars)
  OBVIOUS
<1>t. /\ tokens \in 0..Rate /\ unclaimed \in 0..Rate
      /\ queues \in Lengths /\ TypeOK
      /\ requests \in 0..MaxRequests /\ timers \in 0..requests
  BY DEF IInv, TypeOK
<1>1. ASSUME NEW p \in Priorities, AcquireToken(p)
      PROVE  [Limiter!Next]_(Limiter!vars)
  <2> DEFINE q == [queues EXCEPT ![p] = @ + 1]
  <2>1. q \in Lengths
    BY <1>t, SMT DEF Lengths
  <2>2. timers \in Nat
    BY <1>t, BucketAssumption, SMT
  <2> HIDE DEF q
  <2>3. ProcessQueues(q, timers)
    BY <1>1 DEF AcquireToken, q
  <2> QED
    BY <1>t, <2>1, <2>2, <2>3, ProcessQueuesGrants
<1>2. ASSUME NEW p \in Priorities, Abort(p) PROVE UNCHANGED Limiter!vars
  BY <1>2 DEF Abort, Limiter!vars, Least, Total
<1>3. CASE TimerFires
  <2>1. timers - 1 \in Nat
    BY <1>3, <1>t, BucketAssumption, SMT DEF TimerFires
  <2> QED
    BY <1>3, <1>t, <2>1, ProcessQueuesGrants DEF TimerFires
<1>4. CASE IntervalPasses
  <2>1. Least(Rate, tokens' + unclaimed')
          = Limiter!Least(Rate, Least(Rate, tokens + unclaimed) + 1)
    BY <1>4, <1>t, BucketAssumption, SMT
       DEF IntervalPasses, Least, Limiter!Least
  <2>2. Total(granted') = Total(granted)
    BY <1>4 DEF IntervalPasses
  <2> QED
    BY <2>1, <2>2 DEF Limiter!Tick, Limiter!Next
<1>5. CASE UNCHANGED vars
  BY <1>5 DEF vars, Limiter!vars, Least, Total
<1> QED
  BY <1>1, <1>2, <1>3, <1>4, <1>5 DEF Next

\* Refilled in arrears, the bucket lets through no more than one refilled on
\* time would.
THEOREM ImplementsLimiter == Spec => LimiterSpec
BY InitIInv, NextIInv, InitLimiter, NextLimiter, PTL DEF Spec, LimiterSpec, Limiter!Spec

-----------------------------------------------------------------------------
(* The swap.  Its orders are numbered in the order they are fetched, and a *)
(* call fetches at most MaxSlippageRetry + 1 of them.                      *)

Attempts == MaxSlippageRetry + 1

\* Where a call has an order in hand.
Hands == {"simulating", "sending", "confirming", "executing", "answering", "bundling",
          "bundled", "polling", "lookup"}

\* No call of this code sends these, and the chain will not settle them.
Dead == {"unsent", "failed"}

\* The orders fetched so far leave room for those the call may still fetch.
Numbered ==
    /\ order \in Nat /\ order <= call * Attempts
    /\ pc \in {"reading", "routing"} => call > 0 /\ order <= (call - 1) * Attempts + slippages
    /\ pc \in Hands => call > 0 /\ order <= (call - 1) * Attempts + slippages + 1

\* Nothing is known of an order before it is fetched, and then its call.
Fetched ==
    /\ \A o \in Swap!Orders : o > order => tx[o] = "unsent" /\ callOf[o] = 0
    /\ \A o \in Swap!Orders : callOf[o] <= call /\ (pc = "reading" => callOf[o] < call)
    /\ pc \in Hands => order \in Swap!Orders /\ callOf[order] = call

\* A path is that of its setting, and simulates before it sends.
OnPath ==
    /\ pc \in {"simulating", "sending", "confirming", "executing", "answering"} => ~useJito
    /\ pc \in {"bundling", "bundled"} => useJito
    /\ pc = "bundled" => bundles > 0
    /\ pc = "simulating" \/ (pc = "bundling" /\ bundles = 0) => tx[order] = "unsent"

\* An order is replaced only when it cannot land any more.
Superseded ==
    useJito \/ inlineSwapSimulation =>
        /\ \A o, p \in Swap!Orders :
              o < p /\ callOf[o] = callOf[p] /\ callOf[o] # 0 => tx[o] \in Dead
        /\ pc = "routing" => \A o \in Swap!Orders : callOf[o] = call => tx[o] \in Dead

\* A swap that is taken for done was seen to land, unless its news timed out.
Seen == pc \in {"polling", "lookup"} /\ ~timedOut => tx[order] = "landed"

Backed == Swap!PositionBacked

SwapInv == Swap!TypeOK /\ Numbered /\ Fetched /\ OnPath /\ Superseded /\ Seen /\ Backed

LEMMA SwapSettings ==
    /\ MaxCalls \in Nat /\ MaxSlippageRetry \in Nat /\ MaxBundles \in Nat
    /\ Attempts \in Nat /\ Attempts > MaxSlippageRetry
BY TradingAssumption DEF Swap!SwapAssumption, Attempts

LEMMA OrdersAre ==
    /\ Swap!Orders = 1..(MaxCalls * Attempts) /\ MaxCalls * Attempts \in Nat
    /\ IsFiniteSet(Swap!Orders) /\ Cardinality(Swap!Orders) = MaxCalls * Attempts
<1>1. MaxCalls * Attempts \in Nat
    BY SwapSettings
<1>2. Swap!Orders = 1..(MaxCalls * Attempts)
    BY DEF Swap!Orders, Attempts
<1> DEFINE n == MaxCalls * Attempts
<1>3. IsFiniteSet(1..n) /\ Cardinality(1..n) = n
    <2> HIDE DEF n
    <2>1. n \in Nat
        BY <1>1 DEF n
    <2>2. QED BY <2>1, FS_Interval
<1>4. QED BY <1>1, <1>2, <1>3

\* The instances count as the module does.
LEMMA CountsAgree ==
    ASSUME NEW S
    PROVE  /\ Swap!Cardinality(S) = Cardinality(S)
           /\ Rpc!Cardinality(S) = Cardinality(S)
           /\ Rpc!IsFiniteSet(S) <=> IsFiniteSet(S)
BY DEF Cardinality, Swap!Cardinality, Rpc!Cardinality, IsFiniteSet, Rpc!IsFiniteSet

\* A call more is Attempts orders more.
LEMMA CallsCount ==
    ASSUME NEW n \in Nat, NEW m \in Nat, n <= m
    PROVE  /\ n * Attempts \in Nat /\ n * Attempts <= m * Attempts
           /\ n > 0 => n * Attempts = (n - 1) * Attempts + Attempts
<1>1. Attempts \in Nat
    BY SwapSettings
<1>2. PICK d \in Nat : m = n + d
    BY SMT
<1>3. m * Attempts = n * Attempts + d * Attempts /\ d * Attempts \in Nat /\ n * Attempts \in Nat
    BY <1>1, <1>2
<1>4. n > 0 => n * Attempts = (n - 1) * Attempts + Attempts
    BY <1>1
<1>5. QED BY <1>3, <1>4

\* The wallet never gets smaller when what landed stays landed.
LEMMA HeldGrows ==
    ASSUME \A o \in Swap!Orders : tx[o] = "landed" => tx'[o] = "landed"
    PROVE  /\ Swap!Held \in Nat /\ Swap!Held' \in Nat /\ Swap!Held <= Swap!Held'
           /\ Swap!Held <= Cardinality(Swap!Orders) /\ Cardinality(Swap!Orders) \in Nat
<1>1. /\ Swap!Landed \in SUBSET Swap!Orders /\ Swap!Landed' \in SUBSET Swap!Orders
      /\ Swap!Landed \in SUBSET Swap!Landed'
    BY DEF Swap!Landed, Swap!Orders
<1>2. IsFiniteSet(Swap!Orders)
    BY OrdersAre
<1>3. IsFiniteSet(Swap!Landed) /\ IsFiniteSet(Swap!Landed')
    BY <1>1, <1>2, FS_Subset
<1>4. /\ Cardinality(Swap!Landed) \in Nat /\ Cardinality(Swap!Landed') \in Nat
      /\ Cardinality(Swap!Orders) \in Nat
    BY <1>2, <1>3, FS_CardinalityType
<1>5. Cardinality(Swap!Landed) <= Cardinality(Swap!Landed')
    BY <1>1, <1>3, FS_Subset
<1>6. Cardinality(Swap!Landed) <= Cardinality(Swap!Orders)
    BY <1>1, <1>2, FS_Subset
<1>7. Swap!Held = Cardinality(Swap!Landed) /\ Swap!Held' = Cardinality(Swap!Landed')
    BY CountsAgree DEF Swap!Held
<1>8. QED BY <1>4, <1>5, <1>6, <1>7

\* What the steps of a call with an order in hand may do: submit that order,
\* and end, go on, or ask for another one, which of a safe setting needs that
\* this one cannot land.
HandStep ==
    /\ UNCHANGED <<useJito, inlineSwapSimulation, call, order, callOf>>
    /\ tx' = tx \/ (tx[order] = "unsent" /\ tx' = [tx EXCEPT ![order] = "pending"])
    /\ \/ pc' \in {"idle"} \cup Hands /\ slippages' = slippages
       \/ /\ pc' = "routing" /\ slippages < MaxSlippageRetry /\ slippages' = slippages + 1
          /\ useJito \/ inlineSwapSimulation => tx' = tx /\ tx[order] \in Dead

Stepping == \/ Swap!Simulate \/ Swap!Send \/ Swap!Confirm \/ Swap!ExecuteManaged
            \/ Swap!ManagedAnswer \/ Swap!SendBundle \/ Swap!ConfirmBundle
            \/ Swap!BundlesExhausted \/ Swap!PollBalance \/ Swap!LookUpTransaction

LEMMA SubmittedIs ==
    ASSUME tx' \in Swap!Submitted \/ tx' = Swap!Received
    PROVE  tx' = tx \/ (tx[order] = "unsent" /\ tx' = [tx EXCEPT ![order] = "pending"])
BY DEF Swap!Submitted, Swap!Received

LEMMA RetryIs ==
    ASSUME Swap!RetrySlippage
    PROVE  \/ pc' = "idle" /\ slippages' = slippages
           \/ pc' = "routing" /\ slippages < MaxSlippageRetry /\ slippages' = slippages + 1
BY DEF Swap!RetrySlippage, Swap!Abandon

LEMMA StepsAreHandSteps ==
    ASSUME SwapInv, Stepping
    PROVE  HandStep /\ pc \in Hands
<1> USE DEF Hands, Dead, Swap!config
<1>1. OnPath
    BY DEF SwapInv
<1>2. CASE Swap!Simulate
    BY <1>1, <1>2, RetryIs DEF OnPath, HandStep, Swap!Simulate, Swap!Abandon
<1>3. CASE Swap!Send
    BY <1>1, <1>3, RetryIs, SubmittedIs DEF OnPath, HandStep, Swap!Send, Swap!Abandon
<1>4. CASE Swap!Confirm
    BY <1>4, RetryIs DEF HandStep, Swap!Confirm, Swap!Abandon
<1>5. CASE Swap!ExecuteManaged
    BY <1>5, SubmittedIs DEF HandStep, Swap!ExecuteManaged
<1>6. CASE Swap!ManagedAnswer
    BY <1>6, RetryIs DEF HandStep, Swap!ManagedAnswer, Swap!Abandon
<1>7. CASE Swap!SendBundle
    BY <1>1, <1>7, RetryIs, SubmittedIs
       DEF OnPath, HandStep, Swap!SendBundle, Swap!NextBundle, Swap!Abandon
<1>8. CASE Swap!ConfirmBundle
    BY <1>8 DEF HandStep, Swap!ConfirmBundle, Swap!Expired, Swap!NextBundle
<1>9. CASE Swap!BundlesExhausted
    BY <1>9 DEF HandStep, Swap!BundlesExhausted, Swap!Abandon
<1>10. CASE Swap!PollBalance
    BY <1>10 DEF HandStep, Swap!PollBalance, Swap!Abandon
<1>11. CASE Swap!LookUpTransaction
    BY <1>11 DEF HandStep, Swap!LookUpTransaction
<1>12. QED
    BY <1>2, <1>3, <1>4, <1>5, <1>6, <1>7, <1>8, <1>9, <1>10, <1>11 DEF Stepping

\* The types of the parts the proofs read, once and for all.
LEMMA SwapTyped ==
    ASSUME Swap!TypeOK
    PROVE  /\ call \in 0..MaxCalls /\ slippages \in 0..MaxSlippageRetry
           /\ tx \in [Swap!Orders -> {"unsent", "pending", "landed", "failed", "expired"}]
           /\ callOf \in [Swap!Orders -> 0..MaxCalls]
           /\ position \in 0..Cardinality(Swap!Orders)
           /\ \A o \in Swap!Orders : o \in Nat /\ o > 0
<1>1. \A o \in Swap!Orders : o \in Nat /\ o > 0
    BY OrdersAre
<1>2. QED BY <1>1, CountsAgree DEF Swap!TypeOK

LEMMA HandStepKeeps ==
    ASSUME SwapInv, HandStep, pc \in Hands
    PROVE  Numbered' /\ Fetched' /\ Superseded'
<1>1. /\ call \in Nat /\ slippages \in Nat /\ slippages <= MaxSlippageRetry
      /\ order \in Swap!Orders /\ callOf[order] = call /\ call > 0 /\ order \in Nat
      /\ order <= (call - 1) * Attempts + slippages + 1
    BY SwapTyped, SwapSettings DEF SwapInv, Fetched, Numbered
<1>2. /\ UNCHANGED <<useJito, inlineSwapSimulation, call, order, callOf>>
      /\ tx' = tx \/ (tx[order] = "unsent" /\ tx' = [tx EXCEPT ![order] = "pending"])
    BY DEF HandStep
<1>3. Numbered'
    <2> DEFINE base == (call - 1) * Attempts
    <2>1. base \in Nat /\ call * Attempts = base + Attempts
        BY <1>1, CallsCount, SwapSettings
    <2>2. order <= base + slippages + 1
        BY <1>1
    <2>3. order' = order /\ call' = call /\ base' = base
        BY <1>2 DEF Attempts
    <2> HIDE DEF base
    <2>4. order <= call * Attempts
        BY <1>1, <2>1, <2>2, SwapSettings
    <2>5. CASE pc' \in {"idle"} \cup Hands /\ slippages' = slippages
        BY <1>1, <1>2, <2>2, <2>4, <2>5 DEF Numbered, Hands, base
    <2>6. CASE pc' = "routing" /\ slippages' = slippages + 1
        <3>1. order' \in Nat /\ order' <= call' * Attempts
            BY <1>1, <1>2, <2>4 DEF Attempts
        <3>2. order' <= (call' - 1) * Attempts + slippages'
            BY <1>1, <1>2, <2>1, <2>2, <2>6 DEF base
        <3>3. QED BY <1>1, <1>2, <2>6, <3>1, <3>2 DEF Numbered, Hands
    <2>7. QED BY <2>5, <2>6 DEF HandStep
<1>4. Fetched'
    <2>1. \A o \in Swap!Orders : o > order => tx'[o] = "unsent" /\ callOf[o] = 0
        BY <1>1, <1>2, SwapTyped DEF SwapInv, Fetched
    <2>2. pc' # "reading"
        BY DEF HandStep, Hands
    <2>3. QED BY <1>1, <1>2, <2>1, <2>2 DEF SwapInv, Fetched, Swap!Orders
<1>5. ASSUME useJito \/ inlineSwapSimulation
      PROVE  /\ \A o, p \in Swap!Orders :
                   o < p /\ callOf[o] = callOf[p] /\ callOf[o] # 0 => tx'[o] \in Dead
             /\ pc' = "routing" => \A o \in Swap!Orders : callOf[o] = call => tx'[o] \in Dead
    <2>1. ASSUME NEW o \in Swap!Orders, NEW p \in Swap!Orders,
                 o < p, callOf[o] = callOf[p], callOf[o] # 0
          PROVE  tx[o] \in Dead /\ tx'[o] = tx[o]
        <3>1. o \in Nat /\ p \in Nat
            BY SwapTyped DEF SwapInv
        <3>2. ~(p > order)
            BY <2>1 DEF SwapInv, Fetched
        <3>3. o # order
            BY <1>1, <2>1, <3>1, <3>2
        <3>4. tx[o] \in Dead
            BY <1>5, <2>1 DEF SwapInv, Superseded
        <3>5. tx'[o] = tx[o]
            BY <1>2, <3>3, SwapTyped DEF SwapInv
        <3>6. QED BY <3>4, <3>5
    <2>2. ASSUME pc' = "routing", NEW o \in Swap!Orders, callOf[o] = call
          PROVE  tx'[o] \in Dead
        <3>1. tx' = tx /\ tx[order] \in Dead
            BY <1>5, <2>2 DEF HandStep, Hands
        <3>2. o \in Nat /\ ~(o > order)
            BY <1>1, <2>2, SwapTyped DEF SwapInv, Fetched
        <3>3. CASE o = order
            BY <3>1, <3>3
        <3>4. CASE o < order
            BY <1>1, <2>1, <2>2, <3>1, <3>4
        <3>5. QED BY <1>1, <3>2, <3>3, <3>4
    <2>3. QED BY <2>1, <2>2
<1>6. Superseded'
    BY <1>2, <1>5 DEF Superseded, Swap!Orders
<1>7. QED BY <1>3, <1>4, <1>6

\* What landed stays, and the settled orders of a setting keep their values.
LEMMA HandStepLanded ==
    ASSUME SwapInv, HandStep
    PROVE  /\ \A o \in Swap!Orders : tx[o] = "landed" => tx'[o] = "landed"
           /\ tx' \in [Swap!Orders -> {"unsent", "pending", "landed", "failed", "expired"}]
BY SwapTyped DEF SwapInv, HandStep

LEMMA HandStepTyped ==
    ASSUME SwapInv, Stepping
    PROVE  Swap!TypeOK'
<1>1. HandStep /\ pc \in Hands
    BY StepsAreHandSteps
<1>2. /\ tx' \in [Swap!Orders -> {"unsent", "pending", "landed", "failed", "expired"}]
      /\ UNCHANGED <<useJito, inlineSwapSimulation, call, order, callOf>>
    BY <1>1, HandStepLanded DEF HandStep
<1>3. slippages' \in 0..MaxSlippageRetry
    BY <1>1, SwapTyped, SwapSettings DEF HandStep, SwapInv
<1>4. pc' \in {"idle", "reading", "routing", "simulating", "sending", "confirming",
               "executing", "answering", "bundling", "bundled", "polling", "lookup"}
    BY <1>1 DEF HandStep, Hands
<1>5. managed' = managed /\ timedOut' \in BOOLEAN /\ cooling' \in BOOLEAN
    BY DEF SwapInv, Swap!TypeOK, Stepping, Swap!Simulate, Swap!Send, Swap!Confirm,
           Swap!ExecuteManaged, Swap!ManagedAnswer, Swap!SendBundle, Swap!ConfirmBundle,
           Swap!BundlesExhausted, Swap!PollBalance, Swap!LookUpTransaction
<1>6. bundles' \in 0..MaxBundles
    <2>1. bundles \in 0..MaxBundles
        BY DEF SwapInv, Swap!TypeOK
    <2>2. bundles' = bundles \/ (bundles < MaxBundles /\ bundles' = bundles + 1)
        BY DEF Stepping, Swap!Simulate, Swap!Send, Swap!Confirm, Swap!ExecuteManaged,
               Swap!ManagedAnswer, Swap!SendBundle, Swap!Counted, Swap!ConfirmBundle,
               Swap!BundlesExhausted, Swap!PollBalance, Swap!LookUpTransaction
    <2>3. QED BY <2>1, <2>2, SwapSettings
<1>7. position' \in 0..Cardinality(Swap!Orders)
    <2>1. Swap!Held \in 0..Cardinality(Swap!Orders) /\ Cardinality(Swap!Orders) \in Nat
        BY <1>1, HandStepLanded, HeldGrows
    <2>2. Cardinality(Swap!Orders) >= 1
        <3>1. order \in Swap!Orders
            BY <1>1 DEF SwapInv, Fetched
        <3>2. QED BY <3>1, OrdersAre
    <2>3. position' \in {position, 1} \/ position' \in 0..Swap!Held
        BY DEF Stepping, Swap!Simulate, Swap!Send, Swap!Confirm, Swap!ExecuteManaged,
               Swap!ManagedAnswer, Swap!SendBundle, Swap!ConfirmBundle,
               Swap!BundlesExhausted, Swap!PollBalance, Swap!LookUpTransaction, Swap!Readings
    <2>4. QED BY <2>1, <2>2, <2>3, SwapTyped DEF SwapInv
<1>8. position' \in 0..Swap!Cardinality(Swap!Orders)
    BY <1>7, CountsAgree
<1>9. QED BY <1>2, <1>3, <1>4, <1>5, <1>6, <1>8 DEF SwapInv, Swap!TypeOK, Swap!Orders

LEMMA HandStepOnPath ==
    ASSUME SwapInv, Stepping
    PROVE  OnPath' /\ Seen'
<1>1. HandStep /\ pc \in Hands /\ OnPath /\ Seen
    BY StepsAreHandSteps DEF SwapInv
<1>2. order \in Swap!Orders /\ order' = order /\ useJito' = useJito
      /\ inlineSwapSimulation' = inlineSwapSimulation
      /\ (tx[order] = "landed" => tx'[order] = "landed")
    BY <1>1, HandStepLanded DEF SwapInv, Fetched, HandStep
<1>3. bundles \in Nat
    BY SwapSettings DEF SwapInv, Swap!TypeOK
<1>4. CASE Swap!Simulate
    BY <1>1, <1>2, <1>4, RetryIs DEF OnPath, Seen, Swap!Simulate, Swap!Abandon
<1>5. CASE Swap!Send
    BY <1>1, <1>2, <1>5, RetryIs DEF OnPath, Seen, Swap!Send, Swap!Abandon
<1>6. CASE Swap!Confirm
    BY <1>1, <1>2, <1>6, RetryIs DEF OnPath, Seen, Swap!Confirm, Swap!Abandon
<1>7. CASE Swap!ExecuteManaged
    BY <1>1, <1>2, <1>7 DEF OnPath, Seen, Swap!ExecuteManaged
<1>8. CASE Swap!ManagedAnswer
    BY <1>1, <1>2, <1>8, RetryIs DEF OnPath, Seen, Swap!ManagedAnswer, Swap!Abandon
<1>9. CASE Swap!SendBundle
    <2>1. pc' \in {"idle", "bundled", "bundling", "routing"} /\ bundles' = bundles + 1 /\ useJito
        BY <1>1, <1>9, RetryIs
           DEF OnPath, Swap!SendBundle, Swap!NextBundle, Swap!Counted, Swap!Abandon
    <2>2. QED BY <1>2, <1>3, <2>1 DEF OnPath, Seen
<1>10. CASE Swap!ConfirmBundle
    <2>1. /\ pc' \in {"polling", "bundling"} /\ bundles' = bundles /\ useJito
          /\ tx' = tx /\ (pc' = "polling" => tx[order] = "landed")
        BY <1>1, <1>10 DEF OnPath, Swap!ConfirmBundle, Swap!Expired, Swap!NextBundle
    <2>2. bundles > 0
        BY <1>1, <1>10 DEF OnPath, Swap!ConfirmBundle
    <2>3. QED BY <1>2, <1>3, <2>1, <2>2 DEF OnPath, Seen
<1>11. CASE Swap!BundlesExhausted
    BY <1>1, <1>2, <1>11 DEF OnPath, Seen, Swap!BundlesExhausted, Swap!Abandon
<1>12. CASE Swap!PollBalance
    BY <1>1, <1>2, <1>12 DEF OnPath, Seen, Swap!PollBalance, Swap!Abandon
<1>13. CASE Swap!LookUpTransaction
    BY <1>1, <1>2, <1>13 DEF OnPath, Seen, Swap!LookUpTransaction
<1>14. QED
    BY <1>4, <1>5, <1>6, <1>7, <1>8, <1>9, <1>10, <1>11, <1>12, <1>13 DEF Stepping

LEMMA HandStepBacked ==
    ASSUME SwapInv, Stepping
    PROVE  Backed'
<1>1. HandStep /\ pc \in Hands /\ Seen /\ Backed
    BY StepsAreHandSteps DEF SwapInv
<1>2. Swap!Held \in Nat /\ Swap!Held' \in Nat /\ Swap!Held <= Swap!Held'
    BY <1>1, HandStepLanded, HeldGrows
<1>3. position \in Nat
    BY SwapTyped, OrdersAre DEF SwapInv
<1>4. SUFFICES ASSUME ~timedOut' PROVE position' <= Swap!Held'
    BY DEF Backed, Swap!PositionBacked
<1>5. ~timedOut
    BY <1>4 DEF Stepping, Swap!Simulate, Swap!Send, Swap!Confirm, Swap!ExecuteManaged,
           Swap!ManagedAnswer, Swap!SendBundle, Swap!ConfirmBundle,
           Swap!BundlesExhausted, Swap!PollBalance, Swap!LookUpTransaction
<1>6. \/ position' = position \/ position' \in 0..Swap!Held
      \/ pc = "lookup" /\ position' = 1
    BY DEF Stepping, Swap!Simulate, Swap!Send, Swap!Confirm, Swap!ExecuteManaged,
           Swap!ManagedAnswer, Swap!SendBundle, Swap!ConfirmBundle,
           Swap!BundlesExhausted, Swap!PollBalance, Swap!LookUpTransaction, Swap!Readings
<1>7. ASSUME pc = "lookup" PROVE Swap!Held >= 1
    <2>1. order \in Swap!Landed
        BY <1>1, <1>5, <1>7 DEF Seen, SwapInv, Fetched, Swap!Landed
    <2>2. IsFiniteSet(Swap!Landed)
        <3>1. Swap!Landed \in SUBSET Swap!Orders
            BY DEF Swap!Landed
        <3>2. QED BY <3>1, OrdersAre, FS_Subset
    <2>3. Cardinality(Swap!Landed) # 0 /\ Cardinality(Swap!Landed) \in Nat
        BY <2>1, <2>2, FS_EmptySet, FS_CardinalityType
    <2>4. QED BY <2>3, CountsAgree DEF Swap!Held
<1>8. position <= Swap!Held
    BY <1>1, <1>5 DEF Backed, Swap!PositionBacked
<1>9. QED BY <1>2, <1>3, <1>6, <1>7, <1>8

LEMMA SteppingKeeps ==
    ASSUME SwapInv, Stepping
    PROVE  SwapInv'
BY StepsAreHandSteps, HandStepKeeps, HandStepTyped, HandStepOnPath, HandStepBacked DEF SwapInv

\* A buy begins.
LEMMA BuyCandidateKeeps ==
    ASSUME SwapInv, Swap!BuyCandidate
    PROVE  SwapInv'
<1>1. /\ pc = "idle" /\ position = 0 /\ call < MaxCalls
      /\ call' = call + 1 /\ slippages' = 0 /\ timedOut' = FALSE /\ pc' = "reading"
      /\ UNCHANGED <<useJito, inlineSwapSimulation, bundles, order, managed, tx, callOf,
                     position, cooling>>
    BY DEF Swap!BuyCandidate, Swap!config
<1>2. call \in 0..MaxCalls /\ order \in Nat /\ order <= call * Attempts
    BY SwapTyped DEF SwapInv, Numbered
<1>3. call + 1 \in 0..MaxCalls
    BY <1>1, <1>2, SwapSettings
<1>4. Swap!TypeOK'
    <2>1. 0 \in 0..MaxSlippageRetry
        BY SwapSettings
    <2>2. QED BY <1>1, <1>3, <2>1 DEF SwapInv, Swap!TypeOK, Swap!Orders
<1>5. Numbered'
    <2>1. call' - 1 = call /\ (call' - 1) * Attempts = call * Attempts /\ call \in Nat
        BY <1>1, <1>2, SwapSettings
    <2>2. call * Attempts \in Nat /\ call * Attempts <= (call + 1) * Attempts
          /\ (call + 1) * Attempts \in Nat
        BY <2>1, CallsCount
    <2>3. order' <= call' * Attempts /\ order' <= (call' - 1) * Attempts + slippages'
        BY <1>1, <1>2, <2>1, <2>2
    <2>4. Attempts' = Attempts
        BY DEF Attempts
    <2>5. QED BY <1>1, <1>2, <2>1, <2>3, <2>4 DEF Numbered, Hands
<1>6. Fetched'
    <2>1. \A o \in Swap!Orders : callOf[o] <= call /\ callOf[o] \in Nat
        BY SwapTyped, SwapSettings DEF SwapInv, Fetched
    <2>2. \A o \in Swap!Orders : callOf[o] <= call + 1 /\ callOf[o] < call + 1
        BY <1>2, <2>1
    <2>3. QED BY <1>1, <2>2 DEF SwapInv, Fetched, Swap!Orders, Hands
<1>7. OnPath' /\ Seen' /\ Superseded'
    BY <1>1 DEF SwapInv, OnPath, Seen, Superseded, Swap!Orders
<1>8. Backed'
    <2>1. Swap!Held' \in Nat
        BY <1>1, HeldGrows
    <2>2. QED BY <1>1, <2>1 DEF Backed, Swap!PositionBacked
<1>9. QED BY <1>4, <1>5, <1>6, <1>7, <1>8 DEF SwapInv

\* Tokens found in the wallet become the position, or the call goes on.
LEMMA ReadBeforeKeeps ==
    ASSUME SwapInv, Swap!ReadBefore
    PROVE  SwapInv'
<1>1. /\ pc = "reading" /\ pc' \in {"idle", "routing"}
      /\ position' = position \/ position' \in 0..Swap!Held
      /\ UNCHANGED <<useJito, inlineSwapSimulation, call, slippages, bundles, order, managed,
                     tx, callOf, timedOut, cooling>>
    BY DEF Swap!ReadBefore, Swap!config, Swap!Readings, Swap!Abandon
<1>2. Swap!Held \in Nat /\ Swap!Held' = Swap!Held /\ Swap!Held <= Cardinality(Swap!Orders)
      /\ Cardinality(Swap!Orders) \in Nat
    BY <1>1, HeldGrows DEF Swap!Held, Swap!Landed, Swap!Orders
<1>3. position' \in 0..Cardinality(Swap!Orders)
    BY <1>1, <1>2, SwapTyped DEF SwapInv
<1>4. Swap!TypeOK'
    <2>1. position' \in 0..Swap!Cardinality(Swap!Orders)
        BY <1>3, CountsAgree
    <2>2. QED BY <1>1, <2>1 DEF SwapInv, Swap!TypeOK, Swap!Orders
<1>5. Numbered'
    BY <1>1 DEF SwapInv, Numbered, Hands, Attempts
<1>6. Fetched' /\ OnPath' /\ Seen'
    BY <1>1 DEF SwapInv, Fetched, OnPath, Seen, Hands, Swap!Orders
<1>7. Superseded'
    <2>1. \A o \in Swap!Orders : callOf[o] # call
        BY <1>1, SwapTyped, SwapSettings DEF SwapInv, Fetched
    <2>2. QED BY <1>1, <2>1 DEF SwapInv, Superseded, Swap!Orders
<1>8. Backed'
    BY <1>1, <1>2 DEF SwapInv, Backed, Swap!PositionBacked
<1>9. QED BY <1>4, <1>5, <1>6, <1>7, <1>8 DEF SwapInv

\* The next order.
LEMMA FetchSwapOrderKeeps ==
    ASSUME SwapInv, Swap!FetchSwapOrder, order' # order
    PROVE  SwapInv'
<1> DEFINE next == order + 1
<1>1. /\ pc = "routing" /\ order' = next /\ callOf' = [callOf EXCEPT ![next] = call]
      /\ managed' \in BOOLEAN /\ pc' = Swap!Dispatched(managed') /\ bundles' = 0
      /\ UNCHANGED <<useJito, inlineSwapSimulation, call, slippages, tx, timedOut, position,
                     cooling>>
    BY DEF Swap!FetchSwapOrder, Swap!config
<1>2. /\ call \in 0..MaxCalls /\ call \in Nat /\ call > 0 /\ slippages \in 0..MaxSlippageRetry
      /\ order \in Nat /\ next <= (call - 1) * Attempts + slippages + 1
    BY <1>1, SwapTyped, SwapSettings DEF SwapInv, Numbered
<1>3. next \in Nat /\ next <= call * Attempts /\ next \in Swap!Orders
    <2>1. /\ call * Attempts = (call - 1) * Attempts + Attempts
          /\ call * Attempts <= MaxCalls * Attempts /\ call * Attempts \in Nat
          /\ MaxCalls * Attempts \in Nat /\ (call - 1) * Attempts \in Nat
        BY <1>2, CallsCount, SwapSettings
    <2>2. next \in Nat /\ next >= 1 /\ next <= call * Attempts
        BY <1>2, <2>1, SwapSettings
    <2>3. QED BY <2>1, <2>2, OrdersAre
<1>4. pc' \in {"bundling", "executing", "simulating", "sending"}
      /\ (pc' = "bundling" <=> useJito)
    BY <1>1 DEF Swap!Dispatched
<1>5. tx[next] = "unsent" /\ callOf' \in [Swap!Orders -> 0..MaxCalls] /\ callOf'[next] = call
    BY <1>1, <1>2, <1>3, SwapTyped DEF SwapInv, Fetched
<1> HIDE DEF next
<1>6. Swap!TypeOK'
    <2>1. 0 \in 0..MaxBundles
        BY SwapSettings
    <2>2. QED BY <1>1, <1>3, <1>4, <1>5, <2>1 DEF SwapInv, Swap!TypeOK, Swap!Orders
<1>7. Numbered'
    BY <1>1, <1>2, <1>3, <1>4 DEF Numbered, Hands, Attempts
<1>8. \A o \in Swap!Orders : o # next => callOf'[o] = callOf[o]
    BY <1>1, SwapTyped DEF SwapInv
<1>9. Fetched'
    <2>1. \A o \in Swap!Orders : o > next => o # next /\ o > order
        BY <1>2, <1>3, SwapTyped DEF SwapInv, next
    <2>2. \A o \in Swap!Orders : o > next => tx[o] = "unsent" /\ callOf'[o] = 0
        BY <1>8, <2>1 DEF SwapInv, Fetched
    <2>3. \A o \in Swap!Orders : callOf'[o] <= call
        BY <1>2, <1>5, <1>8 DEF SwapInv, Fetched
    <2>4. QED BY <1>1, <1>3, <1>4, <1>5, <2>2, <2>3 DEF Fetched, Swap!Orders
<1>10. OnPath' /\ Seen'
    BY <1>1, <1>4, <1>5 DEF OnPath, Seen
<1>11. ASSUME useJito \/ inlineSwapSimulation,
              NEW o \in Swap!Orders, NEW p \in Swap!Orders,
              o < p, callOf'[o] = callOf'[p], callOf'[o] # 0
       PROVE  tx[o] \in Dead
    <2>1. CASE p = next
        <3>1. callOf[o] = call
            BY <1>5, <1>8, <1>11, <2>1, SwapTyped DEF SwapInv
        <3>2. QED BY <1>1, <1>11, <3>1 DEF SwapInv, Superseded
    <2>2. CASE p # next /\ o = next
        <3>1. callOf[p] = 0 /\ callOf'[p] = callOf[p]
            BY <1>2, <1>8, <1>11, <2>2, SwapTyped DEF SwapInv, Fetched, next
        <3>2. QED BY <1>11, <3>1
    <2>3. CASE p # next /\ o # next
        BY <1>8, <1>11, <2>3 DEF SwapInv, Superseded
    <2>4. QED BY <2>1, <2>2, <2>3
<1>12. Superseded'
    BY <1>1, <1>4, <1>11 DEF Superseded, Swap!Orders
<1>13. Backed'
    BY <1>1 DEF SwapInv, Backed, Swap!PositionBacked, Swap!Held, Swap!Landed, Swap!Orders
<1>14. QED BY <1>6, <1>7, <1>9, <1>10, <1>12, <1>13 DEF SwapInv

\* No route: the call ends.  A mint cools down.  Nothing happens.
LEMMA RestKeeps ==
    ASSUME SwapInv,
           \/ Swap!FetchSwapOrder /\ order' = order
           \/ Swap!CoolDownEnds
           \/ UNCHANGED Swap!vars
    PROVE  SwapInv'
<1>1. /\ pc' = pc \/ (pc = "routing" /\ pc' = "idle")
      /\ cooling' \in BOOLEAN
      /\ UNCHANGED <<useJito, inlineSwapSimulation, call, slippages, bundles, order, managed,
                     tx, callOf, timedOut, position>>
    <2>1. CASE Swap!FetchSwapOrder /\ order' = order
        <3>1. order + 1 # order
            BY SwapTyped DEF SwapInv, Numbered
        <3>2. QED BY <2>1, <3>1
                  DEF Swap!FetchSwapOrder, Swap!config, Swap!Abandon, SwapInv, Swap!TypeOK
    <2>2. CASE Swap!CoolDownEnds
        BY <2>2 DEF Swap!CoolDownEnds, Swap!config
    <2>3. CASE UNCHANGED Swap!vars
        BY <2>3 DEF Swap!vars, SwapInv, Swap!TypeOK
    <2>4. QED BY <2>1, <2>2, <2>3
<1>2. Swap!TypeOK'
    BY <1>1 DEF SwapInv, Swap!TypeOK, Swap!Orders
<1>3. Numbered'
    BY <1>1 DEF SwapInv, Numbered, Hands, Attempts
<1>4. Fetched' /\ OnPath' /\ Seen' /\ Superseded'
    BY <1>1 DEF SwapInv, Fetched, OnPath, Seen, Superseded, Hands, Swap!Orders
<1>5. Backed'
    BY <1>1 DEF SwapInv, Backed, Swap!PositionBacked, Swap!Held, Swap!Landed, Swap!Orders
<1>6. QED BY <1>2, <1>3, <1>4, <1>5 DEF SwapInv

\* The chain settles a transaction that is under way.
LEMMA SettleKeeps ==
    ASSUME SwapInv, NEW o \in Swap!Orders, Swap!Settle(o)
    PROVE  SwapInv'
<1>1. PICK fate \in {"landed", "expired", "unsent", "failed"} : tx' = [tx EXCEPT ![o] = fate]
    BY DEF Swap!Settle
<1>2. /\ tx[o] = "pending"
      /\ UNCHANGED <<useJito, inlineSwapSimulation, pc, call, slippages, bundles, order,
                     managed, callOf, timedOut, position, cooling>>
    BY DEF Swap!Settle, Swap!Unsettled, Swap!config
<1>3. /\ tx' \in [Swap!Orders -> {"unsent", "pending", "landed", "failed", "expired"}]
      /\ \A p \in Swap!Orders : tx[p] # "pending" => tx'[p] = tx[p]
    BY <1>1, <1>2, SwapTyped DEF SwapInv
<1>4. Swap!TypeOK'
    BY <1>2, <1>3 DEF SwapInv, Swap!TypeOK, Swap!Orders
<1>5. Numbered'
    BY <1>2 DEF SwapInv, Numbered, Hands, Attempts
<1>6. Fetched'
    BY <1>2, <1>3 DEF SwapInv, Fetched, Hands, Swap!Orders
<1>7. OnPath' /\ Seen'
    <2>1. pc \in Hands => order \in Swap!Orders
        BY DEF SwapInv, Fetched
    <2>2. pc \in {"simulating", "bundling", "polling", "lookup"} =>
              (tx[order] # "pending" => tx'[order] = tx[order])
        BY <1>3, <2>1 DEF Hands
    <2>3. QED BY <1>2, <2>2 DEF SwapInv, OnPath, Seen
<1>8. Superseded'
    <2>1. \A p \in Swap!Orders : tx[p] \in Dead => tx'[p] \in Dead
        BY <1>3 DEF Dead
    <2>2. QED BY <1>2, <2>1 DEF SwapInv, Superseded, Swap!Orders
<1>9. Backed'
    <2>1. Swap!Held \in Nat /\ Swap!Held' \in Nat /\ Swap!Held <= Swap!Held'
        BY <1>3, HeldGrows
    <2>2. position \in Nat
        BY SwapTyped, OrdersAre DEF SwapInv
    <2>3. QED BY <1>2, <2>1, <2>2 DEF SwapInv, Backed, Swap!PositionBacked
<1>10. QED BY <1>4, <1>5, <1>6, <1>7, <1>8, <1>9 DEF SwapInv

LEMMA SwapInit == Swap!Init => SwapInv
<1> SUFFICES ASSUME Swap!Init PROVE SwapInv
    OBVIOUS
<1>1. /\ pc = "idle" /\ call = 0 /\ slippages = 0 /\ bundles = 0 /\ order = 0
      /\ tx = [o \in Swap!Orders |-> "unsent"] /\ callOf = [o \in Swap!Orders |-> 0]
      /\ position = 0
    BY DEF Swap!Init
<1>2. Cardinality(Swap!Orders) \in Nat /\ Swap!Held \in Nat
    BY OrdersAre, CountsAgree, FS_CardinalityType, FS_Subset DEF Swap!Held, Swap!Landed
<1>3. Swap!TypeOK
    <2>1. 0 \in 0..MaxCalls /\ 0 \in 0..MaxSlippageRetry /\ 0 \in 0..MaxBundles
        BY SwapSettings
    <2>2. 0 \in 0..Swap!Cardinality(Swap!Orders)
        BY <1>2, CountsAgree
    <2>3. callOf \in [Swap!Orders -> 0..MaxCalls]
        BY <1>1, <2>1
    <2>4. QED BY <1>1, <2>1, <2>2, <2>3 DEF Swap!Init, Swap!TypeOK
<1>4. Numbered
    BY <1>1, SwapSettings DEF Numbered, Hands
<1>5. Fetched /\ OnPath /\ Seen /\ Superseded
    BY <1>1 DEF Fetched, OnPath, Seen, Superseded, Hands
<1>6. Backed
    BY <1>1, <1>2 DEF Backed, Swap!PositionBacked
<1>7. QED BY <1>3, <1>4, <1>5, <1>6 DEF SwapInv

LEMMA SwapNextKeeps == SwapInv /\ [Swap!Next]_(Swap!vars) => SwapInv'
<1> SUFFICES ASSUME SwapInv, [Swap!Next]_(Swap!vars) PROVE SwapInv'
    OBVIOUS
<1>1. CASE Swap!BuyCandidate
    BY <1>1, BuyCandidateKeeps
<1>2. CASE Swap!ReadBefore
    BY <1>2, ReadBeforeKeeps
<1>3. CASE Swap!FetchSwapOrder
    BY <1>3, FetchSwapOrderKeeps, RestKeeps
<1>4. CASE Stepping
    BY <1>4, SteppingKeeps
<1>5. CASE Swap!CoolDownEnds \/ UNCHANGED Swap!vars
    BY <1>5, RestKeeps
<1>6. ASSUME NEW o \in Swap!Orders, Swap!Settle(o) PROVE SwapInv'
    BY <1>6, SettleKeeps
<1>7. QED
    BY <1>1, <1>2, <1>3, <1>4, <1>5, <1>6 DEF Swap!Next, Swap!Buying, Stepping

\* Two orders of a call never both land.
LEMMA SwapInvSuffices == SwapInv => SwapsSound
<1> SUFFICES ASSUME SwapInv PROVE SwapsSound
    OBVIOUS
<1>1. ASSUME useJito \/ inlineSwapSimulation, NEW c \in 1..call
      PROVE  Swap!Cardinality({o \in Swap!Landed : callOf[o] = c}) <= 1
    <2> DEFINE mine == {o \in Swap!Landed : callOf[o] = c}
    <2>1. ASSUME NEW o \in mine, NEW p \in mine PROVE o = p
        <3>1. /\ o \in Swap!Orders /\ p \in Swap!Orders /\ callOf[o] = callOf[p]
              /\ callOf[o] # 0 /\ tx[o] \notin Dead /\ tx[p] \notin Dead
            BY SwapTyped DEF SwapInv, Swap!Landed, Dead
        <3>2. ~(o < p) /\ ~(p < o)
            BY <1>1, <3>1 DEF SwapInv, Superseded
        <3>3. QED BY <3>1, <3>2, SwapTyped DEF SwapInv
    <2> HIDE DEF mine
    <2>2. mine = {} => Cardinality(mine) = 0
        BY FS_EmptySet
    <2>3. ASSUME NEW o \in mine PROVE Cardinality(mine) = 1
        <3>1. mine = {o}
            BY <2>1, <2>3
        <3>2. QED BY <3>1, FS_Singleton
    <2>4. Cardinality(mine) <= 1
        BY <2>2, <2>3
    <2>5. Swap!Cardinality(mine) = Cardinality(mine)
        BY CountsAgree
    <2>6. Swap!Cardinality(mine) <= 1
        BY <2>4, <2>5
    <2>7. QED BY <2>6 DEF mine
<1>2. QED BY <1>1 DEF SwapInv, SwapsSound, Backed, Swap!OneSwapPerBuy

-----------------------------------------------------------------------------
(* The pool of endpoints.                                                  *)

\* A nonempty set of numbers has a least element.
LEMMA LeastExists ==
    ASSUME NEW T \in SUBSET Nat, T # {}
    PROVE  \E m \in T : \A k \in T : m <= k
<1> DEFINE R == OpToRel(<, Nat)
<1>1. IsWellFoundedOn(R, Nat)
    BY NatLessThanWellFounded
<1>2. \A j, k \in Nat : j < k => <<j, k>> \in R
    BY DEF OpToRel
<1> HIDE DEF R
<1>3. PICK m \in T : \A k \in T : ~ (<<k, m>> \in R)
    BY <1>1, WFMin
<1>4. ASSUME NEW k \in T PROVE m <= k
    <2>1. k \in Nat /\ m \in Nat
        OBVIOUS
    <2>2. ~(k < m)
        BY <1>2, <1>3, <2>1, Zenon
    <2>3. QED BY <2>1, <2>2
<1>5. QED BY <1>4

\* The candidates below e.
Below(candidates, e) == {d \in candidates : d < e}

LEMMA RpcSettings ==
    /\ Pool \in Nat \ {0} /\ MaxAttempts \in Nat \ {0} /\ Turns \in Nat \ {0}
    /\ Flaky \subseteq Rpc!Rpcs /\ IsFiniteSet(RpcCallers)
    /\ Rpc!Rpcs = 0..(Pool - 1) /\ Rpc!Threshold = 3
    /\ Cardinality(RpcCallers) \in Nat
    /\ Rpc!MaxErrors = 3 + Cardinality(RpcCallers)
<1>1. IsFiniteSet(RpcCallers)
    BY TradingAssumption, CountsAgree DEF Rpc!RpcPoolAssumption
<1>2. Cardinality(RpcCallers) \in Nat
    BY <1>1, FS_CardinalityType
<1>3. Rpc!MaxErrors = 3 + Cardinality(RpcCallers)
    BY CountsAgree DEF Rpc!MaxErrors, Rpc!Threshold
<1>4. QED
    BY <1>1, <1>2, <1>3, TradingAssumption
       DEF Rpc!RpcPoolAssumption, Rpc!Rpcs, Rpc!Threshold

\* The n-th candidate is a candidate: the numbers of candidates below the
\* endpoints grow one at a time.
LEMMA NthIsCandidate ==
    ASSUME NEW C \in SUBSET Rpc!Rpcs, NEW n \in Nat, n < Cardinality(C)
    PROVE  Rpc!Nth(C, n) \in C
<1> DEFINE f(m) == Cardinality(Below(C, m))
           T == {m \in Nat : f(m) > n}
<1>1. \A e \in C : e \in Nat /\ e < Pool
    BY RpcSettings
<1>2. IsFiniteSet(C)
    <2>1. IsFiniteSet(0..(Pool - 1))
        BY RpcSettings, FS_Interval
    <2>2. QED BY <2>1, RpcSettings, FS_Subset
<1>3. ASSUME NEW m \in Nat PROVE IsFiniteSet(Below(C, m)) /\ f(m) \in Nat
    <2>1. Below(C, m) \in SUBSET C
        BY DEF Below
    <2>2. IsFiniteSet(Below(C, m))
        BY <1>2, <2>1, FS_Subset
    <2>3. QED BY <2>2, FS_CardinalityType
<1>4. Pool \in T
    <2>1. Below(C, Pool) = C
        BY <1>1 DEF Below
    <2>2. QED BY <2>1, RpcSettings
<1>5. PICK m \in T : \A k \in T : m <= k
    BY <1>4, LeastExists
<1>6. m \in Nat /\ f(m) > n
    BY <1>5
<1>7. m # 0
    <2>1. Below(C, 0) = {}
        BY <1>1 DEF Below
    <2>2. f(0) = 0
        BY <2>1, FS_EmptySet
    <2>3. QED BY <1>6, <2>2
<1> DEFINE e == m - 1
<1>8. e \in Nat /\ e \notin T
    BY <1>5, <1>6, <1>7
<1>9. f(e) <= n /\ f(e) \in Nat
    BY <1>3, <1>8
<1>10. /\ e \in C => Below(C, m) = Below(C, e) \cup {e}
       /\ e \notin C => Below(C, m) = Below(C, e)
       /\ e \notin Below(C, e)
    BY <1>1, <1>6, <1>7 DEF Below
<1> HIDE DEF T, e
<1>11. e \in C /\ f(e) = n
    <2>1. e \in C => f(m) = f(e) + 1
        BY <1>3, <1>8, <1>10, FS_AddElement
    <2>2. e \notin C => f(m) = f(e)
        BY <1>10
    <2>3. QED BY <1>6, <1>9, <2>1, <2>2
<1>12. \E x \in C : Rpc!Cardinality({d \in C : d < x}) = n
    <2>1. Cardinality({d \in C : d < e}) = n
        BY <1>11 DEF Below
    <2>2. Rpc!Cardinality({d \in C : d < e}) = n
        BY <2>1, CountsAgree
    <2>3. QED BY <1>11, <2>2
<1>13. QED BY <1>12 DEF Rpc!Nth

\* The callers whose request to the endpoint e is under way.
Sent(e) == {c \in RpcCallers : phase[c] = "sent" /\ at[c] = e}

\* The errors of an endpoint since its last success include those of the last
\* minute, and an endpoint that answers has none.
HealthKept ==
    \A e \in Rpc!Rpcs : /\ window[e] <= errorCount[e] /\ (~recent[e] => window[e] = 0)
                        /\ e \notin Flaky => errorCount[e] = 0

\* Each request under way may add one error to those that bench the endpoint.
ErrorsBudgeted ==
    (\E e \in Rpc!Rpcs : e \notin Flaky) =>
        \A e \in Rpc!Rpcs :
            window[e] + Cardinality(Sent(e)) < Rpc!Threshold + Cardinality(RpcCallers)

RpcInv == Rpc!TypeOK /\ HealthKept /\ ErrorsBudgeted

LEMMA SentCounts ==
    ASSUME NEW e
    PROVE  /\ IsFiniteSet(Sent(e)) /\ Cardinality(Sent(e)) \in Nat
           /\ Cardinality(Sent(e)) <= Cardinality(RpcCallers)
<1>1. Sent(e) \in SUBSET RpcCallers
    BY DEF Sent
<1>2. QED BY <1>1, RpcSettings, FS_Subset, FS_CardinalityType

LEMMA RpcTyped ==
    ASSUME Rpc!TypeOK
    PROVE  /\ phase \in [RpcCallers -> {"idle", "choosing", "sent", "sleeping"}]
           /\ at \in [RpcCallers -> Rpc!Rpcs] /\ recent \in [Rpc!Rpcs -> BOOLEAN]
           /\ attempt \in [RpcCallers -> 0..MaxAttempts]
           /\ several \in [RpcCallers -> BOOLEAN]
           /\ errorCount \in [Rpc!Rpcs -> 0..Rpc!MaxErrors]
           /\ window \in [Rpc!Rpcs -> 0..Rpc!MaxErrors] /\ Rpc!MaxErrors \in Nat
           /\ \A e \in Rpc!Rpcs : window[e] \in Nat /\ errorCount[e] \in Nat
           /\ index \in 0..(Turns - 1)
BY RpcSettings DEF Rpc!TypeOK

\* An endpoint that answers is never benched, so that one is always left.
LEMMA CandidatesLeft ==
    ASSUME RpcInv
    PROVE  /\ Rpc!Candidates \in SUBSET Rpc!Rpcs /\ IsFiniteSet(Rpc!Candidates)
           /\ Cardinality(Rpc!Candidates) \in Nat \ {0}
           /\ (\E e \in Rpc!Rpcs : e \notin Flaky) =>
                  \A e \in Rpc!Candidates : ~Rpc!Benched(e)
<1>1. Rpc!Candidates \in SUBSET Rpc!Rpcs
    BY DEF Rpc!Candidates
<1>2. Rpc!Candidates # {}
    <2>1. 0 \in Rpc!Rpcs
        BY RpcSettings
    <2>2. QED BY <2>1 DEF Rpc!Candidates
<1>3. IsFiniteSet(Rpc!Candidates)
    <2>1. IsFiniteSet(0..(Pool - 1))
        BY RpcSettings, FS_Interval
    <2>2. QED BY <1>1, <2>1, RpcSettings, FS_Subset
<1>4. Cardinality(Rpc!Candidates) \in Nat /\ Cardinality(Rpc!Candidates) # 0
    BY <1>2, <1>3, FS_EmptySet, FS_CardinalityType
<1>5. ASSUME NEW e \in Rpc!Rpcs, e \notin Flaky
      PROVE  ~Rpc!Benched(e)
    BY <1>5, RpcSettings DEF RpcInv, HealthKept, Rpc!Benched
<1>6. QED BY <1>1, <1>3, <1>4, <1>5 DEF Rpc!Candidates

\* What leaves the endpoints' records and the requests under way alone.
LEMMA RecordsKept ==
    ASSUME RpcInv, Rpc!TypeOK', UNCHANGED <<errorCount, recent, window>>,
           \A e \in Rpc!Rpcs : Sent(e)' \in SUBSET Sent(e)
    PROVE  RpcInv'
<1>1. HealthKept'
    BY DEF RpcInv, HealthKept, Rpc!Rpcs
<1>2. ASSUME NEW e \in Rpc!Rpcs
      PROVE  Cardinality(Sent(e)') <= Cardinality(Sent(e)) /\ Cardinality(Sent(e)') \in Nat
    <2>1. IsFiniteSet(Sent(e)')
        BY SentCounts, FS_Subset
    <2>2. QED BY <2>1, SentCounts, FS_Subset, FS_CardinalityType
<1>3. ErrorsBudgeted'
    <2> SUFFICES ASSUME \E d \in Rpc!Rpcs : d \notin Flaky, NEW e \in Rpc!Rpcs
                 PROVE  window[e] + Cardinality(Sent(e)') < Rpc!Threshold + Cardinality(RpcCallers)
        BY DEF ErrorsBudgeted, Rpc!Rpcs, Rpc!Threshold
    <2>1. window[e] + Cardinality(Sent(e)) < Rpc!Threshold + Cardinality(RpcCallers)
        BY DEF RpcInv, ErrorsBudgeted
    <2>2. /\ window[e] \in Nat /\ Cardinality(Sent(e)) \in Nat
          /\ Rpc!Threshold + Cardinality(RpcCallers) \in Nat
        BY SentCounts, RpcSettings, RpcTyped DEF RpcInv
    <2>3. QED BY <1>2, <2>1, <2>2
<1>4. QED BY <1>1, <1>3 DEF RpcInv

LEMMA CallKeeps ==
    ASSUME RpcInv, NEW c \in RpcCallers, Rpc!Call(c) \/ Rpc!Wakes(c)
    PROVE  RpcInv'
<1>1. /\ phase' = [phase EXCEPT ![c] = "choosing"]
      /\ UNCHANGED <<attempt, at, several, index, errorCount, recent, window>>
    BY DEF Rpc!Call, Rpc!Wakes
<1>2. Rpc!TypeOK'
    BY <1>1 DEF RpcInv, Rpc!TypeOK, Rpc!Rpcs, Rpc!MaxErrors, Rpc!Threshold
<1>3. \A e \in Rpc!Rpcs : Sent(e)' \in SUBSET Sent(e)
    BY <1>1, RpcTyped DEF Sent, RpcInv
<1>4. QED BY <1>1, <1>2, <1>3, RecordsKept

\* The endpoint is chosen: not a benched one as long as another answers.
LEMMA ChooseKeeps ==
    ASSUME RpcInv, NEW c \in RpcCallers, Rpc!Choose(c)
    PROVE  RpcInv'
<1> DEFINE n == index % Rpc!Cardinality(Rpc!Candidates)
           chosen == Rpc!Nth(Rpc!Candidates, n)
<1>1. /\ at' = [at EXCEPT ![c] = chosen] /\ phase' = [phase EXCEPT ![c] = "sent"]
      /\ several' = [several EXCEPT ![c] = Rpc!Cardinality(Rpc!Candidates) > 1]
      /\ index' = (index + 1) % Turns
      /\ phase[c] = "choosing"
      /\ UNCHANGED <<attempt, errorCount, recent, window>>
    BY DEF Rpc!Choose
<1>2. chosen \in Rpc!Candidates
    <2>1. Rpc!Cardinality(Rpc!Candidates) = Cardinality(Rpc!Candidates)
        BY CountsAgree
    <2>2. Cardinality(Rpc!Candidates) \in Nat \ {0} /\ index \in Nat
        BY CandidatesLeft, RpcTyped, RpcSettings DEF RpcInv
    <2>3. n \in Nat /\ n < Cardinality(Rpc!Candidates)
        <3> DEFINE k == Cardinality(Rpc!Candidates)
        <3>1. k \in Nat \ {0} /\ n = index % k
            BY <2>1, <2>2
        <3> HIDE DEF k, n
        <3>2. n \in Nat /\ n < k
            BY <2>2, <3>1
        <3>3. QED BY <3>2 DEF k
    <2> HIDE DEF n
    <2>4. QED BY <2>3, CandidatesLeft, NthIsCandidate
<1> HIDE DEF chosen
<1>3. chosen \in Rpc!Rpcs
    BY <1>2, CandidatesLeft
<1>4. index' \in 0..(Turns - 1)
    <2>1. index + 1 \in Nat /\ Turns \in Nat /\ Turns > 0
        BY RpcSettings, RpcTyped DEF RpcInv
    <2>2. (index + 1) % Turns \in 0..(Turns - 1)
        BY <2>1
    <2>3. QED BY <1>1, <2>2
<1>5. Rpc!TypeOK'
    BY <1>1, <1>3, <1>4 DEF RpcInv, Rpc!TypeOK, Rpc!Rpcs, Rpc!MaxErrors, Rpc!Threshold
<1>6. HealthKept'
    BY <1>1 DEF RpcInv, HealthKept, Rpc!Rpcs
<1>7. ErrorsBudgeted'
    <2> SUFFICES ASSUME \E d \in Rpc!Rpcs : d \notin Flaky, NEW e \in Rpc!Rpcs
                 PROVE  window[e] + Cardinality(Sent(e)') < 3 + Cardinality(RpcCallers)
        BY <1>1 DEF ErrorsBudgeted, Rpc!Rpcs, Rpc!Threshold
    <2>1. Cardinality(Sent(e)') \in Nat /\ Cardinality(Sent(e)') <= Cardinality(RpcCallers)
        <3>1. Sent(e)' \in SUBSET RpcCallers
            BY DEF Sent
        <3>2. IsFiniteSet(Sent(e)')
            BY <3>1, RpcSettings, FS_Subset
        <3>3. QED BY <3>1, <3>2, RpcSettings, FS_Subset, FS_CardinalityType
    <2>2. CASE e = chosen
        <3>1. ~Rpc!Benched(e)
            BY <1>2, <2>2, CandidatesLeft
        <3>2. /\ window[e] <= errorCount[e] /\ (~recent[e] => window[e] = 0)
              /\ window[e] \in Nat /\ errorCount[e] \in Nat
            BY RpcTyped DEF RpcInv, HealthKept
        <3>3. ~(errorCount[e] >= 3) \/ ~recent[e]
            BY <3>1, RpcSettings DEF Rpc!Benched
        <3>4. window[e] < 3
            BY <3>2, <3>3
        <3>5. QED BY <2>1, <3>2, <3>4, RpcSettings
    <2>3. CASE e # chosen
        <3>1. Sent(e)' = Sent(e)
            BY <1>1, <2>3, RpcTyped DEF RpcInv, Sent
        <3>2. QED BY <3>1, RpcSettings DEF RpcInv, ErrorsBudgeted
    <2>4. QED BY <2>2, <2>3
<1>8. QED BY <1>5, <1>6, <1>7 DEF RpcInv

LEMMA CappedIs ==
    ASSUME NEW n \in Nat, NEW m \in Nat, m <= n
    PROVE  /\ Rpc!Capped(n) \in 0..Rpc!MaxErrors /\ Rpc!Capped(n) \in Nat
           /\ Rpc!Capped(n) <= n /\ Rpc!Capped(m) <= Rpc!Capped(n)
BY RpcSettings DEF Rpc!Capped

\* The end of a call takes its request away.
LEMMA EndsSent ==
    ASSUME RpcInv, NEW c \in RpcCallers, phase[c] = "sent",
           phase' \in [RpcCallers -> {"idle", "choosing", "sent", "sleeping"}],
           phase'[c] # "sent",
           \A d \in RpcCallers \ {c} : phase'[d] = phase[d] /\ at'[d] = at[d],
           NEW e \in Rpc!Rpcs
    PROVE  /\ Sent(e)' = Sent(e) \ {c} /\ Cardinality(Sent(e)') \in Nat
           /\ Cardinality(Sent(e)') =
                  IF at[c] = e THEN Cardinality(Sent(e)) - 1 ELSE Cardinality(Sent(e))
<1>1. Sent(e)' = Sent(e) \ {c}
    BY DEF Sent
<1>2. c \in Sent(e) <=> at[c] = e
    BY DEF Sent
<1>3. IsFiniteSet(Sent(e) \ {c})
    BY SentCounts, FS_RemoveElement
<1>4. QED BY <1>1, <1>2, <1>3, SentCounts, FS_RemoveElement, FS_CardinalityType

\* The fields of a caller whose request came back are well formed.
LEMMA ReturnTyped ==
    ASSUME RpcInv, NEW c \in RpcCallers, Rpc!Return(c)
    PROVE  /\ phase' \in [RpcCallers -> {"idle", "choosing", "sent", "sleeping"}]
           /\ attempt' \in [RpcCallers -> 0..MaxAttempts]
           /\ at' \in [RpcCallers -> Rpc!Rpcs] /\ several' \in [RpcCallers -> BOOLEAN]
           /\ phase'[c] = "idle"
           /\ \A d \in RpcCallers \ {c} : phase'[d] = phase[d] /\ at'[d] = at[d]
<1>1. 0 \in Rpc!Rpcs /\ 0 \in 0..MaxAttempts
    BY RpcSettings
<1>2. QED BY <1>1, RpcTyped DEF RpcInv, Rpc!Return

LEMMA SucceedsKeeps ==
    ASSUME RpcInv, NEW c \in RpcCallers, Rpc!Succeeds(c)
    PROVE  RpcInv'
<1> DEFINE e == at[c]
<1>1. /\ phase[c] = "sent" /\ index' = index
      /\ errorCount' = [errorCount EXCEPT ![e] = 0] /\ recent' = [recent EXCEPT ![e] = FALSE]
      /\ window' = [window EXCEPT ![e] = 0] /\ Rpc!Return(c)
    BY DEF Rpc!Succeeds
<1>2. e \in Rpc!Rpcs
    BY RpcTyped DEF RpcInv
<1> HIDE DEF e
<1>3. Rpc!TypeOK'
    <2>1. 0 \in 0..Rpc!MaxErrors
        BY RpcTyped DEF RpcInv
    <2>2. /\ errorCount' \in [Rpc!Rpcs -> 0..Rpc!MaxErrors]
          /\ window' \in [Rpc!Rpcs -> 0..Rpc!MaxErrors] /\ recent' \in [Rpc!Rpcs -> BOOLEAN]
        BY <1>1, <1>2, <2>1, RpcTyped DEF RpcInv
    <2>3. QED BY <1>1, <2>2, ReturnTyped, RpcTyped
              DEF RpcInv, Rpc!TypeOK, Rpc!Rpcs, Rpc!MaxErrors, Rpc!Threshold
<1>4. HealthKept'
    BY <1>1, <1>2, RpcTyped DEF RpcInv, HealthKept, Rpc!Rpcs
<1>5. ErrorsBudgeted'
    <2> SUFFICES ASSUME \E d \in Rpc!Rpcs : d \notin Flaky, NEW d \in Rpc!Rpcs
                 PROVE  window'[d] + Cardinality(Sent(d)') < Rpc!Threshold + Cardinality(RpcCallers)
        BY DEF ErrorsBudgeted, Rpc!Rpcs, Rpc!Threshold
    <2>1. window[d] + Cardinality(Sent(d)) < Rpc!Threshold + Cardinality(RpcCallers)
        BY DEF RpcInv, ErrorsBudgeted
    <2>2. Cardinality(Sent(d)') \in Nat /\ Cardinality(Sent(d)') <= Cardinality(Sent(d))
        BY <1>1, ReturnTyped, EndsSent, SentCounts
    <2>3. window'[d] \in Nat /\ window'[d] <= window[d] /\ window[d] \in Nat
        BY <1>1, <1>2, RpcTyped DEF RpcInv
    <2>4. QED BY <2>1, <2>2, <2>3, SentCounts, RpcSettings
<1>6. QED BY <1>3, <1>4, <1>5 DEF RpcInv

\* An error counts against its endpoint, and its request is over.
LEMMA FailsKeeps ==
    ASSUME RpcInv, NEW c \in RpcCallers, Rpc!Fails(c)
    PROVE  RpcInv'
<1> DEFINE e == at[c]
<1>1. /\ phase[c] = "sent" /\ e \in Flaky /\ index' = index
      /\ errorCount' = [errorCount EXCEPT ![e] = Rpc!Capped(errorCount[e] + 1)]
      /\ recent' = [recent EXCEPT ![e] = TRUE]
      /\ window' = [window EXCEPT ![e] = Rpc!Capped(window[e] + 1)]
    BY DEF Rpc!Fails, Rpc!Recorded
<1>2. e \in Rpc!Rpcs
    BY RpcTyped DEF RpcInv
<1>3. /\ phase' \in [RpcCallers -> {"idle", "choosing", "sent", "sleeping"}]
      /\ attempt' \in [RpcCallers -> 0..MaxAttempts]
      /\ at' \in [RpcCallers -> Rpc!Rpcs] /\ several' \in [RpcCallers -> BOOLEAN]
      /\ phase'[c] # "sent"
      /\ \A d \in RpcCallers \ {c} : phase'[d] = phase[d] /\ at'[d] = at[d]
    <2>1. CASE Rpc!Return(c)
        BY <2>1, ReturnTyped
    <2>2. CASE /\ attempt[c] + 1 < MaxAttempts /\ attempt' = Rpc!Retried(c)
               /\ phase' = [phase EXCEPT ![c] = IF several[c] THEN "choosing" ELSE "sleeping"]
               /\ UNCHANGED <<at, several>>
        <3>1. attempt[c] + 1 \in 0..MaxAttempts
            BY <2>2, RpcTyped, RpcSettings DEF RpcInv
        <3>2. QED BY <2>2, <3>1, RpcTyped DEF RpcInv, Rpc!Retried
    <2>3. QED BY <2>1, <2>2 DEF Rpc!Fails
<1>4. /\ window[e] \in Nat /\ errorCount[e] \in Nat /\ window[e] <= errorCount[e]
      /\ Rpc!Capped(window[e] + 1) <= Rpc!Capped(errorCount[e] + 1)
      /\ Rpc!Capped(window[e] + 1) <= window[e] + 1
      /\ Rpc!Capped(window[e] + 1) \in 0..Rpc!MaxErrors /\ Rpc!Capped(window[e] + 1) \in Nat
      /\ Rpc!Capped(errorCount[e] + 1) \in 0..Rpc!MaxErrors
    <2>1. window[e] \in Nat /\ errorCount[e] \in Nat /\ window[e] <= errorCount[e]
        BY <1>2, RpcTyped DEF RpcInv, HealthKept
    <2>2. window[e] + 1 \in Nat /\ errorCount[e] + 1 \in Nat /\ window[e] + 1 <= errorCount[e] + 1
        BY <2>1
    <2>3. QED BY <2>1, <2>2, CappedIs
<1> HIDE DEF e
<1>5. Rpc!TypeOK'
    <2>1. /\ errorCount' \in [Rpc!Rpcs -> 0..Rpc!MaxErrors]
          /\ window' \in [Rpc!Rpcs -> 0..Rpc!MaxErrors] /\ recent' \in [Rpc!Rpcs -> BOOLEAN]
        BY <1>1, <1>2, <1>4, RpcTyped DEF RpcInv
    <2>2. QED BY <1>1, <1>3, <2>1, RpcTyped
              DEF RpcInv, Rpc!TypeOK, Rpc!Rpcs, Rpc!MaxErrors, Rpc!Threshold
<1>6. HealthKept'
    BY <1>1, <1>2, <1>4, RpcTyped DEF RpcInv, HealthKept, Rpc!Rpcs
<1>7. ErrorsBudgeted'
    <2> SUFFICES ASSUME \E d \in Rpc!Rpcs : d \notin Flaky, NEW d \in Rpc!Rpcs
                 PROVE  window'[d] + Cardinality(Sent(d)') < Rpc!Threshold + Cardinality(RpcCallers)
        BY DEF ErrorsBudgeted, Rpc!Rpcs, Rpc!Threshold
    <2>1. window[d] + Cardinality(Sent(d)) < Rpc!Threshold + Cardinality(RpcCallers)
        BY DEF RpcInv, ErrorsBudgeted
    <2>2. /\ Cardinality(Sent(d)') \in Nat
          /\ Cardinality(Sent(d)') =
                 IF e = d THEN Cardinality(Sent(d)) - 1 ELSE Cardinality(Sent(d))
        BY <1>1, <1>3, EndsSent DEF e
    <2>3. /\ window[d] \in Nat
          /\ window'[d] = IF d = e THEN Rpc!Capped(window[e] + 1) ELSE window[d]
        BY <1>1, <1>2, RpcTyped DEF RpcInv
    <2>4. /\ Cardinality(Sent(d)) \in Nat
          /\ Rpc!Threshold + Cardinality(RpcCallers) \in Nat
        BY SentCounts, RpcSettings
    <2>5. CASE d = e
        BY <1>4, <2>1, <2>2, <2>3, <2>4, <2>5
    <2>6. CASE d # e
        BY <2>1, <2>2, <2>3, <2>6
    <2>7. QED BY <2>5, <2>6
<1>8. QED BY <1>5, <1>6, <1>7 DEF RpcInv

LEMMA QuietMinuteKeeps ==
    ASSUME RpcInv, NEW e \in Rpc!Rpcs, Rpc!QuietMinute(e)
    PROVE  RpcInv'
<1>1. /\ recent' = [recent EXCEPT ![e] = FALSE] /\ window' = [window EXCEPT ![e] = 0]
      /\ UNCHANGED <<phase, attempt, at, several, index, errorCount>>
    BY DEF Rpc!QuietMinute
<1>2. Rpc!TypeOK'
    <2>1. 0 \in 0..Rpc!MaxErrors
        BY RpcTyped DEF RpcInv
    <2>2. window' \in [Rpc!Rpcs -> 0..Rpc!MaxErrors] /\ recent' \in [Rpc!Rpcs -> BOOLEAN]
        BY <1>1, <2>1, RpcTyped DEF RpcInv
    <2>3. QED BY <1>1, <2>2 DEF RpcInv, Rpc!TypeOK, Rpc!Rpcs, Rpc!MaxErrors, Rpc!Threshold
<1>3. HealthKept'
    BY <1>1, RpcTyped DEF RpcInv, HealthKept, Rpc!Rpcs
<1>4. ErrorsBudgeted'
    <2> SUFFICES ASSUME \E d \in Rpc!Rpcs : d \notin Flaky, NEW d \in Rpc!Rpcs
                 PROVE  window'[d] + Cardinality(Sent(d)) < Rpc!Threshold + Cardinality(RpcCallers)
        BY <1>1 DEF ErrorsBudgeted, Rpc!Rpcs, Rpc!Threshold, Sent
    <2>1. window[d] + Cardinality(Sent(d)) < Rpc!Threshold + Cardinality(RpcCallers)
        BY DEF RpcInv, ErrorsBudgeted
    <2>2. window'[d] \in Nat /\ window'[d] <= window[d] /\ window[d] \in Nat
        BY <1>1, RpcTyped DEF RpcInv
    <2>3. QED BY <2>1, <2>2, SentCounts, RpcSettings
<1>5. QED BY <1>2, <1>3, <1>4 DEF RpcInv

LEMMA RpcInit == Rpc!Init => RpcInv
<1> SUFFICES ASSUME Rpc!Init PROVE RpcInv
    OBVIOUS
<1>1. 0 \in Rpc!Rpcs /\ 0 \in 0..MaxAttempts /\ 0 \in 0..(Turns - 1) /\ 0 \in 0..Rpc!MaxErrors
    BY RpcSettings
<1>2. Rpc!TypeOK
    BY <1>1 DEF Rpc!Init, Rpc!TypeOK
<1>3. HealthKept
    BY DEF Rpc!Init, HealthKept
<1>4. ASSUME NEW e \in Rpc!Rpcs
      PROVE  window[e] + Cardinality(Sent(e)) < Rpc!Threshold + Cardinality(RpcCallers)
    BY SentCounts, RpcSettings DEF Rpc!Init
<1>5. QED BY <1>2, <1>3, <1>4 DEF RpcInv, ErrorsBudgeted

LEMMA RpcNextKeeps == RpcInv /\ [Rpc!Next]_(Rpc!vars) => RpcInv'
<1> SUFFICES ASSUME RpcInv, [Rpc!Next]_(Rpc!vars) PROVE RpcInv'
    OBVIOUS
<1>1. CASE UNCHANGED Rpc!vars
    <2>1. Rpc!TypeOK'
        BY <1>1 DEF Rpc!vars, RpcInv, Rpc!TypeOK, Rpc!Rpcs, Rpc!MaxErrors, Rpc!Threshold
    <2>2. UNCHANGED <<errorCount, recent, window>> /\ \A e : Sent(e)' = Sent(e)
        BY <1>1 DEF Rpc!vars, Sent
    <2>3. QED BY <2>1, <2>2, RecordsKept
<1>2. QED
    BY <1>1, CallKeeps, ChooseKeeps, SucceedsKeeps, FailsKeeps, QuietMinuteKeeps
       DEF Rpc!Next, Rpc!Calling

\* No endpoint is asked beyond its budget of errors while another answers.
LEMMA RpcInvSuffices == RpcInv => Rpc!TypeOK /\ Rpc!DeadEndpointBenched
<1> SUFFICES ASSUME RpcInv, \E e \in Rpc!Rpcs : e \notin Flaky, NEW e \in Flaky
             PROVE  window[e] < Rpc!Threshold + Rpc!Cardinality(RpcCallers)
    BY DEF RpcInv, Rpc!DeadEndpointBenched
<1>1. e \in Rpc!Rpcs
    BY RpcSettings
<1>2. window[e] + Cardinality(Sent(e)) < Rpc!Threshold + Cardinality(RpcCallers)
    BY <1>1 DEF RpcInv, ErrorsBudgeted
<1>3. window[e] \in Nat /\ Cardinality(Sent(e)) \in Nat
      /\ Rpc!Threshold + Cardinality(RpcCallers) \in Nat
    BY <1>1, RpcTyped, SentCounts, RpcSettings DEF RpcInv
<1>4. Rpc!Cardinality(RpcCallers) = Cardinality(RpcCallers)
    BY CountsAgree
<1>5. QED BY <1>2, <1>3, <1>4

-----------------------------------------------------------------------------
(* The shared fetches.                                                     *)

\* Who waits for a fetch of its own, or asked in a panic sale, has asked.
WaitersAsked == \A c \in Values!Callers : c \in fetches \cup panic => asks[c] # "nothing"

\* The fetches of a value that others may share.
SharedOf(k) == {c \in fetches : asks[c] = k /\ c \notin panic}

ValuesInv == Values!TypeOK /\ WaitersAsked /\ Values!OneFetchAtATime

LEMMA ValuesTyped ==
    ASSUME ValuesInv
    PROVE  /\ Values!Nobody \notin Values!Callers
           /\ age \in [Values!Caches -> {"none", "fresh", "stale"}]
           /\ inflight \in [Values!Shared -> Values!Callers \cup {Values!Nobody}]
           /\ asks \in [Values!Callers -> Values!Caches \cup {"nothing"}]
           /\ fetches \subseteq Values!Callers /\ panic \subseteq Values!Callers
           /\ awaits \in [{Values!Buyer, Values!Router} -> {"nothing", "quote", "read", "fetch"}]
           /\ \A k \in Values!Shared : SharedOf(k) = {inflight[k]} \ {Values!Nobody}
<1>1. Values!Nobody \notin Values!Callers
    BY TradingAssumption
       DEF Values!SharedFetchesAssumption, Values!Callers, Values!Nobody, Values!Buyer,
           Values!Router
<1>2. QED BY <1>1 DEF ValuesInv, Values!TypeOK, Values!OneFetchAtATime, SharedOf

\* A question that starts a fetch marks it, one that finds a mark shares it.
LEMMA AskKeeps ==
    ASSUME ValuesInv, NEW c \in Values!Callers, NEW k \in Values!Caches,
           NEW urgent \in BOOLEAN, Values!Ask(c, k, urgent)
    PROVE  /\ asks' \in [Values!Callers -> Values!Caches \cup {"nothing"}]
           /\ inflight' \in [Values!Shared -> Values!Callers \cup {Values!Nobody}]
           /\ fetches' \subseteq Values!Callers /\ panic' \subseteq Values!Callers
           /\ WaitersAsked' /\ Values!OneFetchAtATime'
<1>1. asks[c] = "nothing" /\ c \notin fetches /\ c \notin panic
    BY DEF Values!Ask, ValuesInv, WaitersAsked
<1>2. CASE UNCHANGED <<asks, fetches, inflight, panic>>
    BY <1>2, ValuesTyped DEF ValuesInv, WaitersAsked, Values!OneFetchAtATime
<1>3. CASE /\ asks' = [asks EXCEPT ![c] = k]
           /\ panic' = IF urgent THEN panic \cup {c} ELSE panic
           /\ IF Values!Sharing(k, urgent) /\ inflight[k] # Values!Nobody
              THEN UNCHANGED <<fetches, inflight>>
              ELSE /\ fetches' = fetches \cup {c}
                   /\ inflight' = IF Values!Sharing(k, urgent) THEN [inflight EXCEPT ![k] = c]
                                  ELSE inflight
    <2>1. /\ asks' \in [Values!Callers -> Values!Caches \cup {"nothing"}] /\ asks'[c] = k
          /\ \A d \in Values!Callers : d # c => asks'[d] = asks[d]
          /\ panic' \subseteq Values!Callers /\ panic' \ {c} = panic
          /\ fetches' \subseteq Values!Callers /\ fetches' \ {c} = fetches
          /\ c \in panic' <=> urgent
        BY <1>1, <1>3, ValuesTyped
    <2>2. inflight' \in [Values!Shared -> Values!Callers \cup {Values!Nobody}]
        BY <1>3, ValuesTyped DEF Values!Sharing
    <2>3. k # "nothing"
        BY DEF Values!Caches
    <2>4. WaitersAsked'
        BY <2>1, <2>3 DEF ValuesInv, WaitersAsked, Values!Callers
    <2>5. ASSUME NEW s \in Values!Shared
          PROVE  SharedOf(s)' = {inflight'[s]} \ {Values!Nobody}
        <3>1. SharedOf(s) = {inflight[s]} \ {Values!Nobody}
            BY ValuesTyped
        <3>2. \A d \in Values!Callers : d # c => (d \in SharedOf(s)' <=> d \in SharedOf(s))
            BY <2>1 DEF SharedOf
        <3>3. c \notin SharedOf(s)
            BY <1>1 DEF SharedOf
        <3>4. c \in SharedOf(s)' <=> c \in fetches' /\ k = s /\ ~urgent
            BY <2>1 DEF SharedOf
        <3>5. SharedOf(s)' \subseteq Values!Callers /\ SharedOf(s) \subseteq Values!Callers
            BY <2>1, ValuesTyped DEF SharedOf
        <3>6. CASE c \in SharedOf(s)'
            <4>1. k = s /\ ~urgent /\ c \in fetches'
                BY <3>4, <3>6
            <4>2. Values!Sharing(k, urgent)
                BY <4>1 DEF Values!Sharing
            <4>3. inflight[k] = Values!Nobody /\ inflight' = [inflight EXCEPT ![k] = c]
                BY <1>1, <1>3, <4>1, <4>2
            <4>4. SharedOf(s) = {} /\ inflight'[s] = c
                BY <3>1, <4>1, <4>3, ValuesTyped
            <4>5. QED BY <3>2, <3>5, <3>6, <4>4, ValuesTyped
        <3>7. CASE c \notin SharedOf(s)'
            <4>1. SharedOf(s)' = SharedOf(s)
                BY <3>2, <3>3, <3>5, <3>7
            <4>2. inflight'[s] = inflight[s]
                BY <1>3, <3>4, <3>7, ValuesTyped DEF Values!Sharing
            <4>3. QED BY <3>1, <4>1, <4>2
        <3>8. QED BY <3>6, <3>7
    <2>6. Values!OneFetchAtATime'
        BY <2>5 DEF Values!OneFetchAtATime, SharedOf, Values!Shared, Values!Nobody
    <2>7. QED BY <2>1, <2>2, <2>4, <2>6
<1>4. QED BY <1>2, <1>3 DEF Values!Ask

\* The end of a fetch takes its mark away, and its own only.
LEMMA SettleFetchKeeps ==
    ASSUME ValuesInv, NEW c \in fetches, Values!Settle(c, Values!Served(c))
    PROVE  /\ asks' \in [Values!Callers -> Values!Caches \cup {"nothing"}]
           /\ inflight' \in [Values!Shared -> Values!Callers \cup {Values!Nobody}]
           /\ fetches' \subseteq Values!Callers /\ panic' \subseteq Values!Callers
           /\ awaits' \in [{Values!Buyer, Values!Router} -> {"nothing", "quote", "read", "fetch"}]
           /\ WaitersAsked' /\ Values!OneFetchAtATime'
<1> DEFINE served == Values!Served(c)
<1>1. /\ asks' = [d \in Values!Callers |-> IF d \in served THEN "nothing" ELSE asks[d]]
      /\ fetches' = fetches \ {c} /\ panic' = panic \ served
      /\ inflight' = [k \in Values!Shared |->
                         IF inflight[k] = c THEN Values!Nobody ELSE inflight[k]]
      /\ awaits' = [d \in {Values!Buyer, Values!Router} |->
                       IF d \in served /\ awaits[d] = "fetch" THEN "nothing" ELSE awaits[d]]
    BY DEF Values!Settle, Values!Cleared
<1>2. c \in Values!Callers /\ c \in served /\ \A d \in fetches : d # c => d \notin served
    BY ValuesTyped DEF Values!Served
<1> HIDE DEF served
<1>3. /\ asks' \in [Values!Callers -> Values!Caches \cup {"nothing"}]
      /\ fetches' \subseteq Values!Callers /\ panic' \subseteq Values!Callers
      /\ inflight' \in [Values!Shared -> Values!Callers \cup {Values!Nobody}]
    BY <1>1, ValuesTyped
<1>4. awaits' \in [{Values!Buyer, Values!Router} -> {"nothing", "quote", "read", "fetch"}]
    BY <1>1, ValuesTyped
<1>5. WaitersAsked'
    <2>1. ASSUME NEW d \in Values!Callers, d \in fetches' \cup panic'
          PROVE  asks'[d] # "nothing"
        <3>1. d \notin served /\ d \in fetches \cup panic
            BY <1>1, <1>2, <2>1
        <3>2. QED BY <1>1, <3>1 DEF ValuesInv, WaitersAsked
    <2>2. QED BY <2>1 DEF WaitersAsked, Values!Callers
<1>6. ASSUME NEW s \in Values!Shared
      PROVE  SharedOf(s)' = {inflight'[s]} \ {Values!Nobody}
    <2>1. SharedOf(s) = {inflight[s]} \ {Values!Nobody}
        BY ValuesTyped
    <2>2. SharedOf(s)' = SharedOf(s) \ {c}
        BY <1>1, <1>2, ValuesTyped DEF SharedOf
    <2>3. inflight'[s] = IF inflight[s] = c THEN Values!Nobody ELSE inflight[s]
        BY <1>1
    <2>4. QED BY <2>1, <2>2, <2>3
<1>7. Values!OneFetchAtATime'
    BY <1>6 DEF Values!OneFetchAtATime, SharedOf, Values!Shared, Values!Nobody
<1>8. QED BY <1>3, <1>4, <1>5, <1>7

\* The steps that only ask, and those that only wait or pass time.
LEMMA ValuesStepKeeps ==
    ASSUME ValuesInv, [Values!Next]_(Values!vars)
    PROVE  ValuesInv'
<1>1. CASE Values!Asks
    <2>1. PICK c \in Askers, k \in Values!Shared, urgent \in BOOLEAN :
              Values!Ask(c, k, urgent) /\ UNCHANGED <<age, priceCooling, awaits, fatal>>
        BY <1>1 DEF Values!Asks
    <2>2. c \in Values!Callers /\ k \in Values!Caches
        BY DEF Values!Callers, Values!Shared, Values!Caches
    <2>3. QED BY <2>1, <2>2, AskKeeps
              DEF ValuesInv, Values!TypeOK, Values!Callers, Values!Caches, Values!Shared,
                  Values!Nobody, Values!Buyer, Values!Router
<1>2. CASE Values!BeginBuy
    <2>1. /\ Values!Ask(Values!Buyer, "price", FALSE) /\ UNCHANGED <<age, priceCooling, fatal>>
          /\ \E first \in {"quote", "read"} : awaits' = [awaits EXCEPT ![Values!Buyer] = first]
        BY <1>2 DEF Values!BeginBuy
    <2>2. Values!Buyer \in Values!Callers /\ "price" \in Values!Caches
        BY DEF Values!Callers, Values!Caches
    <2>3. awaits' \in [{Values!Buyer, Values!Router} -> {"nothing", "quote", "read", "fetch"}]
        BY <2>1, ValuesTyped
    <2>4. QED BY <2>1, <2>2, <2>3, AskKeeps
              DEF ValuesInv, Values!TypeOK, Values!Callers, Values!Caches, Values!Shared,
                  Values!Nobody, Values!Buyer, Values!Router
<1>3. CASE Values!BeginRoute
    <2>1. /\ Values!Ask(Values!Router, "blockhash", FALSE)
          /\ UNCHANGED <<age, priceCooling, fatal>>
          /\ awaits' = [awaits EXCEPT ![Values!Router] = "read"]
        BY <1>3 DEF Values!BeginRoute
    <2>2. Values!Router \in Values!Callers /\ "blockhash" \in Values!Caches
        BY DEF Values!Callers, Values!Caches
    <2>3. awaits' \in [{Values!Buyer, Values!Router} -> {"nothing", "quote", "read", "fetch"}]
        BY <2>1, ValuesTyped
    <2>4. QED BY <2>1, <2>2, <2>3, AskKeeps
              DEF ValuesInv, Values!TypeOK, Values!Callers, Values!Caches, Values!Shared,
                  Values!Nobody, Values!Buyer, Values!Router
<1>4. ASSUME NEW c \in Values!Callers, Values!Answers(c)
      PROVE  ValuesInv'
    <2>1. /\ c \in fetches /\ Values!Settle(c, Values!Served(c))
          /\ priceCooling' \in BOOLEAN /\ fatal' \in BOOLEAN
          /\ age' \in {age, [age EXCEPT ![asks[c]] = "fresh"]}
        BY <1>4 DEF Values!Answers, Values!Answered, Values!Failed, Values!RateLimited,
                    Values!Unhandled, ValuesInv, Values!TypeOK
    <2>2. age' \in [Values!Caches -> {"none", "fresh", "stale"}]
        BY <2>1, ValuesTyped
    <2>3. QED BY <2>1, <2>2, SettleFetchKeeps
              DEF ValuesInv, Values!TypeOK, Values!Callers, Values!Caches, Values!Shared,
                  Values!Nobody, Values!Buyer, Values!Router
<1>5. CASE \/ \E c \in {Values!Buyer, Values!Router} : Values!ReadsOn(c) \/ Values!ReadFails(c)
           \/ \E k \in Values!Caches : Values!Expires(k)
           \/ Values!CooldownEnds \/ Values!Prewarm \/ UNCHANGED Values!vars
    <2>1. UNCHANGED <<inflight, asks, fetches, panic>>
        BY <1>5 DEF Values!ReadsOn, Values!ReadFails, Values!Expires, Values!CooldownEnds,
                    Values!Prewarm, Values!vars
    <2>2. priceCooling' \in BOOLEAN /\ fatal' \in BOOLEAN
        BY <1>5 DEF Values!ReadsOn, Values!ReadFails, Values!Expires, Values!CooldownEnds,
                    Values!Prewarm, Values!vars, ValuesInv, Values!TypeOK
    <2>3. age' \in [Values!Caches -> {"none", "fresh", "stale"}]
        BY <1>5, ValuesTyped DEF Values!ReadsOn, Values!ReadFails, Values!Expires,
                    Values!CooldownEnds, Values!Prewarm, Values!vars, Values!Caches
    <2>4. awaits' \in [{Values!Buyer, Values!Router} -> {"nothing", "quote", "read", "fetch"}]
        BY <1>5, ValuesTyped DEF Values!ReadsOn, Values!ReadFails, Values!Expires,
                    Values!CooldownEnds, Values!Prewarm, Values!vars
    <2>5. WaitersAsked' /\ Values!OneFetchAtATime'
        BY <2>1 DEF ValuesInv, WaitersAsked, Values!OneFetchAtATime, Values!Callers,
                    Values!Shared, Values!Nobody, Values!Buyer, Values!Router
    <2>6. QED BY <2>1, <2>2, <2>3, <2>4, <2>5
              DEF ValuesInv, Values!TypeOK, Values!Callers, Values!Caches, Values!Shared,
                  Values!Nobody, Values!Buyer, Values!Router
<1>6. QED BY <1>1, <1>2, <1>3, <1>4, <1>5 DEF Values!Next

LEMMA ValuesInit == Values!Init => ValuesInv
<1> SUFFICES ASSUME Values!Init PROVE ValuesInv
    OBVIOUS
<1>1. Values!TypeOK
    BY DEF Values!Init, Values!TypeOK, Values!Caches
<1>2. WaitersAsked /\ Values!OneFetchAtATime
    BY DEF Values!Init, WaitersAsked, Values!OneFetchAtATime
<1>3. QED BY <1>1, <1>2 DEF ValuesInv

-----------------------------------------------------------------------------
(* The parts side by side.                                                 *)

\* A behaviour of the composition is one of each of its parts.
LEMMA StepMovesOne ==
    ASSUME [TradingNext]_allVars
    PROVE  /\ [Next]_vars /\ [Swap!Next]_(Swap!vars) /\ [Rpc!Next]_(Rpc!vars)
           /\ [Values!Next]_(Values!vars)
<1>1. vars' = vars \/ Next
    BY DEF TradingNext, allVars, BucketStep, SwapStep, RpcStep, ValueStep
<1>2. Swap!vars' = Swap!vars \/ Swap!Next
    BY DEF TradingNext, allVars, BucketStep, SwapStep, RpcStep, ValueStep, swapVars, Swap!vars
<1>3. Rpc!vars' = Rpc!vars \/ Rpc!Next
    BY DEF TradingNext, allVars, BucketStep, SwapStep, RpcStep, ValueStep, rpcVars, Rpc!vars
<1>4. Values!vars' = Values!vars \/ Values!Next
    BY DEF TradingNext, allVars, BucketStep, SwapStep, RpcStep, ValueStep, valueVars,
           Values!vars
<1>5. QED BY <1>1, <1>2, <1>3, <1>4

\* What was proved of the bucket alone holds of it under a trade.
THEOREM TradesArePaced == TradingSpec => Spec
<1>1. TradingInit => Init
    BY DEF TradingInit
<1>2. [TradingNext]_allVars => [Next]_vars
    BY StepMovesOne
<1>3. QED BY <1>1, <1>2, PTL DEF TradingSpec, Spec

\* No retry of any path of executeSwap lets two swaps of one buy land, and a
\* position that was recorded without a timeout is in the wallet.
THEOREM RetriesBuyOnce == TradingSpec => []SwapsSound
<1>1. TradingInit => SwapInv
    BY SwapInit DEF TradingInit
<1>2. SwapInv /\ [TradingNext]_allVars => SwapInv'
    BY StepMovesOne, SwapNextKeeps
<1>3. QED BY <1>1, <1>2, SwapInvSuffices, PTL DEF TradingSpec

\* However the callers interleave, a dead endpoint gets the errors that bench
\* it and one request of each caller (rpcCall), and a shared value is fetched
\* once at a time and never under a mark left behind.
THEOREM SharingIsSound == TradingSpec => []SharedStateSound
<1>1. TradingInit => RpcInv /\ ValuesInv
    BY RpcInit, ValuesInit DEF TradingInit
<1>2. RpcInv /\ ValuesInv /\ [TradingNext]_allVars => RpcInv' /\ ValuesInv'
    BY StepMovesOne, RpcNextKeeps, ValuesStepKeeps
<1>3. RpcInv /\ ValuesInv => SharedStateSound
    BY RpcInvSuffices DEF SharedStateSound, ValuesInv
<1>4. QED BY <1>1, <1>2, <1>3, PTL DEF TradingSpec

==============================================================================
