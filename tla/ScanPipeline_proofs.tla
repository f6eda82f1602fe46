------------------------- MODULE ScanPipeline_proofs -------------------------
(***************************************************************************)
(* What holds of the candidate pipeline for every set of mints and scans   *)
(* and every limit, as long as scans end within the minute of the watchdog *)
(* (TimelySpec): what scans work on is current, a mint is bought once, and *)
(* the limits on positions, buys, funds and launchpads are kept.  And what *)
(* holds of the signals that lead to a scan (Discovery), for all mints.    *)
(***************************************************************************)
EXTENDS MCSignals, FiniteSetTheorems, SequenceTheorems, TLAPS

Phases == {"free", "waiting"} \cup Running
Stages == {"none", "due", "queued"} \cup Auditing

(* The type invariant, without the counter of the reservations: that it    *)
(* never falls below zero follows from what it counts.                     *)
StoreTypes ==
  /\ config \in Configs
  /\ lots \in [Mints -> Nat] /\ balance \in Int
  /\ processedMintQueue \in Seq(Mints)
  /\ rechecks \in [Mints -> Entries \cup {NoEntry}]
  /\ coolDownMints \subseteq Mints
ScanTypes ==
  /\ scanChain \in Seq(Scans)
  /\ phase \in [Scans -> Phases]
  /\ item \in [Scans -> [Mints -> Stages]]
  /\ recheckEntry \in [Scans -> [Mints -> Entries \cup {NoEntry}]]
  /\ buys \in [Scans -> Nat]

(* A scan that waits is in the chain, and a scan that runs is its head.    *)
Chained ==
  \A s \in Scans :
    /\ phase[s] = "waiting" => \E i \in DOMAIN scanChain : scanChain[i] = s
    /\ phase[s] \in Running => scanChain # << >> /\ Head(scanChain) = s

(* What a scan holds of a mint fits the phase of its body; a mint under    *)
(* work has no verdict, and one under audit is not held.                   *)
WorkSound ==
  \A s \in Scans, m \in Mints :
    /\ item[s][m] = "due" => phase[s] = "prefetch"
    /\ item[s][m] = "queued" => phase[s] \in {"breaker", "auditing"}
    /\ item[s][m] \in Auditing =>
         /\ phase[s] = "auditing" /\ lots[m] = 0
         /\ recheckEntry[s][m].attempts < MaxRecheckAttempts
    /\ item[s][m] \in {"queued"} \cup Auditing => m \notin processedMints
    /\ item[s][m] \in {"approved", "ordered"} => IsFinal(s, m)
    /\ recheckEntry[s][m] # NoEntry => phase[s] \in Running

(* The queue of the verdicts holds a mint once.                            *)
Once(q) == \A i, j \in DOMAIN q : q[i] = q[j] => i = j
OnlyOf(c, q) == \A i \in DOMAIN c : \E j \in DOMAIN q : c[i] = q[j]
VerdictsOnce == Once(processedMintQueue)

(* The control part of the inductive invariant.                            *)
CInv == /\ StoreTypes /\ ScanTypes /\ Chained /\ WorkSound
        /\ VerdictsOnce /\ RechecksWithoutVerdict /\ EntriesCurrent

-----------------------------------------------------------------------------
(* The queue of the verdicts.                                              *)

LEMMA NoEntryIsNone == NoEntry \notin Entries
BY DEF NoEntry, Entries

LEMMA EntryFields ==
  ASSUME NEW e \in Entries \cup {NoEntry}
  PROVE  /\ e.stage \in {"none", "survival", "final", "plain"}
         /\ e.attempts \in 0..MaxRecheckAttempts
         /\ e.lag \in 0..MaxIndexingLagRetries
         /\ e # NoEntry => e.stage \in {"survival", "final", "plain"}
BY LimitsAssumption DEF NoEntry, Entries

LEMMA EntryMade ==
  ASSUME NEW stage \in {"survival", "final", "plain"},
         NEW attempts \in 0..MaxRecheckAttempts, NEW lag \in 0..MaxIndexingLagRetries
  PROVE  [stage |-> stage, attempts |-> attempts, lag |-> lag] \in Entries
BY DEF Entries

(* A sequence without its head, and one to which an element is added that  *)
(* it does not hold, hold an element once when the sequence did.           *)
LEMMA TailOnce ==
  ASSUME NEW S, NEW q \in Seq(S), q # << >>,
         Once(q)
  PROVE  Tail(q) \in Seq(S) /\ OnlyOf(Tail(q), q) /\ Once(Tail(q))
<1>1. /\ Tail(q) \in Seq(S) /\ Len(Tail(q)) = Len(q) - 1
      /\ \A i \in 1..Len(Tail(q)) : Tail(q)[i] = q[i + 1]
  BY HeadTailProperties
<1>2. Len(q) \in Nat /\ DOMAIN q = 1..Len(q) /\ DOMAIN Tail(q) = 1..Len(Tail(q))
  BY <1>1, LenProperties
<1>3. \A i \in DOMAIN Tail(q) : i + 1 \in DOMAIN q /\ Tail(q)[i] = q[i + 1]
  BY <1>1, <1>2
<1>4. \A i, j \in DOMAIN Tail(q) : Tail(q)[i] = Tail(q)[j] => i + 1 = j + 1
  BY <1>3 DEF Once
<1>5. \A i, j \in DOMAIN Tail(q) : i + 1 = j + 1 => i = j
  BY <1>1, <1>2
<1>6. QED BY <1>1, <1>3, <1>4, <1>5 DEF Once, OnlyOf

LEMMA AppendOnce ==
  ASSUME NEW S, NEW q \in Seq(S), NEW e \in S,
         \A i \in DOMAIN q : q[i] # e, Once(q)
  PROVE  /\ Append(q, e) \in Seq(S) /\ Append(q, e) # << >>
         /\ \A i \in DOMAIN Append(q, e) :
              Append(q, e)[i] = e \/ \E j \in DOMAIN q : Append(q, e)[i] = q[j]
         /\ Once(Append(q, e))
<1> DEFINE a == Append(q, e)
<1>1. /\ a \in Seq(S) /\ a # << >> /\ Len(a) = Len(q) + 1
      /\ \A i \in 1..Len(q) : a[i] = q[i]
      /\ a[Len(q) + 1] = e
  BY AppendProperties
<1>2. Len(q) \in Nat /\ DOMAIN q = 1..Len(q) /\ DOMAIN a = 1..Len(a)
  BY <1>1, LenProperties
<1>3. \A i \in DOMAIN a : \/ (i \in DOMAIN q /\ a[i] = q[i])
                         \/ (i = Len(q) + 1 /\ a[i] = e)
  BY <1>1, <1>2
<1>4. QED BY <1>1, <1>3 DEF Once

LEMMA PlaceAfterCut ==
  ASSUME NEW n \in Nat, NEW k \in Nat, NEW i \in Nat, k <= i, i <= n - 1
  PROVE  i - (k - 1) \in 1..n - k /\ k + (i - (k - 1)) = i + 1
<1>1. i - (k - 1) = i - k + 1 /\ i - k \in Int /\ i - k >= 0 /\ i - k <= n - k - 1
  OBVIOUS
<1>2. QED BY <1>1

(* A sequence without one of its places.                                   *)
LEMMA CutOnce ==
  ASSUME NEW S, NEW q \in Seq(S), NEW k \in DOMAIN q, Once(q),
         NEW c, c = SubSeq(q, 1, k - 1) \o SubSeq(q, k + 1, Len(q))
  PROVE  c \in Seq(S) /\ OnlyOf(c, q) /\ Once(c)
<1> DEFINE left == SubSeq(q, 1, k - 1)
           right == SubSeq(q, k + 1, Len(q))
<1>1. Len(q) \in Nat /\ DOMAIN q = 1..Len(q) /\ k \in 1..Len(q)
  BY LenProperties
<1>2. \A i \in 1..Len(q) : q[i] \in S
  BY <1>1, ElementOfSeq
<1>3. /\ left \in Seq(S) /\ Len(left) = k - 1
      /\ \A i \in 1..k - 1 : left[i] = q[i]
  <2>1. \A i \in 1..k - 1 : q[i] \in S
    BY <1>1, <1>2
  <2>2. /\ left \in Seq(S) /\ Len(left) = IF 1 <= k - 1 THEN k - 1 - 1 + 1 ELSE 0
        /\ \A i \in 1..k - 1 - 1 + 1 : left[i] = q[1 + i - 1]
    BY <2>1, <1>1, SubSeqProperties
  <2>3. QED BY <2>2, <1>1
<1>4. /\ right \in Seq(S) /\ Len(right) = Len(q) - k
      /\ \A i \in 1..Len(q) - k : right[i] = q[k + i]
  <2>1. \A i \in k + 1..Len(q) : q[i] \in S
    BY <1>1, <1>2
  <2>2. /\ right \in Seq(S)
        /\ Len(right) = IF k + 1 <= Len(q) THEN Len(q) - (k + 1) + 1 ELSE 0
        /\ \A i \in 1..Len(q) - (k + 1) + 1 : right[i] = q[(k + 1) + i - 1]
    BY <2>1, <1>1, SubSeqProperties
  <2>3. QED BY <2>2, <1>1
<1>5. /\ c \in Seq(S) /\ Len(c) = Len(q) - 1
      /\ \A i \in 1..Len(q) - 1 : c[i] = IF i <= k - 1 THEN left[i] ELSE right[i - (k - 1)]
  <2>1. /\ c \in Seq(S) /\ Len(c) = Len(left) + Len(right)
        /\ \A i \in 1..Len(left) + Len(right) :
             c[i] = IF i <= Len(left) THEN left[i] ELSE right[i - Len(left)]
    <3>1. left \in Seq(S) /\ right \in Seq(S) /\ c = left \o right
      BY <1>3, <1>4
    <3> HIDE DEF left, right
    <3>2. /\ left \o right \in Seq(S) /\ Len(left \o right) = Len(left) + Len(right)
          /\ \A i \in 1..Len(left) + Len(right) :
               (left \o right)[i] = IF i <= Len(left) THEN left[i] ELSE right[i - Len(left)]
      BY <3>1, ConcatProperties, Zenon
    <3>3. QED BY <3>1, <3>2, Zenon
  <2>2. Len(left) + Len(right) = Len(q) - 1
    BY <1>1, <1>3, <1>4
  <2>3. QED BY <2>1, <2>2, <1>3
<1>6. DOMAIN c = 1..Len(q) - 1
  BY <1>5, LenProperties
<1> HIDE DEF left, right
<1>7. \A i \in 1..Len(q) - 1 : c[i] = q[IF i <= k - 1 THEN i ELSE i + 1]
  <2> TAKE i \in 1..Len(q) - 1
  <2>1. CASE i <= k - 1
    <3>1. i \in 1..k - 1
      BY <2>1, <1>1
    <3>2. QED BY <2>1, <3>1, <1>3, <1>5
  <2>2. CASE ~(i <= k - 1)
    <3> DEFINE j == i - (k - 1)
    <3>0. i \in Nat /\ i <= Len(q) - 1 /\ Len(q) \in Nat /\ k \in Nat /\ k <= i
      BY <2>2, <1>1
    <3>1. j \in 1..Len(q) - k /\ k + j = i + 1
      BY <3>0, PlaceAfterCut
    <3>2. right[j] = q[i + 1]
      BY <3>1, <1>4
    <3>3. QED BY <2>2, <3>2, <1>5
  <2>3. QED BY <2>1, <2>2
<1>8. \A i \in DOMAIN c : (IF i <= k - 1 THEN i ELSE i + 1) \in DOMAIN q
  BY <1>1, <1>6
<1>9. \A i, j \in DOMAIN c :
        (IF i <= k - 1 THEN i ELSE i + 1) = (IF j <= k - 1 THEN j ELSE j + 1) => i = j
  BY <1>1, <1>6
<1>10. ASSUME NEW i \in DOMAIN c, NEW j \in DOMAIN c, c[i] = c[j] PROVE i = j
  <2> DEFINE a == IF i <= k - 1 THEN i ELSE i + 1
             b == IF j <= k - 1 THEN j ELSE j + 1
  <2>1. a \in DOMAIN q /\ b \in DOMAIN q /\ q[a] = q[b]
    BY <1>6, <1>7, <1>8, <1>10
  <2>2. a = b
    BY <2>1 DEF Once
  <2>3. QED BY <2>2, <1>9
<1>11. QED BY <1>5, <1>6, <1>7, <1>8, <1>10 DEF Once, OnlyOf

(* What is left of a sequence without the places before k.                 *)
LEMMA DropOnce ==
  ASSUME NEW S, NEW q \in Seq(S), NEW k \in 1..Len(q), Once(q)
  PROVE  /\ SubSeq(q, k, Len(q)) \in Seq(S) /\ Once(SubSeq(q, k, Len(q)))
         /\ OnlyOf(SubSeq(q, k, Len(q)), q)
<1> DEFINE r == SubSeq(q, k, Len(q))
<1>1. Len(q) \in Nat /\ DOMAIN q = 1..Len(q) /\ \A i \in 1..Len(q) : q[i] \in S
  BY LenProperties, ElementOfSeq
<1>2. /\ r \in Seq(S) /\ Len(r) = Len(q) - k + 1
      /\ \A i \in 1..Len(q) - k + 1 : r[i] = q[k + i - 1]
  <2>1. \A i \in k..Len(q) : q[i] \in S
    BY <1>1
  <2>2. /\ r \in Seq(S) /\ Len(r) = IF k <= Len(q) THEN Len(q) - k + 1 ELSE 0
        /\ \A i \in 1..Len(q) - k + 1 : r[i] = q[k + i - 1]
    BY <2>1, <1>1, SubSeqProperties
  <2>3. QED BY <2>2, <1>1
<1>3. DOMAIN r = 1..Len(q) - k + 1
  BY <1>2, LenProperties
<1> HIDE DEF r
<1>4. \A i \in DOMAIN r : k + i - 1 \in DOMAIN q /\ r[i] = q[k + i - 1]
  BY <1>1, <1>2, <1>3
<1>5. \A i, j \in DOMAIN r : r[i] = r[j] => k + i - 1 = k + j - 1
  BY <1>4 DEF Once
<1>6. \A i, j \in DOMAIN r : k + i - 1 = k + j - 1 => i = j
  BY <1>1, <1>3
<1>7. Once(r) /\ OnlyOf(r, q)
  BY <1>4, <1>5, <1>6 DEF Once, OnlyOf
<1>8. QED BY <1>2, <1>7 DEF r

(* Two sequences that share no element, one after the other.               *)
LEMMA JoinOnce ==
  ASSUME NEW S, NEW q \in Seq(S), NEW c \in Seq(S), Once(q), Once(c),
         \A i \in DOMAIN q, j \in DOMAIN c : q[i] # c[j]
  PROVE  /\ q \o c \in Seq(S) /\ Once(q \o c)
         /\ Len(q \o c) \in Nat /\ Len(q \o c) = Len(q) + Len(c)
         /\ MintsOf(q \o c) \subseteq MintsOf(q) \cup MintsOf(c)
<1> DEFINE r == q \o c
<1>1. /\ Len(q) \in Nat /\ DOMAIN q = 1..Len(q)
      /\ Len(c) \in Nat /\ DOMAIN c = 1..Len(c)
  BY LenProperties
<1>2. /\ r \in Seq(S) /\ Len(r) = Len(q) + Len(c)
      /\ \A i \in 1..Len(q) + Len(c) :
           r[i] = IF i <= Len(q) THEN q[i] ELSE c[i - Len(q)]
  BY ConcatProperties, Zenon
<1>3. DOMAIN r = 1..Len(q) + Len(c)
  BY <1>2, LenProperties
<1> HIDE DEF r
<1>4. \A i \in DOMAIN r : \/ i \in DOMAIN q /\ r[i] = q[i]
                          \/ i - Len(q) \in DOMAIN c /\ i > Len(q) /\ r[i] = c[i - Len(q)]
  BY <1>1, <1>2, <1>3
<1>5. ASSUME NEW i \in DOMAIN r, NEW j \in DOMAIN r, r[i] = r[j] PROVE i = j
  <2>1. i \in Int /\ j \in Int
    BY <1>1, <1>3
  <2>2. CASE i \in DOMAIN q /\ r[i] = q[i] /\ j \in DOMAIN q /\ r[j] = q[j]
    BY <1>5, <2>2 DEF Once
  <2>3. CASE /\ i - Len(q) \in DOMAIN c /\ r[i] = c[i - Len(q)]
             /\ j - Len(q) \in DOMAIN c /\ r[j] = c[j - Len(q)]
    <3>1. i - Len(q) = j - Len(q)
      BY <1>5, <2>3 DEF Once
    <3>2. QED BY <3>1, <2>1, <1>1
  <2>4. QED BY <1>4, <1>5, <2>2, <2>3
<1>6. Once(r)
  BY <1>5 DEF Once
<1>7. MintsOf(r) \subseteq MintsOf(q) \cup MintsOf(c)
  BY <1>4 DEF MintsOf
<1>8. QED BY <1>1, <1>2, <1>6, <1>7 DEF r

-----------------------------------------------------------------------------
(* What the store keeps of m while the rest of CInv is looked at: the      *)
(* verdicts and the rechecks of the other mints stay, or are removed.      *)
StoreStep(m) ==
  /\ processedMintQueue' \in Seq(Mints)
  /\ rechecks' \in [Mints -> Entries \cup {NoEntry}]
  /\ VerdictsOnce' /\ RechecksWithoutVerdict'
  /\ \A n \in Mints \ {m} : /\ n \in processedMints' => n \in processedMints
                            /\ rechecks'[n] \in {rechecks[n], NoEntry}

LEMMA StoreStays ==
  ASSUME CInv, NEW m \in Mints, UNCHANGED <<processedMintQueue, rechecks>>
  PROVE  StoreStep(m)
BY DEF CInv, StoreTypes, StoreStep, VerdictsOnce, Once, RechecksWithoutVerdict, processedMints, MintsOf

LEMMA TrackMintStep ==
  ASSUME CInv, NEW m \in Mints, TrackMint(m)
  PROVE  StoreStep(m) /\ \A n \in Mints : rechecks'[n] \in {rechecks[n], NoEntry}
<1>1. processedMintQueue \in Seq(Mints) /\ rechecks \in [Mints -> Entries \cup {NoEntry}]
  BY DEF CInv, StoreTypes
<1>2. CASE m \in processedMints
  <2>1. UNCHANGED <<processedMintQueue, rechecks>>
    BY <1>2 DEF TrackMint
  <2>2. QED BY <2>1, StoreStays
<1>3. CASE m \notin processedMints
  <2> DEFINE queue == Append(processedMintQueue, m)
  <2>1. /\ rechecks' = [rechecks EXCEPT ![m] = NoEntry]
        /\ processedMintQueue' = IF Len(queue) > MaxTrackedMints THEN Tail(queue) ELSE queue
    BY <1>3 DEF TrackMint
  <2>2. \A i \in DOMAIN processedMintQueue : processedMintQueue[i] # m
    BY <1>3 DEF processedMints, MintsOf
  <2>3. Once(processedMintQueue)
    BY DEF CInv, VerdictsOnce
  <2>4. /\ queue \in Seq(Mints) /\ queue # << >>
        /\ \A i \in DOMAIN queue :
             queue[i] = m \/ \E j \in DOMAIN processedMintQueue : queue[i] = processedMintQueue[j]
        /\ Once(queue)
    BY <1>1, <2>2, <2>3, AppendOnce
  <2> HIDE DEF queue
  <2>5. Tail(queue) \in Seq(Mints) /\ OnlyOf(Tail(queue), queue) /\ Once(Tail(queue))
    BY <2>4, TailOnce
  <2>6. /\ processedMintQueue' \in Seq(Mints)
        /\ \A i \in DOMAIN processedMintQueue' :
             \/ processedMintQueue'[i] = m
             \/ \E j \in DOMAIN processedMintQueue : processedMintQueue'[i] = processedMintQueue[j]
        /\ VerdictsOnce'
    BY <2>1, <2>4, <2>5 DEF VerdictsOnce, OnlyOf
  <2>7. \A n \in Mints : n \in processedMints' => n = m \/ n \in processedMints
    BY <2>6 DEF processedMints, MintsOf
  <2>8. /\ rechecks' \in [Mints -> Entries \cup {NoEntry}]
        /\ \A n \in Mints : rechecks'[n] \in {rechecks[n], NoEntry}
        /\ rechecks'[m] = NoEntry
    BY <1>1, <2>1
  <2>9. RechecksWithoutVerdict'
    BY <2>7, <2>8 DEF CInv, RechecksWithoutVerdict
  <2>10. QED BY <2>6, <2>7, <2>8, <2>9 DEF StoreStep
<1>4. QED BY <1>2, <1>3

(* The cancelled rechecks of a scan.                                       *)
LEMMA TrackMintsStep ==
  ASSUME CInv, NEW s \in Scans, NEW mints \in Cancellations(s), TrackMints(mints)
  PROVE  /\ StoreTypes' <=> (lots' \in [Mints -> Nat] /\ balance' \in Int
                              /\ config' \in Configs /\ coolDownMints' \subseteq Mints)
         /\ VerdictsOnce' /\ RechecksWithoutVerdict'
         /\ processedMints' \subseteq processedMints \cup MintsOf(mints)
         /\ \A n \in Mints : rechecks'[n] \in {rechecks[n], NoEntry}
         /\ MintsOf(mints) \subseteq DueItems(s)
<1> DEFINE queue == processedMintQueue \o mints
<1>1. /\ processedMintQueue \in Seq(Mints) /\ Once(processedMintQueue)
      /\ rechecks \in [Mints -> Entries \cup {NoEntry}]
  BY DEF CInv, StoreTypes, VerdictsOnce
<1>2. PICK n \in 0..Cardinality(DueItems(s)) :
        /\ mints \in [1..n -> DueItems(s)]
        /\ \A i, j \in 1..n : mints[i] = mints[j] => i = j
  BY DEF Cancellations
<1>3. n \in Nat /\ DueItems(s) \subseteq Mints \ processedMints
  BY DEF DueItems
<1>4. mints \in Seq(Mints) /\ DOMAIN mints = 1..n /\ Once(mints)
  <2>1. mints \in [1..n -> Mints]
    BY <1>2, <1>3
  <2>2. QED BY <2>1, <1>2, <1>3, SeqDef DEF Once
<1>5. MintsOf(mints) \subseteq DueItems(s)
  BY <1>2 DEF MintsOf
<1>6. \A i \in DOMAIN processedMintQueue, j \in DOMAIN mints :
        processedMintQueue[i] # mints[j]
  BY <1>2, <1>3, <1>4 DEF processedMints, MintsOf
<1>7. /\ queue \in Seq(Mints) /\ Once(queue) /\ Len(queue) \in Nat
      /\ \A i \in DOMAIN queue : queue[i] \in processedMints \cup MintsOf(mints)
  <2>1. /\ queue \in Seq(Mints) /\ Once(queue) /\ Len(queue) \in Nat
        /\ MintsOf(queue) \subseteq MintsOf(processedMintQueue) \cup MintsOf(mints)
    BY <1>1, <1>4, <1>6, JoinOnce
  <2> HIDE DEF queue
  <2>2. \A i \in DOMAIN queue : queue[i] \in MintsOf(queue)
    BY DEF MintsOf
  <2>3. QED BY <2>1, <2>2 DEF processedMints
<1>8. /\ processedMintQueue' =
           IF Len(queue) > MaxTrackedMints
           THEN SubSeq(queue, Len(queue) - MaxTrackedMints + 1, Len(queue)) ELSE queue
      /\ rechecks' = [m \in Mints |-> IF m \in MintsOf(mints) THEN NoEntry ELSE rechecks[m]]
  BY DEF TrackMints
<1> HIDE DEF queue
<1>9. /\ processedMintQueue' \in Seq(Mints) /\ Once(processedMintQueue')
      /\ OnlyOf(processedMintQueue', queue)
  <2>1. CASE Len(queue) > MaxTrackedMints
    <3>1. Len(queue) - MaxTrackedMints + 1 \in 1..Len(queue)
      BY <2>1, <1>7, LimitsAssumption
    <3>2. QED BY <2>1, <3>1, <1>7, <1>8, DropOnce
  <2>2. CASE ~(Len(queue) > MaxTrackedMints)
    BY <2>2, <1>7, <1>8 DEF OnlyOf
  <2>3. QED BY <2>1, <2>2
<1>10. processedMints' \subseteq processedMints \cup MintsOf(mints)
  BY <1>7, <1>9 DEF processedMints, MintsOf, OnlyOf
<1>11. /\ rechecks' \in [Mints -> Entries \cup {NoEntry}]
       /\ \A m \in Mints : rechecks'[m] \in {rechecks[m], NoEntry}
       /\ \A m \in MintsOf(mints) : m \in Mints => rechecks'[m] = NoEntry
  BY <1>1, <1>8
<1>12. RechecksWithoutVerdict'
  BY <1>10, <1>11 DEF CInv, RechecksWithoutVerdict
<1>13. QED BY <1>5, <1>9, <1>10, <1>11, <1>12 DEF StoreTypes, VerdictsOnce

LEMMA UntrackMintStep ==
  ASSUME CInv, NEW m \in Mints, UntrackMint(m)
  PROVE  /\ StoreStep(m) /\ \A n \in Mints : rechecks'[n] \in {rechecks[n], NoEntry}
         /\ \A n \in Mints : n \in processedMints' => n \in processedMints
<1>1. processedMintQueue \in Seq(Mints) /\ rechecks \in [Mints -> Entries \cup {NoEntry}]
  BY DEF CInv, StoreTypes
<1>2. Once(processedMintQueue)
  BY DEF CInv, VerdictsOnce
<1>3. /\ processedMintQueue' \in Seq(Mints)
      /\ OnlyOf(processedMintQueue', processedMintQueue)
      /\ VerdictsOnce'
  <2>1. CASE m \in processedMints
    <3>1. PICK k \in DOMAIN processedMintQueue :
            processedMintQueue' = SubSeq(processedMintQueue, 1, k - 1)
              \o SubSeq(processedMintQueue, k + 1, Len(processedMintQueue))
      BY <2>1 DEF UntrackMint
    <3>2. QED BY <3>1, <1>1, <1>2, CutOnce DEF VerdictsOnce
  <2>2. CASE m \notin processedMints
    <3>1. processedMintQueue' = processedMintQueue
      BY <2>2 DEF UntrackMint
    <3>2. QED BY <3>1, <1>1, <1>2 DEF VerdictsOnce, OnlyOf
  <2>3. QED BY <2>1, <2>2
<1>4. \A n \in Mints : n \in processedMints' => n \in processedMints
  BY <1>3 DEF processedMints, MintsOf, OnlyOf
<1>5. /\ rechecks' \in [Mints -> Entries \cup {NoEntry}]
      /\ \A n \in Mints : rechecks'[n] \in {rechecks[n], NoEntry}
  BY <1>1 DEF UntrackMint
<1>6. RechecksWithoutVerdict'
  BY <1>4, <1>5 DEF CInv, RechecksWithoutVerdict
<1>7. QED BY <1>3, <1>4, <1>5, <1>6 DEF StoreStep

LEMMA UpsertRecheckStep ==
  ASSUME CInv, NEW m \in Mints \ processedMints,
         NEW stage \in {"survival", "final", "plain"},
         NEW attempts \in 0..MaxRecheckAttempts, NEW lag \in 0..MaxIndexingLagRetries,
         UpsertRecheck(m, stage, attempts, lag)
  PROVE  StoreStep(m)
<1> DEFINE e == [stage |-> stage, attempts |-> attempts, lag |-> lag]
<1>1. e \in Entries
  BY EntryMade
<1>2. rechecks' = [rechecks EXCEPT ![m] = e] /\ processedMintQueue' = processedMintQueue
  BY DEF UpsertRecheck
<1> HIDE DEF e
<1>3. /\ rechecks' \in [Mints -> Entries \cup {NoEntry}]
      /\ \A n \in Mints \ {m} : rechecks'[n] = rechecks[n]
  BY <1>1, <1>2 DEF CInv, StoreTypes
<1>4. processedMintQueue' \in Seq(Mints) /\ processedMints' = processedMints /\ VerdictsOnce'
  BY <1>2 DEF CInv, StoreTypes, VerdictsOnce, Once, processedMints, MintsOf
<1>5. RechecksWithoutVerdict'
  BY <1>3, <1>4 DEF CInv, RechecksWithoutVerdict
<1>6. QED BY <1>3, <1>4, <1>5 DEF StoreStep

-----------------------------------------------------------------------------
(* The control part is inductive.                                          *)

LEMMA InitControl == Init => CInv
<1> SUFFICES ASSUME Init PROVE CInv
  OBVIOUS
<1>1. /\ config \in Configs /\ lots \in [Mints -> {0, 1}] /\ balance = InitialBalance
      /\ processedMintQueue = << >> /\ rechecks \in [Mints -> Entries \cup {NoEntry}]
      /\ coolDownMints = {} /\ scanChain = << >>
      /\ phase = [s \in Scans |-> "free"]
      /\ item = [s \in Scans |-> [m \in Mints |-> "none"]]
      /\ recheckEntry = [s \in Scans |-> [m \in Mints |-> NoEntry]]
      /\ buys = [s \in Scans |-> 0]
  BY DEF Init
<1>2. StoreTypes
  BY <1>1, LimitsAssumption DEF StoreTypes
<1>3. ScanTypes
  BY <1>1 DEF ScanTypes, Phases, Stages
<1>4. Chained
  BY <1>1 DEF Chained, Running
<1>5. WorkSound
  BY <1>1 DEF WorkSound, Auditing
<1>6. processedMints = {} /\ VerdictsOnce
  BY <1>1 DEF processedMints, MintsOf, VerdictsOnce, Once
<1>7. RechecksWithoutVerdict /\ EntriesCurrent
  BY <1>1, <1>6 DEF RechecksWithoutVerdict, EntriesCurrent
<1>8. QED BY <1>2, <1>3, <1>4, <1>5, <1>6, <1>7 DEF CInv

(* The scan that runs is the only one that works.                          *)
LEMMA OthersIdle ==
  ASSUME CInv, NEW s \in Scans, phase[s] \in Running, NEW c \in Scans, c # s
  PROVE  /\ phase[c] \notin Running
         /\ \A m \in Mints : item[c][m] = "none" /\ recheckEntry[c][m] = NoEntry
<1>1. phase[c] \notin Running
  BY DEF CInv, Chained
<1>2. \A m \in Mints : item[c][m] \in Stages
  BY DEF CInv, ScanTypes
<1>3. ASSUME NEW m \in Mints PROVE item[c][m] = "none" /\ recheckEntry[c][m] = NoEntry
  BY <1>1, <1>2 DEF CInv, WorkSound, Stages, Running
<1>4. QED BY <1>1, <1>3

(* A work item is done, whatever else its action does to the store of its  *)
(* own mint.                                                               *)
LEMMA LeaveControl ==
  ASSUME CInv, NEW s \in Scans, NEW m \in Mints, phase[s] = "auditing",
         Leave(s, m), StoreStep(m),
         lots' \in [Mints -> Nat], \A n \in Mints \ {m} : lots'[n] = lots[n],
         balance' \in Int, coolDownMints' \subseteq Mints, buys' \in [Scans -> Nat]
  PROVE  CInv'
<1>1. StoreTypes'
  BY DEF CInv, StoreTypes, StoreStep, Leave
<1>2. /\ item' = [item EXCEPT ![s][m] = "none"]
      /\ recheckEntry' = [recheckEntry EXCEPT ![s][m] = NoEntry]
      /\ UNCHANGED <<scanChain, phase>>
  BY DEF Leave
<1>3. ScanTypes'
  BY <1>2 DEF CInv, ScanTypes, Stages
<1>4. Chained'
  BY <1>2 DEF CInv, Chained
<1>5. \A c \in Scans, n \in Mints :
        \/ c # s /\ item'[c][n] = "none" /\ recheckEntry'[c][n] = NoEntry
        \/ c = s /\ n = m /\ item'[c][n] = "none" /\ recheckEntry'[c][n] = NoEntry
        \/ c = s /\ n # m /\ item'[c][n] = item[c][n] /\ recheckEntry'[c][n] = recheckEntry[c][n]
  BY <1>2, OthersIdle DEF CInv, ScanTypes, Running
<1>6. WorkSound'
  <2> SUFFICES ASSUME NEW c \in Scans, NEW n \in Mints
               PROVE  WorkSound!(c, n)'
    BY DEF WorkSound
  <2>1. CASE c = s /\ n # m
    <3>1. item'[c][n] = item[c][n] /\ recheckEntry'[c][n] = recheckEntry[c][n]
      BY <1>5, <2>1
    <3>2. lots'[n] = lots[n] /\ (n \in processedMints' => n \in processedMints)
      BY <2>1 DEF StoreStep
    <3>3. QED BY <3>1, <3>2, <1>2 DEF CInv, WorkSound, IsFinal
  <2>2. CASE ~(c = s /\ n # m)
    BY <2>2, <1>5 DEF WorkSound, Auditing
  <2>3. QED BY <2>1, <2>2
<1>7. EntriesCurrent'
  BY <1>5 DEF CInv, EntriesCurrent, StoreStep
<1>8. QED BY <1>1, <1>3, <1>4, <1>6, <1>7 DEF CInv, StoreStep

(* The chain after the body of its running scan returned.                  *)
LEMMA FinishControl ==
  ASSUME CInv, NEW s \in Scans, phase[s] \in Running, Finish(s),
         StoreTypes', VerdictsOnce', RechecksWithoutVerdict'
  PROVE  CInv'
<1>1. /\ phase' = [phase EXCEPT ![s] = "free"]
      /\ item' = [item EXCEPT ![s] = [m \in Mints |-> "none"]]
      /\ recheckEntry' = [recheckEntry EXCEPT ![s] = [m \in Mints |-> NoEntry]]
      /\ buys' = [buys EXCEPT ![s] = 0]
  BY DEF Finish
<1>2. scanChain # << >> /\ Head(scanChain) = s /\ scanChain \in Seq(Scans)
  BY DEF CInv, Chained, ScanTypes
<1>3. scanChain' = Tail(scanChain)
  BY <1>2 DEF Finish
<1>4. /\ scanChain' \in Seq(Scans) /\ Len(scanChain') = Len(scanChain) - 1
      /\ \A i \in 1..Len(scanChain') : scanChain'[i] = scanChain[i + 1]
      /\ DOMAIN scanChain = 1..Len(scanChain) /\ DOMAIN scanChain' = 1..Len(scanChain')
      /\ Len(scanChain) \in Nat
  BY <1>2, <1>3, HeadTailProperties, LenProperties
<1>6. ScanTypes'
  BY <1>1, <1>4 DEF CInv, ScanTypes, Phases, Stages
<1>7. Chained'
  <2> SUFFICES ASSUME NEW c \in Scans PROVE Chained!(c)'
    BY DEF Chained
  <2>1. phase'[c] \notin Running
    BY <1>1, <1>2 DEF CInv, Chained, ScanTypes, Running
  <2>2. ASSUME phase'[c] = "waiting" PROVE \E i \in DOMAIN scanChain' : scanChain'[i] = c
    <3>1. c # s /\ phase[c] = "waiting"
      BY <2>2, <1>1 DEF CInv, ScanTypes
    <3>2. PICK i \in DOMAIN scanChain : scanChain[i] = c
      BY <3>1 DEF CInv, Chained
    <3>3. i # 1
      BY <3>1, <3>2, <1>2
    <3>4. i - 1 \in DOMAIN scanChain' /\ (i - 1) + 1 = i
      BY <3>3, <1>4
    <3>5. QED BY <3>2, <3>4, <1>4
  <2>3. QED BY <2>1, <2>2
<1>8. \A c \in Scans, m \in Mints : item'[c][m] = "none" /\ recheckEntry'[c][m] = NoEntry
  BY <1>1, OthersIdle DEF CInv, ScanTypes
<1>9. WorkSound' /\ EntriesCurrent'
  BY <1>8 DEF WorkSound, EntriesCurrent, Auditing
<1>10. QED BY <1>6, <1>7, <1>9 DEF CInv

LEMMA ReturnControl ==
  ASSUME CInv, NEW s \in Scans, phase[s] \in Running, Return(s)
  PROVE  CInv'
<1>1. Finish(s) /\ UNCHANGED storeVars
  BY DEF Return
<1>2. StoreTypes' /\ VerdictsOnce' /\ RechecksWithoutVerdict'
  BY <1>1 DEF CInv, StoreTypes, VerdictsOnce, Once, RechecksWithoutVerdict,
     processedMints, MintsOf, storeVars
<1>3. QED BY <1>1, <1>2, FinishControl

LEMMA ScanStepControl ==
  ASSUME CInv, NEW s \in Scans, ScanStep(s)
  PROVE  CInv'
<1>1. CASE RequestScan(s)
  <2>1. /\ phase[s] = "free" /\ scanChain' = Append(scanChain, s)
        /\ phase' = [phase EXCEPT ![s] = "waiting"]
        /\ UNCHANGED <<storeVars, item, recheckEntry, buys, reservedBuys>>
    BY <1>1 DEF RequestScan
  <2>2. scanChain \in Seq(Scans) /\ Len(scanChain) \in Nat /\ DOMAIN scanChain = 1..Len(scanChain)
    BY LenProperties DEF CInv, ScanTypes
  <2>3. /\ scanChain' \in Seq(Scans) /\ Len(scanChain') = Len(scanChain) + 1
        /\ scanChain' # << >>
        /\ \A i \in DOMAIN scanChain : i \in DOMAIN scanChain' /\ scanChain'[i] = scanChain[i]
        /\ Len(scanChain) + 1 \in DOMAIN scanChain' /\ scanChain'[Len(scanChain) + 1] = s
        /\ scanChain # << >> => Head(scanChain') = Head(scanChain)
    <3>1. /\ scanChain' \in Seq(Scans) /\ scanChain' # << >> /\ Len(scanChain') = Len(scanChain) + 1
          /\ \A i \in 1..Len(scanChain) : scanChain'[i] = scanChain[i]
          /\ scanChain'[Len(scanChain) + 1] = s
      BY <2>1, <2>2, AppendProperties
    <3>2. DOMAIN scanChain' = 1..Len(scanChain')
      BY <3>1, LenProperties
    <3>3. scanChain # << >> => Head(scanChain') = Head(scanChain)
      BY <2>1, <2>2, HeadTailAppend
    <3>4. QED BY <3>1, <3>2, <3>3, <2>2
  <2>4. StoreTypes' /\ VerdictsOnce' /\ RechecksWithoutVerdict' /\ processedMints' = processedMints
    BY <2>1 DEF CInv, StoreTypes, VerdictsOnce, Once, RechecksWithoutVerdict, processedMints, MintsOf, storeVars
  <2>5. ScanTypes'
    BY <2>1, <2>3 DEF CInv, ScanTypes, Phases
  <2>6. Chained'
    BY <2>1, <2>3 DEF CInv, Chained, ScanTypes, Running
  <2>7. WorkSound'
    BY <2>1, <2>4 DEF CInv, WorkSound, ScanTypes, Stages, Running, Auditing, IsFinal, storeVars
  <2>8. EntriesCurrent'
    BY <2>1 DEF CInv, EntriesCurrent, storeVars
  <2>9. QED BY <2>4, <2>5, <2>6, <2>7, <2>8 DEF CInv
<1>2. CASE BeginScan(s)
  <2>1. PICK due \in SUBSET Pending :
          /\ item' = [item EXCEPT ![s] = [m \in Mints |-> IF m \in due THEN "due" ELSE "none"]]
          /\ recheckEntry' = [recheckEntry EXCEPT ![s] =
               [m \in Mints |-> IF m \in due THEN rechecks[m] ELSE NoEntry]]
    BY <1>2 DEF BeginScan
  <2>2. /\ phase[s] = "waiting" /\ Head(scanChain) = s
        /\ phase' = [phase EXCEPT ![s] = "prefetch"]
        /\ UNCHANGED <<storeVars, scanChain, buys, reservedBuys>>
    BY <1>2 DEF BeginScan
  <2>3. scanChain # << >>
    BY <2>2 DEF CInv, Chained
  <2>4. StoreTypes' /\ VerdictsOnce' /\ RechecksWithoutVerdict' /\ processedMints' = processedMints
    BY <2>2 DEF CInv, StoreTypes, VerdictsOnce, Once, RechecksWithoutVerdict, processedMints, MintsOf, storeVars
  <2>5. ScanTypes'
    <3>1. \A m \in Mints : rechecks[m] \in Entries \cup {NoEntry}
      BY DEF CInv, StoreTypes
    <3>2. recheckEntry' \in [Scans -> [Mints -> Entries \cup {NoEntry}]]
      BY <2>1, <3>1 DEF CInv, ScanTypes
    <3>3. item' \in [Scans -> [Mints -> Stages]]
      BY <2>1 DEF CInv, ScanTypes, Stages
    <3>4. QED BY <2>2, <3>2, <3>3 DEF CInv, ScanTypes, Phases, Running
  <2>6. Chained'
    BY <2>2, <2>3 DEF CInv, Chained, ScanTypes, Running
  <2>7. \A c \in Scans, m \in Mints :
          \/ (c # s /\ item'[c][m] = item[c][m] /\ recheckEntry'[c][m] = recheckEntry[c][m])
          \/ (c = s /\ item'[c][m] \in {"due", "none"} /\ recheckEntry'[c][m] \in {rechecks[m], NoEntry})
    BY <2>1 DEF CInv, ScanTypes
  <2>8. WorkSound'
    BY <2>2, <2>4, <2>7 DEF CInv, WorkSound, ScanTypes, Running, Auditing, IsFinal, storeVars
  <2>9. EntriesCurrent'
    BY <2>2, <2>7 DEF CInv, EntriesCurrent, storeVars
  <2>10. QED BY <2>4, <2>5, <2>6, <2>8, <2>9 DEF CInv
<1>3. CASE BuildWorkItems(s)
  <2> DEFINE Work(fresh, cancelled) == fresh \cup (DueItems(s) \ MintsOf(cancelled))
  <2>0. PICK fresh \in SUBSET {m \in Mints \ (processedMints \cup Pending) : item[s][m] = "none"},
             cancelled \in Cancellations(s) :
          /\ item' = [item EXCEPT ![s] =
               [m \in Mints |-> IF m \in Work(fresh, cancelled) THEN "queued" ELSE "none"]]
          /\ recheckEntry' = [recheckEntry EXCEPT ![s] =
               [m \in Mints |->
                  IF m \in Work(fresh, cancelled) THEN recheckEntry[s][m] ELSE NoEntry]]
          /\ TrackMints(cancelled)
    BY <1>3, Zenon DEF BuildWorkItems
  <2> DEFINE queued == Work(fresh, cancelled)
  <2>1. /\ queued \in SUBSET Mints /\ queued = fresh \cup (DueItems(s) \ MintsOf(cancelled))
        /\ item' = [item EXCEPT ![s] = [m \in Mints |-> IF m \in queued THEN "queued" ELSE "none"]]
        /\ recheckEntry' = [recheckEntry EXCEPT ![s] =
             [m \in Mints |-> IF m \in queued THEN recheckEntry[s][m] ELSE NoEntry]]
        /\ TrackMints(cancelled)
    BY <2>0 DEF DueItems
  <2> HIDE DEF queued, Work
  <2>2. /\ phase[s] = "prefetch" /\ phase' = [phase EXCEPT ![s] = "breaker"]
        /\ UNCHANGED <<config, lots, balance, coolDownMints, scanChain, buys, reservedBuys>>
    BY <1>3 DEF BuildWorkItems
  <2>3. /\ StoreTypes' /\ VerdictsOnce' /\ RechecksWithoutVerdict'
        /\ processedMints' \subseteq processedMints \cup MintsOf(cancelled)
        /\ \A m \in Mints : rechecks'[m] \in {rechecks[m], NoEntry}
        /\ MintsOf(cancelled) \subseteq DueItems(s)
    BY <2>1, <2>2, TrackMintsStep DEF CInv, StoreTypes
  <2>4. \A m \in queued : m \notin processedMints'
    BY <2>1, <2>3 DEF DueItems
  <2>5. ScanTypes'
    <3>1. recheckEntry' \in [Scans -> [Mints -> Entries \cup {NoEntry}]]
      BY <2>1 DEF CInv, ScanTypes
    <3>2. item' \in [Scans -> [Mints -> Stages]]
      BY <2>1 DEF CInv, ScanTypes, Stages
    <3>3. QED BY <2>2, <3>1, <3>2 DEF CInv, ScanTypes, Phases, Running
  <2>6. Chained'
    BY <2>2 DEF CInv, Chained, ScanTypes, Running
  <2>7. \A c \in Scans, m \in Mints :
          \/ (c # s /\ item'[c][m] = "none" /\ recheckEntry'[c][m] = NoEntry)
          \/ (c = s /\ recheckEntry'[c][m] \in {recheckEntry[c][m], NoEntry}
                   /\ \/ item'[c][m] = "none"
                      \/ (item'[c][m] = "queued" /\ m \notin processedMints'))
    <3>1. \A c \in Scans \ {s}, m \in Mints : item[c][m] = "none" /\ recheckEntry[c][m] = NoEntry
      BY <2>2, OthersIdle DEF Running
    <3>2. QED BY <2>1, <2>4, <3>1 DEF CInv, ScanTypes
  <2>8. WorkSound'
    BY <2>2, <2>7 DEF CInv, WorkSound, ScanTypes, Running, Auditing
  <2>9. EntriesCurrent'
    BY <2>3, <2>7 DEF CInv, EntriesCurrent
  <2>10. QED BY <2>3, <2>5, <2>6, <2>8, <2>9 DEF CInv
<1>4. CASE PassBreaker(s)
  <2>1. /\ phase[s] = "breaker" /\ phase' = [phase EXCEPT ![s] = "auditing"]
        /\ UNCHANGED <<storeVars, scanChain, item, recheckEntry, buys, reservedBuys>>
    BY <1>4 DEF PassBreaker
  <2>2. StoreTypes' /\ VerdictsOnce' /\ RechecksWithoutVerdict' /\ processedMints' = processedMints
    BY <2>1 DEF CInv, StoreTypes, VerdictsOnce, Once, RechecksWithoutVerdict, processedMints, MintsOf, storeVars
  <2>3. ScanTypes' /\ Chained'
    BY <2>1 DEF CInv, Chained, ScanTypes, Phases, Running
  <2>4. WorkSound'
    BY <2>1, <2>2 DEF CInv, WorkSound, ScanTypes, Running, Auditing, IsFinal, storeVars
  <2>5. EntriesCurrent'
    BY <2>1 DEF CInv, EntriesCurrent, storeVars
  <2>6. QED BY <2>2, <2>3, <2>4, <2>5 DEF CInv
<1>5. CASE ReturnEmpty(s)
  <2>1. PICK cancelled \in Cancellations(s) : TrackMints(cancelled)
    BY <1>5 DEF ReturnEmpty
  <2>2. /\ phase[s] \in Running /\ Finish(s)
        /\ UNCHANGED <<config, lots, balance, coolDownMints>>
    BY <1>5 DEF ReturnEmpty, Running
  <2>3. StoreTypes' /\ VerdictsOnce' /\ RechecksWithoutVerdict'
    BY <2>1, <2>2, TrackMintsStep DEF CInv, StoreTypes
  <2>4. QED BY <2>2, <2>3, FinishControl
<1>6. CASE ReturnBlocked(s) \/ ReturnDone(s)
  BY <1>6, ReturnControl DEF ReturnBlocked, ReturnDone, Running
<1>7. QED BY <1>1, <1>2, <1>3, <1>4, <1>5, <1>6 DEF ScanStep

(* A work item under way moves on to stage to, with the store untouched.   *)
LEMMA StayControl ==
  ASSUME CInv, NEW s \in Scans, NEW m \in Mints, NEW to \in Auditing,
         phase[s] = "auditing", item[s][m] \in {"queued"} \cup Auditing,
         item' = [item EXCEPT ![s][m] = to],
         to \in {"approved", "ordered"} => IsFinal(s, m),
         lots[m] = 0, recheckEntry[s][m].attempts < MaxRecheckAttempts,
         UNCHANGED <<storeVars, scanChain, phase, recheckEntry, buys>>
  PROVE  CInv'
<1>1. StoreTypes' /\ VerdictsOnce' /\ RechecksWithoutVerdict' /\ processedMints' = processedMints
  BY DEF CInv, StoreTypes, VerdictsOnce, Once, RechecksWithoutVerdict, processedMints, MintsOf, storeVars
<1>2. ScanTypes' /\ Chained'
  BY DEF CInv, ScanTypes, Chained, Stages
<1>3. \A c \in Scans, n \in Mints : item'[c][n] = IF c = s /\ n = m THEN to ELSE item[c][n]
  BY DEF CInv, ScanTypes
<1>4. m \notin processedMints
  BY DEF CInv, WorkSound
<1>5. WorkSound'
  <2> SUFFICES ASSUME NEW c \in Scans, NEW n \in Mints PROVE WorkSound!(c, n)'
    BY DEF WorkSound
  <2>1. CASE c = s /\ n = m
    BY <2>1, <1>1, <1>3, <1>4 DEF WorkSound, Auditing, IsFinal, storeVars, Running
  <2>2. CASE ~(c = s /\ n = m)
    BY <2>2, <1>1, <1>3 DEF CInv, WorkSound, IsFinal, storeVars
  <2>3. QED BY <2>1, <2>2
<1>6. EntriesCurrent'
  BY DEF CInv, EntriesCurrent, storeVars
<1>7. QED BY <1>1, <1>2, <1>5, <1>6 DEF CInv

(* What an item that is taken or audited is known to be.                   *)
LEMMA ItemFacts ==
  ASSUME CInv, NEW s \in Scans, NEW m \in Mints, item[s][m] \in {"queued"} \cup Auditing
  PROVE  /\ phase[s] \in Running /\ m \in Mints \ processedMints
         /\ recheckEntry[s][m] \in Entries \cup {NoEntry}
         /\ item[s][m] \in Auditing =>
              /\ phase[s] = "auditing" /\ lots[m] = 0
              /\ recheckEntry[s][m].attempts < MaxRecheckAttempts
         /\ item[s][m] \in {"approved", "ordered"} => IsFinal(s, m)
BY DEF CInv, WorkSound, ScanTypes, Running

(* The actions that end a work item.                                       *)
Leaving(s, m) ==
  \/ SkipItem(s, m) \/ DropItem(s, m)
  \/ PassCheapAudit(s, m) \/ Waitlist(s, m) \/ Reject(s, m)
  \/ RetryIndexingLag(s, m) \/ TransientError(s, m)
  \/ RefuseBuy(s, m) \/ FillBuy(s, m) \/ ReconcileBuy(s, m) \/ FailBuy(s, m)

LEMMA LeavingControl ==
  ASSUME CInv, NEW s \in Scans, NEW m \in Mints, Leaving(s, m)
  PROVE  CInv' /\ phase[s] = "auditing" /\ Leave(s, m) /\ item[s][m] \in {"queued"} \cup Auditing
<1>1. /\ lots \in [Mints -> Nat] /\ balance \in Int
      /\ coolDownMints \subseteq Mints /\ buys \in [Scans -> Nat]
  BY DEF CInv, StoreTypes, ScanTypes
<1>2. /\ phase[s] = "auditing" /\ Leave(s, m) /\ item[s][m] \in {"queued"} \cup Auditing
  BY ItemFacts DEF Leaving, SkipItem, DropItem, PassCheapAudit, Waitlist, Reject,
     RetryIndexingLag, TransientError, RefuseBuy, FillBuy, ReconcileBuy, FailBuy,
     Taken, Audited, Auditing
<1>3. m \in Mints \ processedMints /\ recheckEntry[s][m] \in Entries \cup {NoEntry}
  BY <1>2, ItemFacts
<1>4. CASE SkipItem(s, m) \/ TransientError(s, m)
  <2>1. UNCHANGED storeVars /\ UNCHANGED buys
    BY <1>4 DEF SkipItem, TransientError
  <2>2. StoreStep(m)
    BY <2>1, StoreStays DEF storeVars
  <2>3. QED BY <1>1, <1>2, <2>1, <2>2, LeaveControl DEF storeVars
<1>5. CASE DropItem(s, m) \/ Reject(s, m) \/ RefuseBuy(s, m)
  <2>1. TrackMint(m) /\ UNCHANGED <<lots, balance, coolDownMints, buys>>
    BY <1>5 DEF DropItem, Reject, RefuseBuy
  <2>2. QED BY <1>1, <1>2, <2>1, TrackMintStep, LeaveControl
<1>6. CASE PassCheapAudit(s, m) \/ Waitlist(s, m) \/ RetryIndexingLag(s, m)
  <2> DEFINE e == recheckEntry[s][m]
  <2>1. /\ e.stage \in {"none", "survival", "final", "plain"}
        /\ e.attempts \in 0..MaxRecheckAttempts /\ e.lag \in 0..MaxIndexingLagRetries
        /\ e # NoEntry => e.stage \in {"survival", "final", "plain"}
    BY <1>3, EntryFields
  <2>2. item[s][m] = "audit" /\ e.attempts < MaxRecheckAttempts
    BY <1>6, ItemFacts DEF PassCheapAudit, Waitlist, RetryIndexingLag, Audited, Auditing
  <2> HIDE DEF e
  <2>3. e.attempts \in 0..MaxRecheckAttempts /\ e.attempts + 0 \in 0..MaxRecheckAttempts
        /\ e.attempts + 1 \in 0..MaxRecheckAttempts /\ 0 \in 0..MaxIndexingLagRetries
        /\ (e.lag < MaxIndexingLagRetries => e.lag + 1 \in 0..MaxIndexingLagRetries)
    BY <2>1, <2>2, LimitsAssumption
  <2>4. StoreStep(m)
    <3>1. CASE PassCheapAudit(s, m)
      <4>1. UpsertRecheck(m, IF e.stage = "survival" THEN "final" ELSE "survival", e.attempts, 0)
        BY <3>1 DEF PassCheapAudit, e
      <4>2. (IF e.stage = "survival" THEN "final" ELSE "survival") \in {"survival", "final", "plain"}
        OBVIOUS
      <4>3. QED BY <4>1, <4>2, <2>3, <1>3, UpsertRecheckStep
    <3>2. CASE Waitlist(s, m)
      <4>1. PICK n \in {0, 1} : UpsertRecheck(m, "plain", e.attempts + n, 0)
        BY <3>2 DEF Waitlist, e
      <4>2. e.attempts + n \in 0..MaxRecheckAttempts
        BY <2>3
      <4>3. QED BY <4>1, <4>2, <2>3, <1>3, UpsertRecheckStep
    <3>3. CASE RetryIndexingLag(s, m)
      <4>1. /\ UpsertRecheck(m, IF e = NoEntry THEN "plain" ELSE e.stage, e.attempts, e.lag + 1)
            /\ e.lag < MaxIndexingLagRetries
        BY <3>3 DEF RetryIndexingLag, e
      <4>2. (IF e = NoEntry THEN "plain" ELSE e.stage) \in {"survival", "final", "plain"}
        BY <2>1
      <4>3. QED BY <4>1, <4>2, <2>3, <1>3, UpsertRecheckStep
    <3>4. QED BY <1>6, <3>1, <3>2, <3>3
  <2>5. UNCHANGED <<lots, balance, coolDownMints, buys>>
    BY <1>6 DEF PassCheapAudit, Waitlist, RetryIndexingLag
  <2>6. QED BY <1>1, <1>2, <2>4, <2>5, LeaveControl
<1>7. CASE FillBuy(s, m) \/ ReconcileBuy(s, m)
  <2>1. /\ \/ lots' = [lots EXCEPT ![m] = @ + 1]
           \/ lots' = [lots EXCEPT ![m] = IF @ = 0 THEN 1 ELSE @]
        /\ balance' \in {balance, balance - 1}
        /\ buys' = [buys EXCEPT ![s] = @ + 1]
        /\ TrackMint(m) /\ UNCHANGED coolDownMints
    BY <1>7 DEF FillBuy, ReconcileBuy
  <2>2. lots' \in [Mints -> Nat] /\ \A n \in Mints \ {m} : lots'[n] = lots[n]
    BY <1>1, <2>1
  <2>3. balance' \in Int /\ buys' \in [Scans -> Nat]
    BY <1>1, <2>1
  <2>4. QED BY <1>1, <1>2, <2>1, <2>2, <2>3, TrackMintStep, LeaveControl
<1>8. CASE FailBuy(s, m)
  <2>1. TrackMint(m) /\ UNCHANGED <<lots, balance, buys>>
    BY <1>8 DEF FailBuy
  <2>2. coolDownMints' \subseteq Mints
    BY <1>1, <1>8 DEF FailBuy
  <2>3. QED BY <1>1, <1>2, <2>1, <2>2, TrackMintStep, LeaveControl
<1>9. QED BY <1>2, <1>4, <1>5, <1>6, <1>7, <1>8 DEF Leaving

LEMMA ItemStepControl ==
  ASSUME CInv, NEW s \in Scans, NEW m \in Mints, ItemStep(s, m)
  PROVE  CInv'
<1>1. CASE AuditItem(s, m)
  <2>1. /\ phase[s] = "auditing" /\ item[s][m] = "queued" /\ m \notin Positions
        /\ recheckEntry[s][m].attempts < MaxRecheckAttempts
        /\ item' = [item EXCEPT ![s][m] = "audit"]
        /\ UNCHANGED <<storeVars, scanChain, phase, recheckEntry, buys>>
    BY <1>1 DEF AuditItem, Taken
  <2>2. lots[m] = 0
    BY <2>1 DEF Positions, CInv, StoreTypes
  <2>3. QED BY <2>1, <2>2, StayControl DEF Auditing
<1>2. CASE PassFinalAudit(s, m)
  <2>1. /\ phase[s] = "auditing" /\ item[s][m] = "audit" /\ IsFinal(s, m)
        /\ item' = [item EXCEPT ![s][m] = "approved"]
        /\ UNCHANGED <<storeVars, scanChain, phase, recheckEntry, buys>>
    BY <1>2 DEF PassFinalAudit, Audited
  <2>2. QED BY <2>1, ItemFacts, StayControl DEF Auditing
<1>3. CASE PlaceBuy(s, m)
  <2>1. /\ item[s][m] = "approved"
        /\ item' = [item EXCEPT ![s][m] = "ordered"]
        /\ UNCHANGED <<storeVars, scanChain, phase, recheckEntry, buys>>
    BY <1>3 DEF PlaceBuy
  <2>2. /\ phase[s] = "auditing" /\ lots[m] = 0 /\ IsFinal(s, m)
        /\ recheckEntry[s][m].attempts < MaxRecheckAttempts
    BY <2>1, ItemFacts DEF Auditing
  <2>3. QED BY <2>1, <2>2, StayControl DEF Auditing
<1>4. QED BY <1>1, <1>2, <1>3, LeavingControl DEF ItemStep, Leaving

LEMMA CloseControl ==
  ASSUME CInv, NEW m \in Mints, ClosePosition(m) \/ ExpireCoolDown(m)
  PROVE  CInv'
<1>1. CASE ClosePosition(m)
  <2>1. /\ lots' = [lots EXCEPT ![m] = 0]
        /\ balance' \in {balance, balance + 1}
        /\ coolDownMints' \in {coolDownMints, coolDownMints \cup {m}}
        /\ UNCHANGED <<config, processedMintQueue, rechecks, scanVars>>
    BY <1>1 DEF ClosePosition
  <2>2. StoreTypes'
    BY <2>1 DEF CInv, StoreTypes
  <2>3. \A n \in Mints : lots[n] = 0 => lots'[n] = 0
    BY <2>1 DEF CInv, StoreTypes
  <2>4. ScanTypes' /\ Chained' /\ EntriesCurrent'
    BY <2>1 DEF CInv, ScanTypes, Chained, EntriesCurrent, scanVars
  <2>5. WorkSound'
    BY <2>1, <2>3 DEF CInv, WorkSound, IsFinal, processedMints, MintsOf, scanVars
  <2>6. VerdictsOnce' /\ RechecksWithoutVerdict'
    BY <2>1 DEF CInv, VerdictsOnce, Once, RechecksWithoutVerdict, processedMints, MintsOf
  <2>7. QED BY <2>2, <2>4, <2>5, <2>6 DEF CInv
<1>2. CASE ExpireCoolDown(m)
  <2>1. /\ UntrackMint(m) /\ coolDownMints' = coolDownMints \ {m}
        /\ UNCHANGED <<config, lots, balance, scanVars>>
    BY <1>2 DEF ExpireCoolDown
  <2>2. /\ StoreStep(m) /\ \A n \in Mints : rechecks'[n] \in {rechecks[n], NoEntry}
        /\ \A n \in Mints : n \in processedMints' => n \in processedMints
    BY <2>1, UntrackMintStep
  <2>3. StoreTypes'
    BY <2>1, <2>2 DEF CInv, StoreTypes, StoreStep
  <2>4. ScanTypes' /\ Chained'
    BY <2>1 DEF CInv, ScanTypes, Chained, scanVars
  <2>5. WorkSound'
    BY <2>1, <2>2 DEF CInv, WorkSound, IsFinal, scanVars
  <2>6. EntriesCurrent'
    BY <2>1, <2>2 DEF CInv, EntriesCurrent, scanVars
  <2>7. QED BY <2>2, <2>3, <2>4, <2>5, <2>6 DEF CInv, StoreStep
<1>3. QED BY <1>1, <1>2

LEMMA NextControl == CInv /\ [TimelyNext]_vars => CInv'
<1> SUFFICES ASSUME CInv, [TimelyNext]_vars PROVE CInv'
  OBVIOUS
<1>1. CASE TimelyNext
  BY <1>1, ScanStepControl, ItemStepControl, CloseControl DEF TimelyNext
<1>2. CASE UNCHANGED vars
  BY <1>2 DEF CInv, StoreTypes, ScanTypes, Chained, WorkSound, VerdictsOnce, Once, IsFinal,
     RechecksWithoutVerdict, EntriesCurrent, processedMints, MintsOf, vars, storeVars, scanVars
<1>3. QED BY <1>1, <1>2

LEMMA Control == TimelySpec => []CInv
BY InitControl, NextControl, PTL DEF TimelySpec

-----------------------------------------------------------------------------
(* The pools and the limits.                                               *)

Pool(s) == InPool(s, TRUE)
PositionsOf(l) == {m \in Positions : LaunchpadOf[m] = l}
PoolOf(s, l) == {m \in Pool(s) : LaunchpadOf[m] = l}
OrderedIn(s) == {m \in Mints : item[s][m] = "ordered"}

(* What the limits rest on: a buy of a mint costs its reservation, funds   *)
(* and launchpad are overrun by no more than a pool has workers.           *)
PoolsBounded == \A s \in Scans : Cardinality(Pool(s)) <= HeavyConcurrency
Funded ==
  paperTrading =>
    /\ balance >= 1 - HeavyConcurrency
    /\ \A s \in Scans : balance - Cardinality(OrderedIn(s)) >= 1 - HeavyConcurrency
SectorsBounded ==
  MaxPositionsPerLaunchpad > 0 =>
    \A s \in Scans, l \in {LaunchpadOf[m] : m \in Mints} \ {NoLaunchpad} :
      Cardinality(PositionsOf(l) \cup PoolOf(s, l))
        <= MaxPositionsPerLaunchpad + HeavyConcurrency - 1
HeldOfSectorsBounded ==
  MaxPositionsPerLaunchpad > 0 =>
    \A l \in {LaunchpadOf[m] : m \in Mints} \ {NoLaunchpad} :
      Cardinality(PositionsOf(l)) <= MaxPositionsPerLaunchpad + HeavyConcurrency - 1
PositionsBounded == Cardinality(Positions) <= MaxOpenPositions

(* The limits part of the inductive invariant.                             *)
ReservationsTyped == reservedBuys \in [Scans -> Nat]
LInv == /\ ReservationsTyped /\ OneLotPerMint /\ ReservationsHeld
        /\ PositionsBounded /\ PoolsBounded /\ Funded
        /\ SectorsBounded /\ HeldOfSectorsBounded

LEMMA Finite ==
  ASSUME NEW T \in SUBSET Mints
  PROVE  IsFiniteSet(T) /\ Cardinality(T) \in Nat
BY FS_Subset, FS_CardinalityType, SetsAssumption

LEMMA Smaller ==
  ASSUME NEW T \in SUBSET Mints, NEW U \in SUBSET T
  PROVE  Cardinality(U) <= Cardinality(T)
BY Finite, FS_Subset

LEMMA OneMore ==
  ASSUME NEW T \in SUBSET Mints, NEW m \in Mints
  PROVE  /\ Cardinality(T \cup {m}) <= Cardinality(T) + 1
         /\ m \notin T => Cardinality(T \cup {m}) = Cardinality(T) + 1
BY Finite, FS_AddElement

LEMMA OneLess ==
  ASSUME NEW T \in SUBSET Mints, NEW m \in T
  PROVE  Cardinality(T \ {m}) = Cardinality(T) - 1
BY Finite, FS_RemoveElement

LEMMA JointSize ==
  ASSUME NEW T \in SUBSET Mints, NEW U \in SUBSET Mints
  PROVE  Cardinality(T \cup U) <= Cardinality(T) + Cardinality(U)
<1>1. IsFiniteSet(T) /\ IsFiniteSet(U) /\ IsFiniteSet(T \cap U)
  BY Finite
<1>2. Cardinality(T \cup U) = Cardinality(T) + Cardinality(U) - Cardinality(T \cap U)
  BY <1>1, FS_Union
<1>3. Cardinality(T) \in Nat /\ Cardinality(U) \in Nat /\ Cardinality(T \cap U) \in Nat
  BY Finite
<1>4. QED BY <1>2, <1>3

LEMMA Constants ==
  /\ MaxOpenPositions \in Nat /\ MaxBuysPerScan \in Nat /\ InitialBalance \in Nat
  /\ HeavyConcurrency \in Nat \ {0}
BY LimitsAssumption

LEMMA Settings ==
  ASSUME config \in Configs
  PROVE  paperTrading \in BOOLEAN /\ MaxPositionsPerLaunchpad \in Nat
BY ConfigsAssumption DEF paperTrading, MaxPositionsPerLaunchpad

LEMMA InitLimits == Init => LInv
<1> SUFFICES ASSUME Init PROVE LInv
  OBVIOUS
<1>1. /\ config \in Configs /\ lots \in [Mints -> {0, 1}] /\ WithinMaxOpen
      /\ \A m \in Positions : ~AtLaunchpadCap(LaunchpadOf[m])
      /\ balance = InitialBalance
      /\ item = [s \in Scans |-> [m \in Mints |-> "none"]]
      /\ buys = [s \in Scans |-> 0] /\ reservedBuys = [s \in Scans |-> 0]
  BY DEF Init
<1>2. \A s \in Scans : Pool(s) = {} /\ OrderedIn(s) = {} /\ \A l : PoolOf(s, l) = {}
  BY <1>1 DEF Pool, InPool, OrderedIn, PoolOf, Auditing
<1>3. Cardinality({}) = 0
  BY FS_EmptySet
<1>4. OneLotPerMint
  BY <1>1 DEF OneLotPerMint
<1>5. Cardinality(Positions) <= MaxOpenPositions /\ Cardinality(Positions) \in Nat
  BY <1>1, Finite DEF WithinMaxOpen, Positions
<1>6. ReservationsHeld /\ PositionsBounded
  <2>1. \A s \in Scans : /\ Cardinality(Pool(s)) = 0 /\ buys[s] = 0 /\ reservedBuys[s] = 0
    BY <1>1, <1>2, <1>3
  <2>2. \A s \in Scans : /\ reservedBuys[s] = Cardinality(Pool(s))
                         /\ Cardinality(Positions) + reservedBuys[s] <= MaxOpenPositions
                         /\ buys[s] + reservedBuys[s] <= MaxBuysPerScan
    BY <2>1, <1>5, Constants
  <2>3. QED BY <2>2, <1>5 DEF ReservationsHeld, PositionsBounded, Pool
<1>7. PoolsBounded
  BY <1>2, <1>3, Constants DEF PoolsBounded
<1>8. Funded
  BY <1>1, <1>2, <1>3, Constants DEF Funded
<1>9. SectorsBounded /\ HeldOfSectorsBounded
  <2> SUFFICES ASSUME MaxPositionsPerLaunchpad > 0,
                      NEW l \in {LaunchpadOf[m] : m \in Mints} \ {NoLaunchpad}
               PROVE  Cardinality(PositionsOf(l)) <= MaxPositionsPerLaunchpad + HeavyConcurrency - 1
    <3>1. \A s \in Scans : \A k : PositionsOf(k) \cup PoolOf(s, k) = PositionsOf(k)
      BY <1>2
    <3>2. QED BY <3>1 DEF SectorsBounded, HeldOfSectorsBounded
  <2>1. MaxPositionsPerLaunchpad \in Nat
    BY <1>1, Settings
  <2>2. Cardinality(PositionsOf(l)) \in Nat
    BY Finite DEF PositionsOf, Positions
  <2>3. CASE PositionsOf(l) = {}
    <3>1. Cardinality(PositionsOf(l)) = 0
      BY <2>3, <1>3
    <3>2. QED BY <3>1, <2>1, Constants
  <2>4. CASE PositionsOf(l) # {}
    <3>1. PICK m \in Positions : LaunchpadOf[m] = l
      BY <2>4 DEF PositionsOf
    <3>2. ~AtLaunchpadCap(l)
      BY <1>1, <3>1
    <3>3. ~(Cardinality(PositionsOf(l)) >= MaxPositionsPerLaunchpad)
      BY <3>2 DEF AtLaunchpadCap, PositionsOf
    <3>4. QED BY <2>1, <2>2, <3>3, Constants
  <2>5. QED BY <2>3, <2>4
<1>10. QED BY <1>1, <1>4, <1>6, <1>7, <1>8, <1>9 DEF LInv, ReservationsTyped

LEMMA HeldShrinks ==
  ASSUME CInv, HeldOfSectorsBounded, UNCHANGED config, Positions' \subseteq Positions
  PROVE  HeldOfSectorsBounded'
<1> SUFFICES ASSUME MaxPositionsPerLaunchpad' > 0,
                    NEW l \in {LaunchpadOf[m] : m \in Mints} \ {NoLaunchpad}
             PROVE  Cardinality(PositionsOf(l)')
                      <= MaxPositionsPerLaunchpad' + HeavyConcurrency - 1
  BY DEF HeldOfSectorsBounded
<1>1. MaxPositionsPerLaunchpad' = MaxPositionsPerLaunchpad /\ MaxPositionsPerLaunchpad \in Nat
  BY Settings DEF MaxPositionsPerLaunchpad, CInv, StoreTypes
<1>2. PositionsOf(l)' \subseteq PositionsOf(l) /\ PositionsOf(l) \in SUBSET Mints
  BY DEF PositionsOf, Positions
<1>3. /\ Cardinality(PositionsOf(l)') <= Cardinality(PositionsOf(l))
      /\ Cardinality(PositionsOf(l)') \in Nat /\ Cardinality(PositionsOf(l)) \in Nat
  BY <1>2, Smaller, Finite
<1>4. Cardinality(PositionsOf(l)) <= MaxPositionsPerLaunchpad + HeavyConcurrency - 1
  BY <1>1 DEF HeldOfSectorsBounded
<1>5. QED BY <1>1, <1>3, <1>4, Constants

(* A step in which no pool and no order grows and nothing is bought or     *)
(* debited, and the counters go with the pools.                            *)
LEMMA ShrinkingLimits ==
  ASSUME CInv, CInv', LInv, UNCHANGED config, balance' >= balance,
         reservedBuys' \in [Scans -> Int],
         \A m \in Mints : lots'[m] \in {0, lots[m]},
         \A s \in Scans : /\ Pool(s)' \subseteq Pool(s) /\ OrderedIn(s)' \subseteq OrderedIn(s)
                          /\ reservedBuys'[s] = Cardinality(Pool(s)')
                          /\ buys'[s] \in {0, buys[s]}
  PROVE  LInv'
<1>1. Positions' \subseteq Positions /\ Positions \in SUBSET Mints
  <2>1. \A m \in Mints : lots'[m] = 0 \/ lots'[m] = lots[m]
    OBVIOUS
  <2>2. \A m \in Mints : lots'[m] > 0 => lots[m] > 0
    BY <2>1
  <2>3. QED BY <2>2 DEF Positions
<1>2. \A s \in Scans : /\ Pool(s) \in SUBSET Mints /\ Pool(s)' \in SUBSET Mints
                       /\ OrderedIn(s) \in SUBSET Mints /\ OrderedIn(s)' \in SUBSET Mints
  BY DEF Pool, InPool, OrderedIn
<1>3. \A s \in Scans : /\ Cardinality(Pool(s)') <= Cardinality(Pool(s))
                       /\ Cardinality(OrderedIn(s)') <= Cardinality(OrderedIn(s))
                       /\ Cardinality(Pool(s)) \in Nat /\ Cardinality(Pool(s)') \in Nat
                       /\ Cardinality(OrderedIn(s)) \in Nat /\ Cardinality(OrderedIn(s)') \in Nat
  BY <1>2, Smaller, Finite
<1>4. Cardinality(Positions') <= Cardinality(Positions)
      /\ Cardinality(Positions) \in Nat /\ Cardinality(Positions') \in Nat
  BY <1>1, Smaller, Finite
<1>5. \A s \in Scans : buys[s] \in Nat
  BY DEF CInv, ScanTypes
<1>6. OneLotPerMint'
  <2>1. \A m \in Mints : lots'[m] = 0 \/ lots'[m] = lots[m]
    OBVIOUS
  <2>2. \A m \in Mints : lots[m] <= 1
    BY DEF LInv, OneLotPerMint
  <2>3. QED BY <2>1, <2>2 DEF OneLotPerMint
<1>7. ReservationsHeld' /\ PositionsBounded'
  <2>1. PositionsBounded'
    BY <1>4, Constants DEF LInv, PositionsBounded
  <2>2. \A s \in Scans :
          /\ reservedBuys[s] = Cardinality(Pool(s))
          /\ Cardinality(Positions) + reservedBuys[s] <= MaxOpenPositions
          /\ buys[s] + reservedBuys[s] <= MaxBuysPerScan
    BY DEF LInv, ReservationsHeld, Pool
  <2>3. \A s \in Scans :
          /\ reservedBuys'[s] = Cardinality(Pool(s)')
          /\ Cardinality(Positions') + reservedBuys'[s] <= MaxOpenPositions
          /\ buys'[s] + reservedBuys'[s] <= MaxBuysPerScan
    BY <2>2, <1>3, <1>4, <1>5, Constants
  <2>4. QED BY <2>1, <2>3 DEF ReservationsHeld, Pool
<1>8. PoolsBounded'
  BY <1>3, Constants DEF LInv, PoolsBounded
<1>9. Funded'
  <2>1. balance \in Int /\ balance' \in Int
    BY DEF CInv, StoreTypes
  <2>2. QED BY <2>1, <1>3, Constants DEF LInv, Funded, paperTrading
<1>10. SectorsBounded'
  <2> SUFFICES ASSUME MaxPositionsPerLaunchpad' > 0, NEW s \in Scans,
                      NEW l \in {LaunchpadOf[m] : m \in Mints} \ {NoLaunchpad}
               PROVE  Cardinality(PositionsOf(l)' \cup PoolOf(s, l)')
                        <= MaxPositionsPerLaunchpad' + HeavyConcurrency - 1
    BY DEF SectorsBounded
  <2>1. MaxPositionsPerLaunchpad' = MaxPositionsPerLaunchpad /\ MaxPositionsPerLaunchpad \in Nat
    BY Settings DEF MaxPositionsPerLaunchpad, CInv, StoreTypes
  <2>2. /\ PositionsOf(l)' \cup PoolOf(s, l)' \subseteq PositionsOf(l) \cup PoolOf(s, l)
        /\ PositionsOf(l) \cup PoolOf(s, l) \in SUBSET Mints
    BY <1>1, <1>2 DEF PositionsOf, PoolOf
  <2>3. Cardinality(PositionsOf(l)' \cup PoolOf(s, l)') <= Cardinality(PositionsOf(l) \cup PoolOf(s, l))
    BY <2>2, Smaller
  <2>4. /\ Cardinality(PositionsOf(l)' \cup PoolOf(s, l)') \in Nat
        /\ Cardinality(PositionsOf(l) \cup PoolOf(s, l)) \in Nat
    BY <2>2, Finite
  <2>5. Cardinality(PositionsOf(l) \cup PoolOf(s, l)) <= MaxPositionsPerLaunchpad + HeavyConcurrency - 1
    BY <2>1 DEF LInv, SectorsBounded
  <2>6. QED BY <2>1, <2>3, <2>4, <2>5, Constants
<1>11. ReservationsTyped'
  BY <1>3 DEF ReservationsTyped
<1>12. HeldOfSectorsBounded'
  BY <1>1, HeldShrinks DEF LInv
<1>13. QED BY <1>6, <1>7, <1>8, <1>9, <1>10, <1>11, <1>12 DEF LInv

(* What leaving makes of the pools: the one of s loses m.                  *)
LEMMA LeavePools ==
  ASSUME CInv, LInv, NEW s \in Scans, NEW m \in Mints, phase[s] = "auditing", Leave(s, m),
         item[s][m] \in {"queued"} \cup Auditing
  PROVE  /\ reservedBuys' \in [Scans -> Int]
         /\ Pool(s)' = Pool(s) \ {m} /\ OrderedIn(s)' = OrderedIn(s) \ {m}
         /\ m \in Pool(s) <=> (IsFinal(s, m) /\ item[s][m] \in Auditing)
         /\ reservedBuys'[s] = Cardinality(Pool(s)')
         /\ \A c \in Scans \ {s} :
              /\ Pool(c) = {} /\ Pool(c)' = {} /\ OrderedIn(c) = {} /\ OrderedIn(c)' = {}
              /\ reservedBuys'[c] = Cardinality(Pool(c)')
<1>1. /\ item' = [item EXCEPT ![s][m] = "none"]
      /\ recheckEntry' = [recheckEntry EXCEPT ![s][m] = NoEntry]
      /\ reservedBuys' = IF IsFinal(s, m) /\ item[s][m] \in Auditing
                         THEN [reservedBuys EXCEPT ![s] = @ - 1] ELSE reservedBuys
  BY DEF Leave
<1>2. \A n \in Mints : /\ item'[s][n] = IF n = m THEN "none" ELSE item[s][n]
                       /\ n # m => recheckEntry'[s][n] = recheckEntry[s][n]
  BY <1>1 DEF CInv, ScanTypes
<1>3. Pool(s)' = Pool(s) \ {m}
  BY <1>2 DEF Pool, InPool, IsFinal, Auditing
<1>4. OrderedIn(s)' = OrderedIn(s) \ {m}
  BY <1>2 DEF OrderedIn
<1>5. m \in Pool(s) <=> (IsFinal(s, m) /\ item[s][m] \in Auditing)
  BY DEF Pool, InPool
<1>6. /\ \A c \in Scans : reservedBuys[c] = Cardinality(Pool(c))
      /\ reservedBuys \in [Scans -> Nat]
      /\ Pool(s) \in SUBSET Mints
  BY DEF LInv, ReservationsTyped, ReservationsHeld, Pool, InPool
<1>7. reservedBuys'[s] = Cardinality(Pool(s)')
  <2>1. CASE m \in Pool(s)
    <3>1. reservedBuys'[s] = reservedBuys[s] - 1
      BY <1>1, <1>5, <1>6, <2>1
    <3>2. QED BY <3>1, <1>3, <1>6, <2>1, OneLess
  <2>2. CASE m \notin Pool(s)
    <3>1. reservedBuys'[s] = reservedBuys[s] /\ Pool(s)' = Pool(s)
      BY <1>1, <1>3, <1>5, <2>2
    <3>2. QED BY <3>1, <1>6
  <2>3. QED BY <2>1, <2>2
<1>8. ASSUME NEW c \in Scans \ {s}
      PROVE  /\ Pool(c) = {} /\ Pool(c)' = {} /\ OrderedIn(c) = {} /\ OrderedIn(c)' = {}
             /\ reservedBuys'[c] = Cardinality(Pool(c)')
  <2>1. \A n \in Mints : item[c][n] = "none"
    BY OthersIdle DEF Running
  <2>2. \A n \in Mints : item'[c][n] = "none"
    BY <2>1, <1>1 DEF CInv, ScanTypes
  <2>3. Pool(c) = {} /\ Pool(c)' = {} /\ OrderedIn(c) = {} /\ OrderedIn(c)' = {}
    BY <2>1, <2>2 DEF Pool, InPool, OrderedIn, Auditing
  <2>4. reservedBuys'[c] = reservedBuys[c]
    BY <1>1, <1>6
  <2>5. QED BY <2>3, <2>4, <1>6
<1>9. reservedBuys' \in [Scans -> Int]
  BY <1>1, <1>6
<1>10. QED BY <1>3, <1>4, <1>5, <1>7, <1>8, <1>9

(* The position a work item leaves behind: a slot of the pool became it.   *)
LEMMA BuyLimits ==
  ASSUME CInv, CInv', LInv, NEW s \in Scans, NEW m \in Mints,
         FillBuy(s, m) \/ ReconcileBuy(s, m)
  PROVE  LInv'
<1>1. item[s][m] \in {"approved", "ordered"} /\ item[s][m] \in Auditing
  BY DEF FillBuy, ReconcileBuy, Auditing
<1>2. phase[s] = "auditing" /\ lots[m] = 0 /\ IsFinal(s, m)
  BY <1>1, ItemFacts
<1>3. Leave(s, m) /\ buys' = [buys EXCEPT ![s] = @ + 1] /\ UNCHANGED config
  BY DEF FillBuy, ReconcileBuy, Leave
<1>4. /\ reservedBuys' \in [Scans -> Int]
      /\ Pool(s)' = Pool(s) \ {m} /\ OrderedIn(s)' = OrderedIn(s) \ {m}
      /\ m \in Pool(s) /\ reservedBuys'[s] = Cardinality(Pool(s)')
      /\ \A c \in Scans \ {s} :
           /\ Pool(c) = {} /\ Pool(c)' = {} /\ OrderedIn(c) = {} /\ OrderedIn(c)' = {}
           /\ reservedBuys'[c] = Cardinality(Pool(c)')
  BY <1>1, <1>2, <1>3, LeavePools
<1>5. /\ \A c \in Scans : Pool(c) \in SUBSET Mints /\ Pool(c)' \in SUBSET Mints
      /\ OrderedIn(s) \in SUBSET Mints /\ Positions \in SUBSET Mints
  BY DEF Pool, InPool, OrderedIn, Positions
<1>6. Cardinality({}) = 0
  BY FS_EmptySet
<1>7. lots' = [lots EXCEPT ![m] = 1] /\ lots \in [Mints -> Nat]
  BY <1>2 DEF FillBuy, ReconcileBuy, CInv, StoreTypes
<1>8. Positions' = Positions \cup {m} /\ m \notin Positions
  BY <1>2, <1>7 DEF Positions
<1>9. /\ Cardinality(Positions') = Cardinality(Positions) + 1
      /\ Cardinality(Pool(s)') = Cardinality(Pool(s)) - 1
      /\ Cardinality(Positions) \in Nat /\ Cardinality(Pool(s)') \in Nat
      /\ Cardinality(Pool(s)) \in Nat
  BY <1>4, <1>5, <1>8, OneMore, OneLess, Finite
<1>10. /\ reservedBuys[s] = Cardinality(Pool(s))
       /\ Cardinality(Positions) + reservedBuys[s] <= MaxOpenPositions
       /\ buys[s] + reservedBuys[s] <= MaxBuysPerScan
       /\ \A c \in Scans : buys[c] + reservedBuys[c] <= MaxBuysPerScan
       /\ \A c \in Scans : reservedBuys[c] = Cardinality(Pool(c))
  BY DEF LInv, ReservationsHeld, Pool
<1>11. /\ buys \in [Scans -> Nat] /\ buys'[s] = buys[s] + 1
       /\ \A c \in Scans \ {s} : buys'[c] = buys[c]
  BY <1>3 DEF CInv, ScanTypes
<1>12. /\ Cardinality(Positions') + reservedBuys'[s] <= MaxOpenPositions
       /\ buys'[s] + reservedBuys'[s] <= MaxBuysPerScan
       /\ Cardinality(Positions') <= MaxOpenPositions
  BY <1>4, <1>9, <1>10, <1>11, Constants
<1>13. OneLotPerMint'
  BY <1>7 DEF LInv, OneLotPerMint
<1>14. ReservationsHeld' /\ PositionsBounded' /\ ReservationsTyped'
  <2>1. \A c \in Scans :
          /\ reservedBuys'[c] = Cardinality(Pool(c)')
          /\ Cardinality(Positions') + reservedBuys'[c] <= MaxOpenPositions
          /\ buys'[c] + reservedBuys'[c] <= MaxBuysPerScan
    <3> TAKE c \in Scans
    <3>1. CASE c = s
      BY <3>1, <1>4, <1>12
    <3>2. CASE c # s
      <4>1. reservedBuys'[c] = 0 /\ reservedBuys[c] = 0 /\ buys'[c] = buys[c]
        BY <3>2, <1>4, <1>6, <1>10, <1>11
      <4>2. Cardinality(Positions') \in Nat /\ buys[c] \in Nat /\ buys[c] + reservedBuys[c] <= MaxBuysPerScan
        BY <1>9, <1>10, <1>11
      <4>3. QED BY <3>2, <4>1, <4>2, <1>4, <1>12
    <3>3. QED BY <3>1, <3>2
  <2>2. ReservationsTyped'
    <3>1. \A c \in Scans : reservedBuys'[c] \in Nat
      BY <2>1, <1>5, Finite
    <3>2. QED BY <3>1, <1>4 DEF ReservationsTyped
  <2>3. QED BY <2>1, <2>2, <1>12 DEF ReservationsHeld, PositionsBounded, Pool
<1>15. PoolsBounded'
  <2>1. \A c \in Scans : Cardinality(Pool(c)) <= HeavyConcurrency
    BY DEF LInv, PoolsBounded
  <2>2. Cardinality(Pool(s)') <= HeavyConcurrency
    BY <2>1, <1>9, Constants
  <2>3. \A c \in Scans \ {s} : Cardinality(Pool(c)') = 0
    BY <1>4, <1>6
  <2>4. QED BY <2>2, <2>3, Constants DEF PoolsBounded
<1>16. Funded'
  <2> SUFFICES ASSUME paperTrading'
               PROVE  /\ balance' >= 1 - HeavyConcurrency
                      /\ \A c \in Scans :
                           balance' - Cardinality(OrderedIn(c)') >= 1 - HeavyConcurrency
    BY DEF Funded
  <2>1. paperTrading
    BY <1>3 DEF paperTrading
  <2>2. balance' = balance - 1 /\ item[s][m] = "ordered" /\ balance \in Int
    BY <2>1 DEF FillBuy, ReconcileBuy, CInv, StoreTypes
  <2>3. balance - Cardinality(OrderedIn(s)) >= 1 - HeavyConcurrency
    BY <2>1 DEF LInv, Funded
  <2>4. /\ Cardinality(OrderedIn(s)') = Cardinality(OrderedIn(s)) - 1
        /\ Cardinality(OrderedIn(s)) \in Nat /\ Cardinality(OrderedIn(s)') \in Nat
    BY <2>2, <1>4, <1>5, OneLess, Finite DEF OrderedIn
  <2>5. balance' - Cardinality(OrderedIn(s)') >= 1 - HeavyConcurrency
    BY <2>2, <2>3, <2>4, Constants
  <2>6. balance' >= 1 - HeavyConcurrency
    BY <2>2, <2>4, <2>5, Constants
  <2>7. \A c \in Scans \ {s} : Cardinality(OrderedIn(c)') = 0
    BY <1>4, <1>6
  <2>8. QED BY <2>2, <2>5, <2>6, <2>7, Constants
<1>17. SectorsBounded' /\ HeldOfSectorsBounded'
  <2> SUFFICES ASSUME MaxPositionsPerLaunchpad' > 0,
                      NEW l \in {LaunchpadOf[n] : n \in Mints} \ {NoLaunchpad},
                      NEW T \in {PositionsOf(l)'} \cup {PositionsOf(l)' \cup PoolOf(c, l)' : c \in Scans}
               PROVE  Cardinality(T) <= MaxPositionsPerLaunchpad' + HeavyConcurrency - 1
    BY DEF SectorsBounded, HeldOfSectorsBounded
  <2>1. MaxPositionsPerLaunchpad' = MaxPositionsPerLaunchpad /\ MaxPositionsPerLaunchpad \in Nat
    BY <1>3, Settings DEF MaxPositionsPerLaunchpad, CInv, StoreTypes
  <2> DEFINE U == PositionsOf(l) \cup PoolOf(s, l)
  <2>2. T \subseteq U
    <3>1. PositionsOf(l)' \subseteq U
      BY <1>4, <1>8 DEF PositionsOf, PoolOf
    <3>2. \A c \in Scans : PoolOf(c, l)' \subseteq U
      BY <1>4 DEF PoolOf
    <3>3. QED BY <3>1, <3>2
  <2>3. U \in SUBSET Mints
    BY <1>5 DEF PositionsOf, PoolOf
  <2>4. Cardinality(U) <= MaxPositionsPerLaunchpad + HeavyConcurrency - 1
    BY <2>1 DEF LInv, SectorsBounded
  <2> HIDE DEF U
  <2>5. Cardinality(T) <= Cardinality(U) /\ Cardinality(T) \in Nat /\ Cardinality(U) \in Nat
    BY <2>2, <2>3, Smaller, Finite
  <2>6. QED BY <2>1, <2>4, <2>5, Constants
<1>18. QED BY <1>13, <1>14, <1>15, <1>16, <1>17 DEF LInv

LEMMA LeavingLimits ==
  ASSUME CInv, CInv', LInv, NEW s \in Scans, NEW m \in Mints, Leaving(s, m)
  PROVE  LInv'
<1>1. CASE FillBuy(s, m) \/ ReconcileBuy(s, m)
  BY <1>1, BuyLimits
<1>2. CASE ~(FillBuy(s, m) \/ ReconcileBuy(s, m))
  <2>1. UNCHANGED <<config, lots, balance, buys>>
    BY <1>2 DEF Leaving, SkipItem, DropItem, PassCheapAudit, Waitlist, Reject,
       RetryIndexingLag, TransientError, RefuseBuy, FailBuy, Leave, storeVars
  <2>2. phase[s] = "auditing" /\ Leave(s, m) /\ item[s][m] \in {"queued"} \cup Auditing
    BY LeavingControl
  <2>3. /\ reservedBuys' \in [Scans -> Int]
        /\ Pool(s)' = Pool(s) \ {m} /\ OrderedIn(s)' = OrderedIn(s) \ {m}
        /\ reservedBuys'[s] = Cardinality(Pool(s)')
        /\ \A c \in Scans \ {s} : /\ Pool(c)' = {} /\ OrderedIn(c)' = {}
                                  /\ reservedBuys'[c] = Cardinality(Pool(c)')
    BY <2>2, LeavePools
  <2>4. \A c \in Scans : /\ Pool(c)' \subseteq Pool(c) /\ OrderedIn(c)' \subseteq OrderedIn(c)
                         /\ reservedBuys'[c] = Cardinality(Pool(c)')
                         /\ buys'[c] \in {0, buys[c]}
    BY <2>1, <2>3
  <2>5. balance' >= balance /\ \A n \in Mints : lots'[n] \in {0, lots[n]}
    BY <2>1 DEF CInv, StoreTypes
  <2>6. QED BY <2>1, <2>3, <2>4, <2>5, ShrinkingLimits
<1>3. QED BY <1>1, <1>2

(* A work item moves on within its scan: the pool of s may gain m, an      *)
(* order is added only on funds, and only under the cap of the launchpad.  *)
LEMMA StayLimits ==
  ASSUME CInv, LInv, NEW s \in Scans, NEW m \in Mints, NEW to \in Auditing,
         phase[s] = "auditing", item[s][m] \in {"queued"} \cup Auditing,
         item' = [item EXCEPT ![s][m] = to],
         UNCHANGED <<storeVars, scanChain, phase, recheckEntry, buys>>,
         \/ /\ item[s][m] \in Auditing /\ UNCHANGED reservedBuys
            /\ to = "ordered" => IsFinal(s, m) /\ (paperTrading => balance >= 1)
         \/ /\ item[s][m] = "queued" /\ to = "audit"
            /\ Taken(s, m) /\ ~AtLimit(s) /\ CanBuy(m)
            /\ reservedBuys' = IF IsFinal(s, m)
                               THEN [reservedBuys EXCEPT ![s] = @ + 1] ELSE reservedBuys
  PROVE  LInv'
<1>1. \A c \in Scans, n \in Mints : item'[c][n] = IF c = s /\ n = m THEN to ELSE item[c][n]
  BY DEF CInv, ScanTypes
<1>2. /\ UNCHANGED <<config, lots, balance, recheckEntry, buys>>
      /\ lots \in [Mints -> Nat] /\ balance \in Int /\ buys \in [Scans -> Nat]
  BY DEF storeVars, CInv, StoreTypes, ScanTypes
<1>3. \A c \in Scans : /\ Pool(c) \in SUBSET Mints /\ Pool(c)' \in SUBSET Mints
                       /\ OrderedIn(c) \in SUBSET Mints /\ OrderedIn(c)' \in SUBSET Mints
  BY DEF Pool, InPool, OrderedIn
<1>4. \A c \in Scans \ {s} : Pool(c)' = Pool(c) /\ OrderedIn(c)' = OrderedIn(c)
  BY <1>1, <1>2 DEF Pool, InPool, OrderedIn, IsFinal
<1>5. Pool(s)' = IF IsFinal(s, m) THEN Pool(s) \cup {m} ELSE Pool(s)
  BY <1>1, <1>2 DEF Pool, InPool, IsFinal
<1>6. IF IsFinal(s, m) /\ item[s][m] = "queued"
      THEN m \notin Pool(s) /\ reservedBuys'[s] = reservedBuys[s] + 1
      ELSE Pool(s)' = Pool(s) /\ reservedBuys'[s] = reservedBuys[s]
  <2>1. item[s][m] = "queued" => m \notin Pool(s)
    BY DEF Pool, InPool, Auditing
  <2>2. item[s][m] \in Auditing /\ IsFinal(s, m) => m \in Pool(s)
    BY DEF Pool, InPool
  <2>3. reservedBuys \in [Scans -> Nat]
    BY DEF LInv, ReservationsTyped
  <2>4. QED BY <2>1, <2>2, <2>3, <1>5 DEF Auditing
<1>7. /\ reservedBuys' \in [Scans -> Nat]
      /\ \A c \in Scans \ {s} : reservedBuys'[c] = reservedBuys[c]
  BY DEF LInv, ReservationsTyped
<1>8. \A c \in Scans : /\ reservedBuys[c] = Cardinality(Pool(c))
                       /\ Cardinality(Pool(c)) \in Nat /\ Cardinality(Pool(c)) <= HeavyConcurrency
                       /\ Cardinality(Positions) + reservedBuys[c] <= MaxOpenPositions
                       /\ buys[c] + reservedBuys[c] <= MaxBuysPerScan
  BY <1>3, Finite DEF LInv, ReservationsHeld, PoolsBounded, Pool
<1>9. Positions' = Positions /\ Positions \in SUBSET Mints /\ Cardinality(Positions) \in Nat
  BY <1>2, Finite DEF Positions
<1>10. IsFinal(s, m) /\ item[s][m] = "queued" =>
         /\ Cardinality(Pool(s)) < HeavyConcurrency
         /\ Cardinality(Positions) + reservedBuys[s] < MaxOpenPositions
         /\ buys[s] + reservedBuys[s] < MaxBuysPerScan
         /\ CanBuy(m)
  <2> SUFFICES ASSUME IsFinal(s, m), item[s][m] = "queued"
               PROVE  /\ Cardinality(Pool(s)) < HeavyConcurrency
                      /\ Cardinality(Positions) + reservedBuys[s] < MaxOpenPositions
                      /\ buys[s] + reservedBuys[s] < MaxBuysPerScan
                      /\ CanBuy(m)
    OBVIOUS
  <2>1. Taken(s, m) /\ ~AtLimit(s) /\ CanBuy(m)
    BY DEF Auditing
  <2>2. Cardinality(Pool(s)) < HeavyConcurrency
    BY <2>1 DEF Taken, Pool
  <2>3. /\ ~(Cardinality(Positions) + reservedBuys[s] >= MaxOpenPositions)
        /\ ~(buys[s] + reservedBuys[s] >= MaxBuysPerScan)
    BY <2>1 DEF AtLimit
  <2>4. QED BY <2>1, <2>2, <2>3, <1>2, <1>8, <1>9, Constants
<1>11. /\ reservedBuys'[s] = Cardinality(Pool(s)') /\ Cardinality(Pool(s)') <= HeavyConcurrency
       /\ Cardinality(Pool(s)') \in Nat
       /\ Cardinality(Positions) + reservedBuys'[s] <= MaxOpenPositions
       /\ buys[s] + reservedBuys'[s] <= MaxBuysPerScan
  <2>1. CASE IsFinal(s, m) /\ item[s][m] = "queued"
    <3>1. Cardinality(Pool(s)') = Cardinality(Pool(s)) + 1
      BY <2>1, <1>3, <1>5, <1>6, OneMore
    <3>2. reservedBuys'[s] = reservedBuys[s] + 1
      BY <2>1, <1>6
    <3>3. QED BY <2>1, <3>1, <3>2, <1>2, <1>8, <1>9, <1>10, Constants
  <2>2. CASE ~(IsFinal(s, m) /\ item[s][m] = "queued")
    BY <2>2, <1>6, <1>8
  <2>3. QED BY <2>1, <2>2
<1>12. OneLotPerMint' /\ PositionsBounded' /\ ReservationsTyped'
  BY <1>2, <1>7, <1>9 DEF LInv, OneLotPerMint, PositionsBounded, ReservationsTyped
<1>13. ReservationsHeld' /\ PoolsBounded'
  <2>1. \A c \in Scans :
          /\ reservedBuys'[c] = Cardinality(Pool(c)') /\ Cardinality(Pool(c)') <= HeavyConcurrency
          /\ Cardinality(Positions) + reservedBuys'[c] <= MaxOpenPositions
          /\ buys[c] + reservedBuys'[c] <= MaxBuysPerScan
    BY <1>4, <1>7, <1>8, <1>11
  <2>2. QED BY <2>1, <1>2, <1>9 DEF ReservationsHeld, PoolsBounded, Pool
<1>14. Funded'
  <2> SUFFICES ASSUME paperTrading, NEW c \in Scans
               PROVE  balance - Cardinality(OrderedIn(c)') >= 1 - HeavyConcurrency
    BY <1>2 DEF LInv, Funded, paperTrading
  <2>1. balance - Cardinality(OrderedIn(c)) >= 1 - HeavyConcurrency
    BY DEF LInv, Funded
  <2>2. CASE OrderedIn(c)' \subseteq OrderedIn(c)
    <3>1. /\ Cardinality(OrderedIn(c)') <= Cardinality(OrderedIn(c))
          /\ Cardinality(OrderedIn(c)') \in Nat /\ Cardinality(OrderedIn(c)) \in Nat
      BY <2>2, <1>3, Smaller, Finite
    <3>2. QED BY <2>1, <3>1, <1>2, Constants
  <2>3. CASE ~(OrderedIn(c)' \subseteq OrderedIn(c))
    <3>1. c = s /\ to = "ordered"
      BY <2>3, <1>1 DEF OrderedIn
    <3>2. balance >= 1
      BY <3>1 DEF Auditing
    <3>3. OrderedIn(s)' \subseteq Pool(s)'
      <4>1. IsFinal(s, m)
        BY <3>1
      <4>2. \A n \in Mints : item[s][n] = "ordered" => IsFinal(s, n)
        BY DEF CInv, WorkSound
      <4>3. QED BY <4>1, <4>2, <1>1, <1>2 DEF OrderedIn, Pool, InPool, IsFinal, Auditing
    <3>4. /\ Cardinality(OrderedIn(s)') <= Cardinality(Pool(s)')
          /\ Cardinality(OrderedIn(s)') \in Nat /\ Cardinality(Pool(s)') \in Nat
      BY <3>3, <1>3, Smaller, Finite
    <3>5. QED BY <3>1, <3>2, <3>4, <1>2, <1>11, Constants
  <2>4. QED BY <2>2, <2>3
<1>15. SectorsBounded'
  <2> SUFFICES ASSUME MaxPositionsPerLaunchpad' > 0, NEW c \in Scans,
                      NEW l \in {LaunchpadOf[n] : n \in Mints} \ {NoLaunchpad}
               PROVE  Cardinality(PositionsOf(l)' \cup PoolOf(c, l)')
                        <= MaxPositionsPerLaunchpad' + HeavyConcurrency - 1
    BY DEF SectorsBounded
  <2>1. MaxPositionsPerLaunchpad' = MaxPositionsPerLaunchpad /\ MaxPositionsPerLaunchpad \in Nat
    BY <1>2, Settings DEF MaxPositionsPerLaunchpad, CInv, StoreTypes
  <2>2. PositionsOf(l)' = PositionsOf(l) /\ PositionsOf(l) \in SUBSET Mints
    BY <1>9 DEF PositionsOf
  <2>3. Cardinality(PositionsOf(l) \cup PoolOf(c, l)) <= MaxPositionsPerLaunchpad + HeavyConcurrency - 1
    BY <2>1 DEF LInv, SectorsBounded
  <2>4. CASE PoolOf(c, l)' = PoolOf(c, l)
    BY <2>1, <2>2, <2>3, <2>4
  <2>5. CASE PoolOf(c, l)' # PoolOf(c, l)
    <3>1. c = s /\ IsFinal(s, m) /\ item[s][m] = "queued" /\ LaunchpadOf[m] = l
      <4>1. Pool(c)' # Pool(c)
        BY <2>5 DEF PoolOf
      <4>2. c = s /\ IsFinal(s, m) /\ item[s][m] = "queued"
        BY <4>1, <1>4, <1>6
      <4>3. Pool(c)' = Pool(c) \cup {m}
        BY <4>2, <1>5
      <4>4. QED BY <4>2, <4>3, <2>5 DEF PoolOf
    <3>2. ~AtLaunchpadCap(l)
      BY <3>1, <1>10 DEF CanBuy
    <3>3. Cardinality(PositionsOf(l)) < MaxPositionsPerLaunchpad /\ Cardinality(PositionsOf(l)) \in Nat
      <4>1. ~(Cardinality(PositionsOf(l)) >= MaxPositionsPerLaunchpad)
        BY <3>2, <2>1 DEF AtLaunchpadCap, PositionsOf
      <4>2. Cardinality(PositionsOf(l)) \in Nat
        BY <2>2, Finite
      <4>3. QED BY <4>1, <4>2, <2>1
    <3>4. PoolOf(c, l)' \subseteq Pool(s)' /\ Pool(s)' \in SUBSET Mints
      BY <3>1, <1>3 DEF PoolOf
    <3>5. /\ Cardinality(PoolOf(c, l)') <= Cardinality(Pool(s)')
          /\ PoolOf(c, l)' \in SUBSET Mints /\ Cardinality(PoolOf(c, l)') \in Nat
      BY <3>4, Smaller, Finite
    <3>6. /\ Cardinality(PositionsOf(l) \cup PoolOf(c, l)')
               <= Cardinality(PositionsOf(l)) + Cardinality(PoolOf(c, l)')
          /\ PositionsOf(l) \cup PoolOf(c, l)' \in SUBSET Mints
      BY <3>5, <2>2, JointSize
    <3>7. Cardinality(PositionsOf(l) \cup PoolOf(c, l)') \in Nat
      BY <3>6, Finite
    <3>8. Cardinality(PositionsOf(l) \cup PoolOf(c, l)') <= MaxPositionsPerLaunchpad + HeavyConcurrency - 1
      BY <3>3, <3>5, <3>6, <3>7, <1>11, <2>1, Constants
    <3>9. QED BY <3>8, <2>1, <2>2
  <2>6. QED BY <2>4, <2>5
<1>16. HeldOfSectorsBounded'
  BY <1>2, <1>9, HeldShrinks DEF LInv
<1>17. QED BY <1>12, <1>13, <1>14, <1>15, <1>16 DEF LInv

LEMMA ItemStepLimits ==
  ASSUME CInv, CInv', LInv, NEW s \in Scans, NEW m \in Mints, ItemStep(s, m)
  PROVE  LInv'
<1>1. CASE AuditItem(s, m)
  <2>1. /\ phase[s] = "auditing" /\ item[s][m] = "queued" /\ Taken(s, m)
        /\ ~AtLimit(s) /\ CanBuy(m)
        /\ item' = [item EXCEPT ![s][m] = "audit"]
        /\ reservedBuys' = IF IsFinal(s, m)
                           THEN [reservedBuys EXCEPT ![s] = @ + 1] ELSE reservedBuys
        /\ UNCHANGED <<storeVars, scanChain, phase, recheckEntry, buys>>
    BY <1>1 DEF AuditItem, Taken
  <2>2. "audit" \in Auditing
    BY DEF Auditing
  <2>3. QED BY <2>1, <2>2, StayLimits
<1>2. CASE PassFinalAudit(s, m)
  <2>1. /\ phase[s] = "auditing" /\ item[s][m] = "audit"
        /\ item' = [item EXCEPT ![s][m] = "approved"]
        /\ UNCHANGED <<storeVars, scanChain, phase, recheckEntry, buys, reservedBuys>>
    BY <1>2 DEF PassFinalAudit, Audited
  <2>2. "approved" \in Auditing /\ item[s][m] \in Auditing
    BY <2>1 DEF Auditing
  <2>3. QED BY <2>1, <2>2, StayLimits
<1>3. CASE PlaceBuy(s, m)
  <2>1. /\ item[s][m] = "approved" /\ (paperTrading => balance >= 1)
        /\ item' = [item EXCEPT ![s][m] = "ordered"]
        /\ UNCHANGED <<storeVars, scanChain, phase, recheckEntry, buys, reservedBuys>>
    BY <1>3 DEF PlaceBuy
  <2>2. "ordered" \in Auditing /\ item[s][m] \in Auditing
    BY <2>1 DEF Auditing
  <2>3. phase[s] = "auditing" /\ IsFinal(s, m)
    BY <2>1, <2>2, ItemFacts
  <2>4. QED BY <2>1, <2>2, <2>3, StayLimits
<1>4. QED BY <1>1, <1>2, <1>3, LeavingLimits DEF ItemStep, Leaving

(* A scan whose items are not under audit reserves nothing.                *)
LEMMA IdlePool ==
  ASSUME NEW c \in Scans, \A m \in Mints : item[c][m] \notin Auditing
  PROVE  Pool(c) = {} /\ OrderedIn(c) = {}
BY DEF Pool, InPool, OrderedIn, Auditing

LEMMA ScanStepLimits ==
  ASSUME CInv, CInv', LInv, NEW s \in Scans, ScanStep(s)
  PROVE  LInv'
<1>1. /\ reservedBuys \in [Scans -> Nat]
      /\ \A c \in Scans : reservedBuys[c] = Cardinality(Pool(c))
      /\ lots \in [Mints -> Nat] /\ balance \in Int /\ buys \in [Scans -> Nat]
      /\ item \in [Scans -> [Mints -> Stages]]
      /\ recheckEntry \in [Scans -> [Mints -> Entries \cup {NoEntry}]]
  BY DEF LInv, ReservationsTyped, ReservationsHeld, Pool, CInv, StoreTypes, ScanTypes
<1>2. Cardinality({}) = 0
  BY FS_EmptySet
<1>3. UNCHANGED <<config, lots, balance, coolDownMints>>
  BY DEF ScanStep, RequestScan, BeginScan, BuildWorkItems, ReturnEmpty, PassBreaker,
     ReturnBlocked, ReturnDone, Return, storeVars
<1>4. CASE RequestScan(s) \/ PassBreaker(s)
  <2>1. UNCHANGED <<item, recheckEntry, buys, reservedBuys>>
    BY <1>4 DEF RequestScan, PassBreaker
  <2>2. \A c \in Scans : Pool(c)' = Pool(c) /\ OrderedIn(c)' = OrderedIn(c)
    BY <2>1 DEF Pool, InPool, OrderedIn, IsFinal
  <2>3. QED BY <1>1, <1>3, <2>1, <2>2, ShrinkingLimits
<1>5. CASE BeginScan(s) \/ BuildWorkItems(s)
  <2>1. /\ UNCHANGED <<buys, reservedBuys>> /\ phase[s] # "auditing"
        /\ \A m \in Mints : item'[s][m] \in {"due", "none", "queued"}
        /\ \A c \in Scans \ {s} : item'[c] = item[c] /\ recheckEntry'[c] = recheckEntry[c]
    BY <1>1, <1>5 DEF BeginScan, BuildWorkItems
  <2>2. Pool(s)' = {} /\ OrderedIn(s)' = {}
    BY <2>1 DEF Pool, InPool, OrderedIn, Auditing
  <2>3. Pool(s) = {} /\ OrderedIn(s) = {}
    <3>1. \A m \in Mints : item[s][m] \notin Auditing
      BY <2>1 DEF CInv, WorkSound
    <3>2. QED BY <3>1, IdlePool
  <2>4. \A c \in Scans : Pool(c)' = Pool(c) /\ OrderedIn(c)' = OrderedIn(c)
    <3> TAKE c \in Scans
    <3>1. CASE c = s
      BY <3>1, <2>2, <2>3
    <3>2. CASE c # s
      BY <3>2, <2>1 DEF Pool, InPool, OrderedIn, IsFinal
    <3>3. QED BY <3>1, <3>2
  <2>5. QED BY <1>1, <1>3, <2>1, <2>4, ShrinkingLimits
<1>6. CASE ReturnEmpty(s) \/ ReturnBlocked(s) \/ ReturnDone(s)
  <2>1. Finish(s)
    BY <1>6 DEF ReturnEmpty, ReturnBlocked, ReturnDone, Return
  <2>2. /\ item' = [item EXCEPT ![s] = [m \in Mints |-> "none"]]
        /\ recheckEntry' = [recheckEntry EXCEPT ![s] = [m \in Mints |-> NoEntry]]
        /\ buys' = [buys EXCEPT ![s] = 0]
        /\ reservedBuys' = [reservedBuys EXCEPT ![s] = 0]
    BY <2>1 DEF Finish
  <2>3. /\ \A m \in Mints : item'[s][m] = "none"
        /\ \A c \in Scans \ {s} : /\ item'[c] = item[c] /\ recheckEntry'[c] = recheckEntry[c]
                                  /\ buys'[c] = buys[c] /\ reservedBuys'[c] = reservedBuys[c]
        /\ buys'[s] = 0 /\ reservedBuys'[s] = 0 /\ reservedBuys' \in [Scans -> Int]
    BY <1>1, <2>2
  <2>4. Pool(s)' = {} /\ OrderedIn(s)' = {}
    BY <2>3 DEF Pool, InPool, OrderedIn, Auditing
  <2>5. \A c \in Scans \ {s} : Pool(c)' = Pool(c) /\ OrderedIn(c)' = OrderedIn(c)
    BY <2>3 DEF Pool, InPool, OrderedIn, IsFinal
  <2>6. \A c \in Scans : /\ Pool(c)' \subseteq Pool(c) /\ OrderedIn(c)' \subseteq OrderedIn(c)
                         /\ reservedBuys'[c] = Cardinality(Pool(c)')
                         /\ buys'[c] \in {0, buys[c]}
    <3> TAKE c \in Scans
    <3>1. CASE c = s
      BY <3>1, <2>3, <2>4, <1>2
    <3>2. CASE c # s
      BY <3>2, <2>3, <2>5, <1>1
    <3>3. QED BY <3>1, <3>2
  <2>7. QED BY <1>1, <1>3, <2>3, <2>6, ShrinkingLimits
<1>7. QED BY <1>4, <1>5, <1>6 DEF ScanStep

LEMMA NextLimits == CInv /\ CInv' /\ LInv /\ [TimelyNext]_vars => LInv'
<1> SUFFICES ASSUME CInv, CInv', LInv, [TimelyNext]_vars PROVE LInv'
  OBVIOUS
<1>1. /\ reservedBuys \in [Scans -> Nat]
      /\ \A c \in Scans : reservedBuys[c] = Cardinality(Pool(c))
      /\ lots \in [Mints -> Nat] /\ balance \in Int
  BY DEF LInv, ReservationsTyped, ReservationsHeld, Pool, CInv, StoreTypes
<1>2. ASSUME UNCHANGED <<config, scanVars>>, balance' \in {balance, balance + 1},
             \A m \in Mints : lots'[m] \in {0, lots[m]}
      PROVE  LInv'
  <2>1. UNCHANGED <<item, recheckEntry, buys, reservedBuys>>
    BY <1>2 DEF scanVars
  <2>2. \A c \in Scans : Pool(c)' = Pool(c) /\ OrderedIn(c)' = OrderedIn(c)
    BY <2>1 DEF Pool, InPool, OrderedIn, IsFinal
  <2>3. balance' >= balance
    BY <1>1, <1>2
  <2>4. QED BY <1>1, <1>2, <2>1, <2>2, <2>3, ShrinkingLimits
<1>3. ASSUME NEW m \in Mints, ClosePosition(m) PROVE LInv'
  <2>1. /\ lots' = [lots EXCEPT ![m] = 0] /\ balance' \in {balance, balance + 1}
        /\ UNCHANGED <<config, scanVars>>
    BY <1>3 DEF ClosePosition
  <2>2. \A n \in Mints : lots'[n] \in {0, lots[n]}
    BY <1>1, <2>1
  <2>3. QED BY <1>2, <2>1, <2>2
<1>4. ASSUME NEW m \in Mints, ExpireCoolDown(m) PROVE LInv'
  BY <1>2, <1>4 DEF ExpireCoolDown
<1>5. CASE UNCHANGED vars
  BY <1>2, <1>5 DEF vars, storeVars
<1>6. QED BY <1>3, <1>4, <1>5, ScanStepLimits, ItemStepLimits DEF TimelyNext

LEMMA Limits == TimelySpec => []LInv
<1>1. Init => CInv /\ LInv
  BY InitControl, InitLimits
<1>2. CInv /\ LInv /\ [TimelyNext]_vars => CInv' /\ LInv'
  BY NextControl, NextLimits
<1>3. QED BY <1>1, <1>2, PTL DEF TimelySpec

-----------------------------------------------------------------------------
(* The theorems.                                                           *)

(* Scans exclude each other, a mint with a verdict has no pending recheck, *)
(* and every work item is worked on from the entry that is still pending   *)
(* (runScanExclusive in bot.ts, trackMint and the rechecks of the store).  *)
THEOREM PipelineIsConsistent == TimelySpec => []Consistent
<1>1. CInv /\ LInv => Consistent
  <2> SUFFICES ASSUME CInv, LInv PROVE Consistent
    OBVIOUS
  <2>1. TypeOK
    BY DEF CInv, LInv, StoreTypes, ScanTypes, Phases, Stages, ReservationsTyped, TypeOK
  <2>2. ScansExclusive
    BY DEF CInv, Chained, ScansExclusive
  <2>3. QED BY <2>1, <2>2 DEF CInv, Consistent
<1>2. QED BY <1>1, Control, Limits, PTL

(* A mint is never bought while it is held (the check of the positions in  *)
(* processItem, and the verdict that follows every buy).                   *)
THEOREM MintsAreBoughtOnce == TimelySpec => []OneLotPerMint
<1>1. LInv => OneLotPerMint
  BY DEF LInv
<1>2. QED BY <1>1, Limits, PTL

(* Audits that run beside each other cannot all take the last slot: the    *)
(* reservations count the final audits, and the caps hold with them        *)
(* counted as buys (metrics.reservedBuys in processItem).                  *)
THEOREM SlotsAreReserved == TimelySpec => []ReservationsHeld
<1>1. LInv => ReservationsHeld
  BY DEF LInv
<1>2. QED BY <1>1, Limits, PTL

(* What the buys of one scan, running beside each other, can overdraw.     *)
LEMMA OrderedOfOneScan ==
  ASSUME CInv, LInv, paperTrading
  PROVE  balance - Cardinality(Ordered) >= 1 - HeavyConcurrency
<1>1. balance \in Int
  BY DEF CInv, StoreTypes
<1>2. CASE Ordered = {}
  <2>1. Cardinality(Ordered) = 0
    BY <1>2, FS_EmptySet
  <2>2. balance >= 1 - HeavyConcurrency
    BY DEF LInv, Funded
  <2>3. QED BY <2>1, <2>2, <1>1
<1>3. CASE Ordered # {}
  <2>1. PICK s \in Scans, m \in Mints : item[s][m] = "ordered"
    BY <1>3 DEF Ordered
  <2>2. phase[s] \in Running
    BY <2>1, ItemFacts DEF Auditing
  <2>3. Ordered = {<<s, n>> : n \in OrderedIn(s)}
    BY <2>2, OthersIdle DEF Ordered, OrderedIn
  <2> DEFINE f == [n \in OrderedIn(s) |-> <<s, n>>]
  <2>4. f \in Surjection(OrderedIn(s), Ordered)
    BY <2>3 DEF Surjection
  <2>5. IsFiniteSet(OrderedIn(s)) /\ Cardinality(OrderedIn(s)) \in Nat
    BY Finite DEF OrderedIn
  <2> HIDE DEF f
  <2>6. IsFiniteSet(Ordered) /\ Cardinality(Ordered) <= Cardinality(OrderedIn(s))
    BY <2>4, <2>5, FS_Surjection
  <2>7. Cardinality(Ordered) \in Nat
    BY <2>6, FS_CardinalityType
  <2>8. balance - Cardinality(OrderedIn(s)) >= 1 - HeavyConcurrency
    BY DEF LInv, Funded
  <2>9. QED BY <1>1, <2>5, <2>6, <2>7, <2>8, Constants
<1>4. QED BY <1>2, <1>3

(* The paper wallet is overdrawn, the orders under way included, by less   *)
(* than a pool has workers (buy.ts:196-205), and a launchpad exceeds its   *)
(* cap by less than that (canBuy in portfolio.service.ts).                 *)
THEOREM OverrunsAreBounded == TimelySpec => []LimitsBounded
<1>1. CInv /\ LInv => LimitsBounded
  <2> SUFFICES ASSUME CInv, LInv PROVE LimitsBounded
    OBVIOUS
  <2>1. OverdraftBounded
    BY OrderedOfOneScan DEF OverdraftBounded
  <2>2. LaunchpadOvershootBounded
    BY DEF LInv, HeldOfSectorsBounded, LaunchpadOvershootBounded, PositionsOf
  <2>3. QED BY <2>1, <2>2 DEF LimitsBounded
<1>2. QED BY <1>1, Control, Limits, PTL

-----------------------------------------------------------------------------
(* The signals that lead to a scan.                                        *)

(* Each loop is in the chain at most once.                                 *)
Chains == {<< >>, <<"discovery">>, <<"trending">>,
           <<"discovery", "trending">>, <<"trending", "discovery">>}
LoopTypes ==
  /\ discovery \in {"idle", "flush", "other"} /\ trending \in {"idle", "feed", "scan"}
  /\ loopChain \in Chains
  /\ ("discovery" \in {loopChain[i] : i \in DOMAIN loopChain} <=> discovery # "idle")
  /\ ("trending" \in {loopChain[i] : i \in DOMAIN loopChain} <=> trending = "scan")
  /\ (flush = "scanning" <=> discovery = "flush")

SignalTypes ==
  /\ pendingMints \subseteq LoggedMints /\ batch \subseteq LoggedMints
  /\ recent \subseteq LoggedMints /\ processed \subseteq LoggedMints
  /\ pendingSignatures \in [Unnamed -> 0..3] /\ taken \in [Unnamed -> 0..3]
  /\ answer \in [Unnamed -> {"none", "mint", "nothing", "failed"}]
  /\ debounce \in BOOLEAN /\ stopped \in BOOLEAN /\ overlapped \in BOOLEAN
  /\ flush \in {"idle", "fetching", "scanning"}
  /\ offers \in [LoggedMints -> {0, 1}]

(* What was offered is remembered, and what a flush has collected was not  *)
(* offered yet.                                                            *)
Remembered ==
  /\ \A m \in LoggedMints : offers[m] = 1 => m \in recent
  /\ \A m \in batch : flush = "fetching" /\ m \in recent /\ offers[m] = 0

SInv == SignalTypes /\ LoopTypes /\ Remembered /\ Signals!SignalsWatched

(* The scan of a loop that is not in the chain joins it at its end.        *)
LEMMA ChainGrows ==
  ASSUME LoopTypes
  PROVE  /\ discovery = "idle" =>
              /\ Append(loopChain, "discovery") \in Chains
              /\ \A x : x \in {Append(loopChain, "discovery")[i] :
                              i \in DOMAIN Append(loopChain, "discovery")} <=>
                     x = "discovery" \/ x \in {loopChain[i] : i \in DOMAIN loopChain}
         /\ trending # "scan" =>
              /\ Append(loopChain, "trending") \in Chains
              /\ \A x : x \in {Append(loopChain, "trending")[i] :
                              i \in DOMAIN Append(loopChain, "trending")} <=>
                     x = "trending" \/ x \in {loopChain[i] : i \in DOMAIN loopChain}
<1> DEFINE L == {"discovery", "trending"}
<1>0. ASSUME NEW x \in L, NEW y \in L
      PROVE  Append(<<x>>, y) = <<x, y>>
  <2>1. <<x>> \in Seq(L) /\ Len(<<x>>) = 1 /\ <<x>>[1] = x
    OBVIOUS
  <2>2. <<x, y>> \in Seq(L) /\ Len(<<x, y>>) = 2 /\ <<x, y>>[1] = x /\ <<x, y>>[2] = y
    OBVIOUS
  <2>3. /\ Append(<<x>>, y) \in Seq(L) /\ Len(Append(<<x>>, y)) = 2
        /\ Append(<<x>>, y)[1] = x /\ Append(<<x>>, y)[2] = y
    <3> HIDE DEF L
    <3>1. QED BY <2>1, AppendProperties
  <2>4. \A i \in 1..2 : Append(<<x>>, y)[i] = <<x, y>>[i]
    <3>1. \A i \in 1..2 : i = 1 \/ i = 2
      OBVIOUS
    <3>2. QED BY <2>2, <2>3, <3>1, Zenon
  <2>5. QED
    <3> HIDE DEF L
    <3>1. QED BY <2>2, <2>3, <2>4, SeqEqual
<1>1. CASE loopChain = << >>
  <2>1. Append(loopChain, "discovery") = <<"discovery">>
        /\ Append(loopChain, "trending") = <<"trending">>
    BY <1>1
  <2>2. \A x : x \notin {loopChain[i] : i \in DOMAIN loopChain}
    BY <1>1
  <2>3. QED BY <2>1, <2>2 DEF Chains
<1>2. CASE loopChain = <<"discovery">>
  <2>1. Append(loopChain, "trending") = <<"discovery", "trending">>
    BY <1>2, <1>0
  <2>2. \A x : x \in {loopChain[i] : i \in DOMAIN loopChain} <=> x = "discovery"
    BY <1>2
  <2>3. discovery # "idle"
    BY <2>2 DEF LoopTypes
  <2>4. QED BY <2>1, <2>2, <2>3 DEF Chains
<1>3. CASE loopChain = <<"trending">>
  <2>1. Append(loopChain, "discovery") = <<"trending", "discovery">>
    BY <1>3, <1>0
  <2>2. \A x : x \in {loopChain[i] : i \in DOMAIN loopChain} <=> x = "trending"
    BY <1>3
  <2>3. trending = "scan"
    BY <2>2 DEF LoopTypes
  <2>4. QED BY <2>1, <2>2, <2>3 DEF Chains
<1>4. CASE loopChain \in {<<"discovery", "trending">>, <<"trending", "discovery">>}
  <2>1. discovery # "idle" /\ trending = "scan"
    BY <1>4 DEF LoopTypes
  <2>2. QED BY <2>1
<1>5. QED BY <1>1, <1>2, <1>3, <1>4 DEF LoopTypes, Chains

(* Of what was collected, what is offered to the loop was not offered yet. *)
LEMMA CallLoopKeeps ==
  ASSUME SInv, flush # "scanning",
         NEW mints \in SUBSET LoggedMints, Signals!CallLoop(mints),
         \A m \in mints : offers[m] = 0 /\ m \in recent',
         recent \subseteq recent'
  PROVE  /\ LoopTypes' /\ Remembered'
         /\ flush' \in {"idle", "scanning"} /\ batch' = {}
         /\ offers' \in [LoggedMints -> {0, 1}]
<1>1. /\ offers' = [m \in LoggedMints |-> offers[m] + IF m \in mints THEN 1 ELSE 0]
      /\ batch' = {}
      /\ \/ /\ discovery = "idle" /\ flush' = "scanning" /\ discovery' = "flush"
            /\ loopChain' = Append(loopChain, "discovery") /\ UNCHANGED trending
         \/ flush' = "idle" /\ UNCHANGED <<discovery, trending, loopChain>>
  BY DEF Signals!CallLoop, Signals!Occupy, Signals!Free, Signals!loops
<1>2. \A m \in LoggedMints :
        offers'[m] = IF m \in mints THEN 1 ELSE offers[m]
  BY <1>1 DEF SInv, SignalTypes
<1>3. offers' \in [LoggedMints -> {0, 1}]
  BY <1>1, <1>2 DEF SInv, SignalTypes
<1>4. Remembered'
  BY <1>1, <1>2 DEF SInv, Remembered
<1>5. LoopTypes'
  <2>1. CASE flush' = "scanning"
    <3>1. /\ loopChain' = Append(loopChain, "discovery") /\ discovery = "idle"
          /\ discovery' = "flush" /\ trending' = trending
      BY <1>1, <2>1
    <3>2. LoopTypes
      BY DEF SInv
    <3>3. loopChain' \in Chains
      BY <3>1, <3>2, ChainGrows
    <3>4. \A x : x \in {loopChain'[i] : i \in DOMAIN loopChain'} <=>
                  x = "discovery" \/ x \in {loopChain[i] : i \in DOMAIN loopChain}
      BY <3>1, <3>2, ChainGrows
    <3>5. QED BY <2>1, <3>1, <3>2, <3>3, <3>4 DEF LoopTypes
  <2>2. CASE flush' # "scanning"
    BY <1>1, <2>2 DEF SInv, LoopTypes
  <2>3. QED BY <2>1, <2>2
<1>6. QED BY <1>1, <1>3, <1>4, <1>5

LEMMA FlushKeeps ==
  ASSUME SInv, Signals!DebounceFires \/ Signals!FetchesDone
  PROVE  SInv'
<1> DEFINE fresh == Signals!Fresh(pendingMints)
           found == Signals!Fresh({m \in Unnamed : answer[m] = "mint"})
<1>1. Unnamed \subseteq LoggedMints
  BY SignalsAssumption DEF Signals!DiscoveryAssumption
<1>2. \A m \in fresh \cup found : m \in LoggedMints /\ m \notin recent /\ offers[m] = 0
  <2>1. fresh \subseteq LoggedMints /\ found \subseteq LoggedMints
    BY <1>1 DEF Signals!Fresh, SInv, SignalTypes
  <2>2. \A m \in fresh \cup found : m \notin recent
    BY DEF Signals!Fresh
  <2>3. QED BY <2>1, <2>2 DEF SInv, SignalTypes, Remembered
<1>3. Signals!None \in [Unnamed -> 0..3] /\ Signals!NoAnswer \in
        [Unnamed -> {"none", "mint", "nothing", "failed"}]
  BY DEF Signals!None, Signals!NoAnswer
<1>4. CASE Signals!DebounceFires /\ flush # "idle"
  <2>1. /\ debounce' = FALSE /\ overlapped' = TRUE
        /\ UNCHANGED <<pendingMints, pendingSignatures, flush, taken, answer, batch, recent,
                       offers, discovery, trending, loopChain, processed, stopped>>
    BY <1>4 DEF Signals!DebounceFires, Signals!loops
  <2>2. SignalTypes' /\ LoopTypes' /\ Remembered'
    BY <2>1 DEF SInv, SignalTypes, LoopTypes, Remembered
  <2>3. QED BY <2>1, <2>2 DEF SInv, Signals!SignalsWatched
<1>5. CASE Signals!DebounceFires /\ flush = "idle"
  <2>1. /\ debounce' = FALSE /\ overlapped' = FALSE /\ pendingMints' = {}
        /\ pendingSignatures' = Signals!None /\ recent' = recent \cup fresh
        /\ UNCHANGED <<processed, stopped>>
        /\ \/ Signals!CallLoop(fresh) /\ UNCHANGED <<taken, answer>>
           \/ /\ flush' = "fetching" /\ batch' = fresh /\ taken' = pendingSignatures
              /\ answer' = Signals!NoAnswer
              /\ UNCHANGED <<offers, discovery, trending, loopChain>>
    BY <1>5 DEF Signals!DebounceFires, Signals!loops
  <2>2. Signals!SignalsWatched'
    BY <2>1 DEF Signals!SignalsWatched, Signals!None
  <2>3. CASE Signals!CallLoop(fresh) /\ UNCHANGED <<taken, answer>>
    <3>1. /\ LoopTypes' /\ Remembered' /\ flush' \in {"idle", "scanning"} /\ batch' = {}
          /\ offers' \in [LoggedMints -> {0, 1}]
      BY <1>2, <1>5, <2>1, <2>3, CallLoopKeeps
    <3>2. SignalTypes'
      BY <1>2, <1>3, <2>1, <2>3, <3>1 DEF SInv, SignalTypes
    <3>3. QED BY <2>2, <3>1, <3>2 DEF SInv
  <2>4. CASE /\ flush' = "fetching" /\ batch' = fresh /\ taken' = pendingSignatures
             /\ answer' = Signals!NoAnswer
             /\ UNCHANGED <<offers, discovery, trending, loopChain>>
    <3>1. SignalTypes'
      BY <1>2, <1>3, <2>1, <2>4 DEF SInv, SignalTypes
    <3>2. LoopTypes' /\ Remembered'
      BY <1>2, <1>5, <2>1, <2>4 DEF SInv, LoopTypes, Remembered
    <3>3. QED BY <2>2, <3>1, <3>2 DEF SInv
  <2>5. QED BY <2>1, <2>3, <2>4
<1>6. CASE Signals!FetchesDone
  <2> DEFINE failed == {m \in Unnamed : answer[m] = "failed" /\ taken[m] <= 2}
  <2>1. /\ flush = "fetching" /\ recent' = recent \cup found
        /\ pendingSignatures' = [m \in Unnamed |-> IF m \in failed THEN taken[m] + 1
                                                  ELSE pendingSignatures[m]]
        /\ overlapped' = (overlapped \/ failed # {})
        /\ taken' = Signals!None /\ answer' = Signals!NoAnswer
        /\ Signals!CallLoop(batch \cup found)
        /\ UNCHANGED <<pendingMints, debounce, processed, stopped>>
    BY <1>6 DEF Signals!FetchesDone, Signals!MaxAttempts
  <2>2. \A m \in batch \cup found : m \in LoggedMints /\ offers[m] = 0 /\ m \in recent'
    BY <1>2, <2>1 DEF SInv, SignalTypes, Remembered
  <2>3. /\ LoopTypes' /\ Remembered' /\ flush' \in {"idle", "scanning"} /\ batch' = {}
        /\ offers' \in [LoggedMints -> {0, 1}]
    BY <2>1, <2>2, CallLoopKeeps
  <2>4. pendingSignatures' \in [Unnamed -> 0..3]
    <3>1. \A m \in Unnamed : taken[m] \in 0..3 /\ pendingSignatures[m] \in 0..3
      BY DEF SInv, SignalTypes
    <3>2. \A m \in failed : taken[m] + 1 \in 0..3
      BY <3>1
    <3>3. QED BY <2>1, <3>1, <3>2
  <2>5. SignalTypes'
    BY <1>2, <1>3, <2>1, <2>3, <2>4 DEF SInv, SignalTypes
  <2>6. Signals!SignalsWatched'
    <3>1. CASE failed = {}
      <4>1. pendingSignatures' = pendingSignatures /\ overlapped' = overlapped
        BY <2>1, <3>1 DEF SInv, SignalTypes
      <4>2. QED BY <2>1, <4>1 DEF SInv, Signals!SignalsWatched, Signals!None
    <3>2. CASE failed # {}
      BY <2>1, <3>2 DEF Signals!SignalsWatched
    <3>3. QED BY <3>1, <3>2
  <2>7. QED BY <2>3, <2>5, <2>6 DEF SInv
<1>7. QED BY <1>4, <1>5, <1>6

(* The loop at the head of the chain leaves it.                            *)
LEMMA ChainShrinks ==
  ASSUME LoopTypes, loopChain # << >>
  PROVE  /\ Head(loopChain) \in {"discovery", "trending"}
         /\ Tail(loopChain) \in Chains
         /\ Head(loopChain) = "discovery" => discovery # "idle"
         /\ Head(loopChain) = "trending" => trending = "scan"
         /\ \A x : x \in {Tail(loopChain)[i] : i \in DOMAIN Tail(loopChain)} <=>
                /\ x \in {loopChain[i] : i \in DOMAIN loopChain}
                /\ x # Head(loopChain)
<1>1. /\ Head(loopChain) \in {"discovery", "trending"}
      /\ Tail(loopChain) \in Chains
      /\ \A x : x \in {Tail(loopChain)[i] : i \in DOMAIN Tail(loopChain)} <=>
             x \in {loopChain[i] : i \in DOMAIN loopChain} /\ x # Head(loopChain)
  <2>1. CASE loopChain = <<"discovery">>
    <3>1. Head(loopChain) = "discovery" /\ Tail(loopChain) = << >>
      BY <2>1
    <3>2. QED BY <2>1, <3>1 DEF Chains
  <2>2. CASE loopChain = <<"trending">>
    <3>1. Head(loopChain) = "trending" /\ Tail(loopChain) = << >>
      BY <2>2
    <3>2. QED BY <2>2, <3>1 DEF Chains
  <2>3. CASE loopChain = <<"discovery", "trending">>
    <3>1. Head(loopChain) = "discovery" /\ Tail(loopChain) = <<"trending">>
      BY <2>3
    <3>2. QED BY <2>3, <3>1 DEF Chains
  <2>4. CASE loopChain = <<"trending", "discovery">>
    <3>1. Head(loopChain) = "trending" /\ Tail(loopChain) = <<"discovery">>
      BY <2>4
    <3>2. QED BY <2>4, <3>1 DEF Chains
  <2>5. QED BY <2>1, <2>2, <2>3, <2>4 DEF LoopTypes, Chains
<1>2. Head(loopChain) \in {loopChain[i] : i \in DOMAIN loopChain}
  <2>1. 1 \in DOMAIN loopChain /\ loopChain[1] = Head(loopChain)
    BY DEF LoopTypes, Chains
  <2>2. QED BY <2>1
<1>3. QED BY <1>1, <1>2 DEF LoopTypes

LEMMA LoopsKeep ==
  ASSUME SInv,
         Signals!Poll \/ Signals!TrendingTick \/ Signals!TrendingFeed \/ Signals!ScanSettles
  PROVE  SInv'
<1> USE DEF Signals!signals, Signals!dedupe, Signals!flushing
<1>1. CASE Signals!Poll
  <2>1. /\ discovery = "idle" /\ discovery' = "other"
        /\ loopChain' = Append(loopChain, "discovery")
        /\ UNCHANGED <<pendingMints, pendingSignatures, debounce, flush, taken, answer,
                       batch, overlapped, recent, offers, processed, trending, stopped>>
    BY <1>1 DEF Signals!Poll, Signals!Free, Signals!Occupy
  <2>2. /\ loopChain' \in Chains
        /\ \A x : x \in {loopChain'[i] : i \in DOMAIN loopChain'} <=>
               x = "discovery" \/ x \in {loopChain[i] : i \in DOMAIN loopChain}
    BY <2>1, ChainGrows DEF SInv
  <2>3. LoopTypes'
    BY <2>1, <2>2 DEF SInv, LoopTypes
  <2>4. QED BY <2>1, <2>3 DEF SInv, SignalTypes, Remembered, Signals!SignalsWatched
<1>2. CASE Signals!TrendingTick
  <2>1. /\ trending = "idle" /\ trending' = "feed"
        /\ UNCHANGED <<pendingMints, pendingSignatures, debounce, flush, taken, answer,
                       batch, overlapped, recent, offers, processed, discovery, loopChain,
                       stopped>>
    BY <1>2 DEF Signals!TrendingTick
  <2>2. QED BY <2>1 DEF SInv, SignalTypes, LoopTypes, Remembered, Signals!SignalsWatched
<1>3. CASE Signals!TrendingFeed
  <2>1. /\ trending = "feed"
        /\ \/ trending' = "scan" /\ loopChain' = Append(loopChain, "trending")
           \/ trending' = "idle" /\ UNCHANGED loopChain
        /\ UNCHANGED <<pendingMints, pendingSignatures, debounce, flush, taken, answer,
                       batch, overlapped, recent, offers, processed, discovery, stopped>>
    BY <1>3 DEF Signals!TrendingFeed
  <2>2. /\ Append(loopChain, "trending") \in Chains
        /\ \A x : x \in {Append(loopChain, "trending")[i] :
                        i \in DOMAIN Append(loopChain, "trending")} <=>
               x = "trending" \/ x \in {loopChain[i] : i \in DOMAIN loopChain}
    BY <2>1, ChainGrows DEF SInv
  <2>3. LoopTypes'
    BY <2>1, <2>2 DEF SInv, LoopTypes
  <2>4. QED BY <2>1, <2>3 DEF SInv, SignalTypes, Remembered, Signals!SignalsWatched
<1>4. CASE Signals!ScanSettles
  <2>1. /\ loopChain # << >> /\ loopChain' = Tail(loopChain)
        /\ IF Head(loopChain) = "discovery"
           THEN discovery' = "idle" /\ UNCHANGED trending
           ELSE trending' = "idle" /\ UNCHANGED discovery
        /\ flush' = IF Head(loopChain) = "discovery" /\ discovery = "flush"
                    THEN "idle" ELSE flush
        /\ UNCHANGED <<pendingMints, pendingSignatures, debounce, taken, answer,
                       batch, overlapped, recent, offers, processed, stopped>>
    BY <1>4 DEF Signals!ScanSettles, Signals!ReturnTo
  <2>2. /\ Head(loopChain) \in {"discovery", "trending"} /\ loopChain' \in Chains
        /\ \A x : x \in {loopChain'[i] : i \in DOMAIN loopChain'} <=>
               /\ x \in {loopChain[i] : i \in DOMAIN loopChain}
               /\ x # Head(loopChain)
    BY <2>1, ChainShrinks DEF SInv
  <2>3. LoopTypes
    BY DEF SInv
  <2>4. LoopTypes'
    <3>1. CASE Head(loopChain) = "discovery"
      BY <2>1, <2>2, <2>3, <3>1 DEF LoopTypes
    <3>2. CASE Head(loopChain) = "trending"
      BY <2>1, <2>2, <2>3, <3>2 DEF LoopTypes
    <3>3. QED BY <2>2, <3>1, <3>2
  <2>5. flush = "fetching" => flush' = "fetching"
    BY <2>1, <2>3 DEF LoopTypes
  <2>6. QED BY <2>1, <2>4, <2>5 DEF SInv, SignalTypes, Remembered, Signals!SignalsWatched
<1>5. QED BY <1>1, <1>2, <1>3, <1>4

LEMMA LogsKeep ==
  ASSUME SInv,
         \/ \E m \in LoggedMints :
              Signals!LogMint(m) \/ Signals!Verdict(m) \/ Signals!RecentExpires(m)
         \/ \E m \in Unnamed : Signals!LogSignature(m) \/ Signals!Fetched(m)
         \/ Signals!Stop
  PROVE  SInv'
<1> USE DEF Signals!signals, Signals!dedupe, Signals!flushing, Signals!loops
<1>1. ASSUME NEW m \in LoggedMints, Signals!LogMint(m)
      PROVE  SInv'
  BY <1>1 DEF Signals!LogMint, SInv, SignalTypes, LoopTypes, Remembered,
              Signals!SignalsWatched
<1>2. ASSUME NEW m \in LoggedMints, Signals!Verdict(m)
      PROVE  SInv'
  BY <1>2 DEF Signals!Verdict, SInv, SignalTypes, LoopTypes, Remembered,
              Signals!SignalsWatched
<1>3. ASSUME NEW m \in LoggedMints, Signals!RecentExpires(m)
      PROVE  SInv'
  BY <1>3 DEF Signals!RecentExpires, SInv, SignalTypes, LoopTypes, Remembered,
              Signals!SignalsWatched
<1>4. ASSUME NEW m \in Unnamed, Signals!LogSignature(m)
      PROVE  SInv'
  <2>1. pendingSignatures' \in [Unnamed -> 0..3]
    BY <1>4 DEF Signals!LogSignature, SInv, SignalTypes
  <2>2. QED BY <1>4, <2>1 DEF Signals!LogSignature, SInv, SignalTypes, LoopTypes,
                             Remembered, Signals!SignalsWatched
<1>5. ASSUME NEW m \in Unnamed, Signals!Fetched(m)
      PROVE  SInv'
  BY <1>5 DEF Signals!Fetched, SInv, SignalTypes, LoopTypes, Remembered,
              Signals!SignalsWatched
<1>6. CASE Signals!Stop
  BY <1>6 DEF Signals!Stop, SInv, SignalTypes, LoopTypes, Remembered,
              Signals!SignalsWatched
<1>7. QED BY <1>1, <1>2, <1>3, <1>4, <1>5, <1>6

LEMMA SignalsStart == Signals!Init => SInv
<1> SUFFICES ASSUME Signals!Init PROVE SInv
  OBVIOUS
<1>1. SignalTypes
  <2>1. /\ pendingSignatures \in [Unnamed -> 0..3] /\ taken \in [Unnamed -> 0..3]
        /\ answer \in [Unnamed -> {"none", "mint", "nothing", "failed"}]
    BY DEF Signals!Init, Signals!None, Signals!NoAnswer
  <2>2. offers \in [LoggedMints -> {0, 1}]
    BY DEF Signals!Init
  <2>3. QED BY <2>1, <2>2 DEF Signals!Init, SignalTypes
<1>2. LoopTypes
  <2>1. \A x : x \notin {loopChain[i] : i \in DOMAIN loopChain}
    BY DEF Signals!Init
  <2>2. QED BY <2>1 DEF Signals!Init, LoopTypes, Chains
<1>3. Remembered
  BY DEF Signals!Init, Remembered
<1>4. Signals!SignalsWatched
  BY DEF Signals!Init, Signals!SignalsWatched
<1>5. QED BY <1>1, <1>2, <1>3, <1>4 DEF SInv

LEMMA SignalsKeep ==
  ASSUME SInv, [RunNext]_allVars
  PROVE  SInv'
<1>1. CASE UNCHANGED signalVars
  BY <1>1 DEF signalVars, SInv, SignalTypes, LoopTypes, Remembered, Signals!SignalsWatched
<1>2. CASE Signals!Next
  BY <1>2, FlushKeeps, LoopsKeep, LogsKeep DEF Signals!Next
<1>3. QED BY <1>1, <1>2 DEF RunNext, SignalsStep, ScansStep, allVars

(* However often, by whatever socket and at whatever moment a mint is      *)
(* logged, by name or by signature, the discovery loop is offered it once  *)
(* in the retention window, and a signal waits without a timer only when   *)
(* it met a running flush, when its own fetch failed, or after the stop    *)
(* (discovery.service.ts, flush and addPendingMint; bot.ts, the loops).    *)
THEOREM SignalsReachTheLoopOnce == RunSpec => []SignalsSound
<1>1. RunInit => SInv
  BY SignalsStart DEF RunInit
<1>2. SInv /\ [RunNext]_allVars => SInv'
  BY SignalsKeep
<1>3. SInv => SignalsSound
  <2> SUFFICES ASSUME SInv PROVE SignalsSound
    OBVIOUS
  <2>1. loopChain \in Seq({"discovery", "trending"})
    <3>1. \A c \in Chains : c \in Seq({"discovery", "trending"})
      <4> DEFINE L == {"discovery", "trending"}
      <4>1. << >> \in Seq(L) /\ <<"discovery">> \in Seq(L) /\ <<"trending">> \in Seq(L)
        OBVIOUS
      <4>2. <<"discovery", "trending">> \in Seq(L) /\ <<"trending", "discovery">> \in Seq(L)
        OBVIOUS
      <4>3. QED BY <4>1, <4>2 DEF Chains
    <3>2. QED BY <3>1 DEF SInv, LoopTypes
  <2>2. Signals!TypeOK
    BY <2>1 DEF Signals!TypeOK, Signals!MaxAttempts, SInv, SignalTypes, LoopTypes
  <2>3. Signals!OfferedOnce
    BY DEF Signals!OfferedOnce, SInv, SignalTypes
  <2>4. QED BY <2>2, <2>3 DEF SignalsSound, SInv
<1>4. QED BY <1>1, <1>2, <1>3, PTL DEF RunSpec

=============================================================================
