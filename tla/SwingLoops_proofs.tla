-------------------------- MODULE SwingLoops_proofs --------------------------
(***************************************************************************)
(* What holds of the two swing loops for every set of mints, every limit   *)
(* and every setting: their values stay of their kind, each swap-log       *)
(* listener is owned by its controller, and neither the positions nor the  *)
(* paper balance overshoot by more than the other buyers account for.      *)
(***************************************************************************)
EXTENDS SwingLoops, FiniteSetTheorems, TLAPS

WatchSound ==
    /\ watchlist \subseteq Mints /\ Cardinality(watchlist) <= WatchlistSize
    /\ fastItems \subseteq watchlist
    /\ ~FastPolling => fastItems = {}

BookSound ==
    /\ positions \in [Mints -> {"none", "swing", "sniper"}]
    /\ lots \in [Mints -> Nat]
    /\ \A m \in Mints : lots[m] = 0 <=> positions[m] = "none"
    /\ balance \in Int
    /\ sniping \in 0..ParallelBuys

\* A loop that buys found its own count below the cap.
LoopsSound ==
    /\ pc \in [Loops -> {"idle", "refresh", "poll", "buy"}]
    /\ pc["fast"] # "refresh"
    /\ ~FastPolling => pc["fast"] = "idle"
    /\ polled \in [Loops -> SUBSET Mints]
    /\ visited \in [Loops -> SUBSET Mints]
    /\ openSwing \in [Loops -> 0..MaxOpenPositions]
    /\ buying \in [Loops -> Mints \cup {NoMint}]
    /\ \A l \in Loops : pc[l] = "buy" <=> buying[l] # NoMint
    /\ \A l \in Loops : pc[l] = "buy" => openSwing[l] < MaxOpenPositions

TapeSound ==
    /\ lookups \in [Followed -> 0..MaxLookups]
    /\ controllers \subseteq Followed
    /\ listeners \in [Followed -> Nat]
    /\ ListenersOwned

\* The part of the open positions a loop answers for: while it buys, those it
\* counted or bought; else as many as a turn of it can have left open.
Share(l) == IF pc[l] = "buy" THEN openSwing[l]
            ELSE IF l = "slow" \/ FastPolling THEN MaxOpenPositions ELSE 0

\* The two shares cover the open positions.  A new turn counts all of them
\* itself, so that what an earlier turn left is not counted twice.
PositionsShared == Cardinality(SwingPositions) <= Share("slow") + Share("fast")

Pending(l) == IF pc[l] = "buy" THEN 1 ELSE 0

\* Every buyer found a unit of its own or one that others rely on as well.
BalanceKept ==
    PaperTrading => balance - Pending("slow") - Pending("fast") - sniping >= -OtherBuyers

IInv == /\ config \in Configs
        /\ WatchSound /\ BookSound /\ LoopsSound /\ TapeSound
        /\ PositionsShared /\ BalanceKept

-----------------------------------------------------------------------------
(* Counting.                                                               *)

LEMMA Settings ==
    ASSUME config \in Configs
    PROVE  /\ PaperTrading \in BOOLEAN /\ FastPolling \in BOOLEAN /\ ParallelBuys \in Nat
           /\ OtherBuyers = (IF FastPolling THEN 1 ELSE 0) + ParallelBuys
           /\ OtherBuyers \in Nat
BY SwingAssumption DEF PaperTrading, FastPolling, ParallelBuys, OtherBuyers

LEMMA SameSettings ==
    ASSUME config' = config
    PROVE  /\ PaperTrading' = PaperTrading /\ FastPolling' = FastPolling
           /\ ParallelBuys' = ParallelBuys /\ OtherBuyers' = OtherBuyers
BY DEF PaperTrading, FastPolling, ParallelBuys, OtherBuyers

LEMMA MintsFinite == ASSUME NEW S \in SUBSET Mints
                     PROVE  IsFiniteSet(S) /\ Cardinality(S) \in Nat
BY FS_Subset, FS_CardinalityType, SwingAssumption

LEMMA SwingFinite == IsFiniteSet(SwingPositions) /\ Cardinality(SwingPositions) \in Nat
BY MintsFinite DEF SwingPositions

\* Trading one mint opens at most one swing position.
LEMMA OneMoreSwing ==
    ASSUME NEW m \in Mints, \A n \in Mints \ {m} : positions'[n] = positions[n]
    PROVE  /\ Cardinality(SwingPositions') <= Cardinality(SwingPositions) + 1
           /\ positions'[m] # "swing" => Cardinality(SwingPositions') <= Cardinality(SwingPositions)
<1> DEFINE S == SwingPositions
           T == SwingPositions'
<1>1. IsFiniteSet(S) /\ Cardinality(S) \in Nat
    BY SwingFinite
<1>2. T \subseteq S \cup {m} /\ (positions'[m] # "swing" => T \subseteq S)
    BY DEF SwingPositions
<1>3. /\ IsFiniteSet(S \cup {m}) /\ Cardinality(S \cup {m}) <= Cardinality(S) + 1
      /\ Cardinality(S \cup {m}) \in Nat
    <2> HIDE DEF S
    <2>1. /\ IsFiniteSet(S \cup {m})
          /\ Cardinality(S \cup {m}) = IF m \in S THEN Cardinality(S) ELSE Cardinality(S) + 1
        BY <1>1, FS_AddElement
    <2>2. QED BY <1>1, <2>1
<1>4. IsFiniteSet(T) /\ Cardinality(T) \in Nat /\ Cardinality(T) <= Cardinality(S \cup {m})
    BY <1>2, <1>3, FS_Subset, FS_CardinalityType
<1>5. T \subseteq S => Cardinality(T) <= Cardinality(S)
    BY <1>1, FS_Subset
<1> HIDE DEF S, T
<1>6. QED BY <1>1, <1>2, <1>3, <1>4, <1>5 DEF S, T

LEMMA Buyers == Cardinality({l \in Loops : pc[l] = "buy"}) = Pending("slow") + Pending("fast")
<1> DEFINE B == {l \in Loops : pc[l] = "buy"}
<1>1. CASE pc["slow"] = "buy" /\ pc["fast"] = "buy"
    <2>1. B = {"slow"} \cup {"fast"}
        BY <1>1 DEF Loops
    <2>2. Cardinality({"slow"} \cup {"fast"}) = 2
        <3>1. IsFiniteSet({"slow"}) /\ Cardinality({"slow"}) = 1
            BY FS_Singleton
        <3>2. Cardinality({"slow"} \cup {"fast"})
                = IF "fast" \in {"slow"} THEN Cardinality({"slow"}) ELSE Cardinality({"slow"}) + 1
            BY <3>1, FS_AddElement
        <3>3. QED BY <3>1, <3>2
    <2>3. QED BY <1>1, <2>1, <2>2 DEF Pending
<1>2. CASE pc["slow"] = "buy" /\ pc["fast"] # "buy"
    <2>1. B = {"slow"}
        BY <1>2 DEF Loops
    <2>2. QED BY <1>2, <2>1, FS_Singleton DEF Pending
<1>3. CASE pc["slow"] # "buy" /\ pc["fast"] = "buy"
    <2>1. B = {"fast"}
        BY <1>3 DEF Loops
    <2>2. Cardinality({"fast"}) = 1
        BY FS_Singleton
    <2>3. QED BY <1>3, <2>1, <2>2 DEF Pending
<1>4. CASE pc["slow"] # "buy" /\ pc["fast"] # "buy"
    <2>1. B = {}
        BY <1>4 DEF Loops
    <2>2. QED BY <1>4, <2>1, FS_EmptySet DEF Pending
<1>5. QED BY <1>1, <1>2, <1>3, <1>4

-----------------------------------------------------------------------------
(* What the rest of a turn does: it ends, or it goes on to a purchase.     *)

Turned(l, opened, funds) ==
    /\ pc' = [pc EXCEPT ![l] = pc'[l]]
    /\ openSwing' = [openSwing EXCEPT ![l] = openSwing'[l]]
    /\ buying' = [buying EXCEPT ![l] = buying'[l]]
    /\ visited' \in [Loops -> SUBSET Mints]
    /\ \/ pc'[l] = "idle" /\ openSwing'[l] = 0 /\ buying'[l] = NoMint
       \/ /\ pc'[l] = "buy" /\ openSwing'[l] = opened /\ opened < MaxOpenPositions
          /\ buying'[l] \in Mints /\ Affords(funds)

LEMMA IdleTurns ==
    ASSUME LoopsSound, NEW l \in Loops, NEW opened, NEW funds,
           Idle(l), visited' \in [Loops -> SUBSET Mints]
    PROVE  Turned(l, opened, funds)
<1>1. /\ pc' = [pc EXCEPT ![l] = "idle"] /\ openSwing' = [openSwing EXCEPT ![l] = 0]
      /\ buying' = [buying EXCEPT ![l] = NoMint]
    BY DEF Idle
<1>2. pc'[l] = "idle" /\ openSwing'[l] = 0 /\ buying'[l] = NoMint
    BY <1>1 DEF LoopsSound
<1>3. QED BY <1>1, <1>2 DEF Turned

LEMMA Visits ==
    ASSUME NEW seen \in [Loops -> SUBSET Mints], NEW l \in Loops, NEW S \in SUBSET Mints
    PROVE  [seen EXCEPT ![l] = S] \in [Loops -> SUBSET Mints]
OBVIOUS

LEMMA ProceedTurns ==
    ASSUME LoopsSound, NEW l \in Loops, NEW items \in SUBSET Mints, NEW opened \in Nat,
           NEW seen \in [Loops -> SUBSET Mints], NEW funds,
           Proceed(l, items, opened, seen, funds)
    PROVE  Turned(l, opened, funds)
<1>1. CASE Idle(l) /\ visited' = [seen EXCEPT ![l] = {}]
    BY <1>1, Visits, IdleTurns
<1>2. CASE /\ ~Full(opened) /\ Affords(funds)
           /\ \E m \in items \ seen[l] : \E skipped \in SUBSET (items \ seen[l]) :
                  /\ visited' = [seen EXCEPT ![l] = @ \cup skipped \cup {m}]
                  /\ buying' = [buying EXCEPT ![l] = m]
           /\ pc' = [pc EXCEPT ![l] = "buy"]
           /\ openSwing' = [openSwing EXCEPT ![l] = opened]
    <2>1. PICK m \in items \ seen[l] : \E skipped \in SUBSET (items \ seen[l]) :
                  /\ visited' = [seen EXCEPT ![l] = @ \cup skipped \cup {m}]
                  /\ buying' = [buying EXCEPT ![l] = m]
        BY <1>2
    <2>2. PICK skipped \in SUBSET (items \ seen[l]) :
                  /\ visited' = [seen EXCEPT ![l] = @ \cup skipped \cup {m}]
                  /\ buying' = [buying EXCEPT ![l] = m]
        BY <2>1
    <2>3. visited' \in [Loops -> SUBSET Mints]
        <3>1. seen[l] \cup skipped \cup {m} \in SUBSET Mints
            BY <2>1, <2>2
        <3>2. visited' = [seen EXCEPT ![l] = seen[l] \cup skipped \cup {m}]
            BY <2>2
        <3>3. QED BY <3>1, <3>2, Visits
    <2>4. pc'[l] = "buy" /\ openSwing'[l] = opened /\ buying'[l] = m
        BY <1>2, <2>2 DEF LoopsSound
    <2>5. opened < MaxOpenPositions /\ Affords(funds)
        BY <1>2, SwingAssumption DEF Full
    <2>6. QED BY <1>2, <2>1, <2>2, <2>3, <2>4, <2>5 DEF Turned
<1>3. QED BY <1>1, <1>2 DEF Proceed

LEMMA ScanTurns ==
    ASSUME LoopsSound, NEW l \in Loops, NEW items \in SUBSET Mints,
           NEW seen \in [Loops -> SUBSET Mints], Scan(l, items, seen)
    PROVE  Turned(l, Cardinality(SwingPositions), balance)
<1>1. CASE Idle(l) /\ visited' = [seen EXCEPT ![l] = {}]
    BY <1>1, Visits, IdleTurns
<1>2. CASE Proceed(l, items, Cardinality(SwingPositions), seen, balance)
    BY <1>2, SwingFinite, ProceedTurns
<1>3. QED BY <1>1, <1>2 DEF Scan

LEMMA PastTyped ==
    ASSUME NEW seen \in [Loops -> SUBSET Mints], NEW gone
    PROVE  [k \in Loops |-> seen[k] \ gone] \in [Loops -> SUBSET Mints]
OBVIOUS

\* The loops' own values after a turn.
LEMMA LoopsKept ==
    ASSUME LoopsSound, config \in Configs, config' = config, NEW l \in Loops,
           NEW opened \in Nat, NEW funds,
           Turned(l, opened, funds), polled' \in [Loops -> SUBSET Mints],
           FastPolling \/ l # "fast"
    PROVE  /\ LoopsSound'
           /\ \A k \in Loops \ {l} : pc'[k] = pc[k] /\ openSwing'[k] = openSwing[k]
<1>1. pc'[l] \in {"idle", "buy"} /\ openSwing'[l] \in 0..MaxOpenPositions
      /\ buying'[l] \in Mints \cup {NoMint}
    BY SwingAssumption DEF Turned
<1>2. /\ pc' \in [Loops -> {"idle", "refresh", "poll", "buy"}]
      /\ openSwing' \in [Loops -> 0..MaxOpenPositions]
      /\ buying' \in [Loops -> Mints \cup {NoMint}]
    BY <1>1 DEF LoopsSound, Turned
<1>3. \A k \in Loops \ {l} : /\ pc'[k] = pc[k] /\ openSwing'[k] = openSwing[k]
                             /\ buying'[k] = buying[k]
    BY DEF LoopsSound, Turned
<1>4. pc'[l] = "buy" <=> buying'[l] # NoMint
    BY SwingAssumption DEF Turned
<1>5. pc'[l] = "buy" => openSwing'[l] < MaxOpenPositions
    BY DEF Turned
<1>6. \A k \in Loops : /\ pc'[k] = "buy" <=> buying'[k] # NoMint
                       /\ pc'[k] = "buy" => openSwing'[k] < MaxOpenPositions
    BY <1>3, <1>4, <1>5 DEF LoopsSound
<1>7. pc'["fast"] # "refresh" /\ (~FastPolling => pc'["fast"] = "idle")
    BY <1>1, <1>3 DEF LoopsSound, Loops
<1>8. FastPolling' = FastPolling
    BY SameSettings
<1>9. visited' \in [Loops -> SUBSET Mints]
    BY DEF Turned
<1>10. QED BY <1>2, <1>3, <1>6, <1>7, <1>8, <1>9 DEF LoopsSound

LEMMA SharesTyped ==
    ASSUME LoopsSound, config \in Configs
    PROVE  \A k \in Loops :
             /\ Share(k) \in 0..MaxOpenPositions /\ Pending(k) \in 0..1
             /\ pc[k] = "buy" => Share(k) = openSwing[k] /\ Pending(k) = 1
             /\ pc[k] # "buy" => Pending(k) = 0
             /\ pc[k] # "buy" /\ (FastPolling \/ k # "fast") => Share(k) = MaxOpenPositions
BY SwingAssumption DEF LoopsSound, Share, Pending, Loops

\* What is left when a buyer has a unit in sight, and when a step takes no more
\* than it gives.
LEMMA UnitInSight ==
    \A b \in Int, p, q, f \in 0..1, n \in Nat : \A s \in 0..n :
        b >= 1 /\ q <= f => b - p - q - s >= -(f + n)
OBVIOUS

LEMMA NoMoreTaken ==
    \A a, b, p, q, s, t, u, v, o \in Int :
        a - p - q - s >= -o /\ b - u - v - t >= a - p - q - s => b - u - v - t >= -o
OBVIOUS

LEMMA SameTaken ==
    \A a, b, p, q, s, t \in Int : b - t >= a - s => b - p - q - t >= a - p - q - s
OBVIOUS

LEMMA EitherOrder == \A a, p, q, s \in Int : a - p - q - s = a - q - p - s
OBVIOUS

\* The limits after a turn of l: it counted what is open, or went on counting
\* from the purchase it awaited, which may have come through.
LEMMA LimitsAfterTurn ==
    ASSUME IInv, config' = config, NEW l \in Loops, NEW opened \in Nat,
           Turned(l, opened, balance'), polled' \in [Loops -> SUBSET Mints],
           FastPolling \/ l # "fast", balance' \in Int,
           \/ UNCHANGED book /\ pc[l] # "buy" /\ opened = Cardinality(SwingPositions)
           \/ UNCHANGED book /\ pc[l] = "buy" /\ opened = openSwing[l]
           \/ /\ pc[l] = "buy" /\ opened = openSwing[l] + 1
              /\ Cardinality(SwingPositions') <= Cardinality(SwingPositions) + 1
              /\ PaperTrading => balance' = balance - 1
              /\ sniping' = sniping
    PROVE  PositionsShared' /\ BalanceKept'
<1> DEFINE S == Cardinality(SwingPositions)
           T == Cardinality(SwingPositions')
<1>1. LoopsSound' /\ \A k \in Loops \ {l} : pc'[k] = pc[k] /\ openSwing'[k] = openSwing[k]
    BY LoopsKept DEF IInv
<1>2. FastPolling' = FastPolling /\ PaperTrading' = PaperTrading /\ OtherBuyers' = OtherBuyers
    BY SameSettings
<1>3. PICK k \in Loops : k # l /\ Loops = {l, k}
    BY DEF Loops
<1>4. Share(k)' = Share(k) /\ Pending(k)' = Pending(k)
    BY <1>1, <1>2, <1>3 DEF Share, Pending
<1>5. /\ Share("slow") + Share("fast") = Share(l) + Share(k)
      /\ Share("slow")' + Share("fast")' = Share(l)' + Share(k)'
    <2>1. \A i \in Loops : Share(i) \in 0..MaxOpenPositions /\ Share(i)' \in 0..MaxOpenPositions
        <3>1. \A i \in Loops : Share(i) \in 0..MaxOpenPositions
            BY SharesTyped DEF IInv
        <3>2. \A i \in Loops : Share(i)' \in 0..MaxOpenPositions
            BY <1>1, SwingAssumption DEF LoopsSound, Share, Loops
        <3>3. QED BY <3>1, <3>2
    <2>2. MaxOpenPositions \in Nat
        BY SwingAssumption
    <2>3. CASE l = "slow" /\ k = "fast"
        BY <2>1, <2>2, <2>3, <1>3
    <2>4. CASE l = "fast" /\ k = "slow"
        BY <2>1, <2>2, <2>4, <1>3
    <2>5. QED BY <1>3, <2>3, <2>4 DEF Loops
<1>6. S \in Nat /\ Share(k) \in Nat /\ Pending(k) \in 0..1 /\ Share(l) \in 0..MaxOpenPositions
      /\ MaxOpenPositions \in Nat
    BY SwingFinite, SharesTyped, SwingAssumption DEF IInv
<1>7. T \in Nat
    BY SwingFinite, MintsFinite DEF SwingPositions
<1>11. /\ balance \in Int /\ sniping \in 0..ParallelBuys /\ ParallelBuys \in Nat
       /\ OtherBuyers = (IF FastPolling THEN 1 ELSE 0) + ParallelBuys /\ OtherBuyers \in Nat
       /\ sniping' = sniping
       /\ Pending(l) \in 0..1 /\ Pending(l)' \in 0..1 /\ Pending(k)' \in 0..1
    BY <1>4, <1>6, Settings, SharesTyped DEF IInv, BookSound, book, Pending
<1>12. PaperTrading => balance - Pending(l) - Pending(k) - sniping >= -OtherBuyers
    <2>1. CASE l = "slow" /\ k = "fast"
        BY <2>1 DEF IInv, BalanceKept
    <2>2. CASE l = "fast" /\ k = "slow"
        <3>1. balance - Pending(l) - Pending(k) - sniping = balance - Pending(k) - Pending(l) - sniping
            BY <1>6, <1>11, EitherOrder
        <3>2. QED BY <2>2, <3>1 DEF IInv, BalanceKept
    <2>3. QED BY <1>3, <2>1, <2>2 DEF Loops
<1>13. ASSUME PaperTrading => balance' - Pending(l)' - Pending(k)' - sniping' >= -OtherBuyers
       PROVE  BalanceKept'
    <2>1. CASE l = "slow" /\ k = "fast"
        BY <1>2, <1>13, <2>1 DEF BalanceKept
    <2>2. CASE l = "fast" /\ k = "slow"
        <3>1. balance' - Pending(l)' - Pending(k)' - sniping'
                = balance' - Pending(k)' - Pending(l)' - sniping'
            BY <1>11, EitherOrder
        <3>2. QED BY <1>2, <1>13, <2>2, <3>1 DEF BalanceKept
    <2>3. QED BY <1>3, <2>1, <2>2 DEF Loops
<1>8. CASE pc'[l] = "buy"
    <2>1. Share(l)' = opened /\ Pending(l)' = 1
        BY <1>8 DEF Turned, Share, Pending
    <2>2. T <= Share(l)' + Share(k)'
        <3>1. CASE UNCHANGED book /\ pc[l] # "buy" /\ opened = S
            BY <1>4, <1>6, <2>1, <3>1 DEF book, SwingPositions
        <3>2. CASE UNCHANGED book /\ pc[l] = "buy" /\ opened = openSwing[l]
            <4>1. Share(l) = openSwing[l] /\ T = S
                BY <3>2 DEF Share, book, SwingPositions
            <4>2. QED BY <1>4, <1>5, <2>1, <3>2, <4>1 DEF IInv, PositionsShared
        <3>3. CASE pc[l] = "buy" /\ opened = openSwing[l] + 1 /\ T <= S + 1
            <4>1. Share(l) = openSwing[l]
                BY <3>3 DEF Share
            <4>2. S <= Share(l) + Share(k)
                BY <1>5 DEF IInv, PositionsShared
            <4>3. QED BY <1>4, <1>6, <1>7, <2>1, <3>3, <4>1, <4>2
        <3>4. QED BY <3>1, <3>2, <3>3
    <2>3. PaperTrading => balance' >= 1
        BY <1>8 DEF Turned, Affords
    <2>4. Pending(k) <= (IF FastPolling THEN 1 ELSE 0)
        <3>1. ~FastPolling => k = "fast" /\ pc["fast"] = "idle"
            BY <1>3 DEF IInv, LoopsSound, Loops
        <3>2. ~FastPolling => Pending(k) = 0
            BY <3>1 DEF Pending
        <3>3. QED BY <3>2, <1>6
    <2>5. PaperTrading => balance' - Pending(l)' - Pending(k)' - sniping' >= -OtherBuyers
        <3> DEFINE f == IF FastPolling THEN 1 ELSE 0
        <3>1. f \in 0..1 /\ Pending(k)' <= f /\ OtherBuyers = f + ParallelBuys
            BY <1>4, <1>11, <2>4
        <3> HIDE DEF f
        <3>2. QED BY <1>11, <2>3, <3>1, UnitInSight
    <2>7. BalanceKept'
        BY <1>13, <2>5
    <2>8. PositionsShared'
        BY <1>5, <2>2 DEF PositionsShared
    <2>9. QED BY <2>7, <2>8
<1>9. CASE pc'[l] = "idle"
    <2>1. Share(l)' = MaxOpenPositions /\ Pending(l)' = 0
        BY <1>2, <1>9 DEF Share, Pending, Loops
    <2>2. S <= Share(l) + Share(k)
        BY <1>5 DEF IInv, PositionsShared
    <2>3. CASE UNCHANGED book
        <3>1. T = S /\ balance' = balance
            BY <2>3 DEF book, SwingPositions
        <3>2. T <= Share(l)' + Share(k)'
            BY <1>4, <1>6, <2>1, <2>2, <3>1
        <3>3. balance' - Pending(l)' - Pending(k)' - sniping' >= balance - Pending(l) - Pending(k) - sniping
            BY <1>4, <1>6, <1>11, <2>1, <3>1
        <3>4. PaperTrading => balance' - Pending(l)' - Pending(k)' - sniping' >= -OtherBuyers
            BY <1>6, <1>11, <1>12, <3>3, NoMoreTaken
        <3>5. BalanceKept'
            BY <1>13, <3>4
        <3>6. QED BY <1>5, <3>2, <3>5 DEF PositionsShared
    <2>4. CASE pc[l] = "buy" /\ T <= S + 1 /\ (PaperTrading => balance' = balance - 1)
        <3>1. Share(l) = openSwing[l] /\ openSwing[l] < MaxOpenPositions /\ Pending(l) = 1
            BY <2>4 DEF IInv, LoopsSound, Share, Pending
        <3>2. T <= Share(l)' + Share(k)'
            BY <1>4, <1>6, <1>7, <2>1, <2>2, <2>4, <3>1
        <3>3. PaperTrading => balance' - Pending(l)' - Pending(k)' - sniping'
                                >= balance - Pending(l) - Pending(k) - sniping
            BY <1>4, <1>6, <1>11, <2>1, <2>4, <3>1
        <3>4. PaperTrading => balance' - Pending(l)' - Pending(k)' - sniping' >= -OtherBuyers
            BY <1>6, <1>11, <1>12, <3>3, NoMoreTaken
        <3>5. BalanceKept'
            BY <1>13, <3>4
        <3>6. QED BY <1>5, <3>2, <3>5 DEF PositionsShared
    <2>5. QED BY <2>3, <2>4
<1>10. QED BY <1>8, <1>9 DEF Turned

-----------------------------------------------------------------------------
(* The parts a step leaves alone, or shrinks.                              *)

LEMMA WatchKept ==
    ASSUME WatchSound, config' = config, NEW gone, watchlist' = watchlist \ gone,
           NEW fast \in SUBSET watchlist, ~FastPolling => fast = {}, fastItems' = fast \ gone
    PROVE  WatchSound'
<1>1. watchlist' \subseteq Mints /\ fastItems' \subseteq watchlist'
    BY DEF WatchSound
<1>2. IsFiniteSet(watchlist) /\ Cardinality(watchlist) \in Nat /\ Cardinality(watchlist') \in Nat
    BY <1>1, MintsFinite DEF WatchSound
<1>3. Cardinality(watchlist') <= Cardinality(watchlist)
    BY <1>2, FS_Subset
<1>4. Cardinality(watchlist') <= WatchlistSize
    BY <1>2, <1>3, SwingAssumption DEF WatchSound
<1>5. QED BY <1>1, <1>4, SameSettings DEF WatchSound

LEMMA WatchSame == ASSUME WatchSound, config' = config, UNCHANGED watch PROVE WatchSound'
BY SameSettings DEF WatchSound, watch

LEMMA BookSame == ASSUME BookSound, config' = config, UNCHANGED book PROVE BookSound'
BY SameSettings DEF BookSound, book

LEMMA TapeSame == ASSUME TapeSound, UNCHANGED tape PROVE TapeSound'
BY DEF TapeSound, ListenersOwned, tape

LEMMA TapeUnsubscribed ==
    ASSUME TapeSound, NEW gone, Unsubscribe(gone), lookups' \in [Followed -> 0..MaxLookups]
    PROVE  TapeSound'
<1>1. controllers' = controllers \ gone
      /\ listeners' = [m \in Followed |-> IF m \in gone \cap controllers
                                          THEN listeners[m] - 1 ELSE listeners[m]]
    BY DEF Unsubscribe
<1>2. \A m \in Followed : listeners'[m] = IF m \in controllers' THEN 1 ELSE 0
    BY <1>1 DEF TapeSound, ListenersOwned
<1>3. listeners' \in [Followed -> Nat]
    <2>1. listeners' = [m \in Followed |-> listeners'[m]]
        BY <1>1
    <2>2. \A m \in Followed : listeners'[m] \in Nat
        BY <1>2
    <2>3. QED BY <2>1, <2>2
<1>4. QED BY <1>1, <1>2, <1>3 DEF TapeSound, ListenersOwned

\* The cap and the balance do not depend on where a loop is outside its buys.
LEMMA LimitsSame ==
    ASSUME IInv, config' = config, openSwing' = openSwing,
           \A k \in Loops : pc'[k] = "buy" <=> pc[k] = "buy",
           Cardinality(SwingPositions') <= Cardinality(SwingPositions),
           Cardinality(SwingPositions') \in Nat, balance' \in Int,
           sniping' \in 0..ParallelBuys,
           PaperTrading => balance' - sniping' >= balance - sniping \/ balance' >= 1
    PROVE  PositionsShared' /\ BalanceKept'
<1>1. FastPolling' = FastPolling /\ PaperTrading' = PaperTrading /\ OtherBuyers' = OtherBuyers
    BY SameSettings
<1>2. \A k \in Loops : Share(k)' = Share(k) /\ Pending(k)' = Pending(k)
    BY <1>1 DEF Share, Pending
<1>3. \A k \in Loops : Share(k) \in 0..MaxOpenPositions /\ Pending(k) \in 0..1
    BY SharesTyped DEF IInv
<1>4. MaxOpenPositions \in Nat /\ Cardinality(SwingPositions) \in Nat
    BY SwingAssumption, SwingFinite
<1>5. PositionsShared'
    <2>1. Cardinality(SwingPositions) <= Share("slow") + Share("fast")
        BY DEF IInv, PositionsShared
    <2>2. QED BY <1>2, <1>3, <1>4, <2>1 DEF PositionsShared, Loops
<1>6. BalanceKept'
    <2>1. Pending("slow")' = Pending("slow") /\ Pending("fast")' = Pending("fast")
          /\ Pending("slow") \in 0..1 /\ Pending("fast") \in 0..1
        BY <1>2, <1>3 DEF Loops
    <2>2. Pending("fast") <= (IF FastPolling THEN 1 ELSE 0)
        <3>1. ~FastPolling => Pending("fast") = 0
            BY DEF IInv, LoopsSound, Pending
        <3>2. QED BY <2>1, <3>1
    <2>3. /\ OtherBuyers = (IF FastPolling THEN 1 ELSE 0) + ParallelBuys
          /\ ParallelBuys \in Nat /\ sniping \in 0..ParallelBuys
        BY Settings DEF IInv, BookSound
    <2>4. /\ balance \in Int
          /\ PaperTrading => balance - Pending("slow") - Pending("fast") - sniping >= -OtherBuyers
        BY DEF IInv, BookSound, BalanceKept
    <2>5. ASSUME PaperTrading
          PROVE  balance' - Pending("slow") - Pending("fast") - sniping' >= -OtherBuyers
        <3> DEFINE f == IF FastPolling THEN 1 ELSE 0
                   ps == Pending("slow")
                   pf == Pending("fast")
        <3>1. f \in 0..1 /\ pf <= f /\ OtherBuyers = f + ParallelBuys /\ ps \in 0..1 /\ pf \in 0..1
            BY <2>1, <2>2, <2>3
        <3>2. OtherBuyers \in Int /\ balance - ps - pf - sniping >= -OtherBuyers
            BY <2>3, <2>4, <2>5
        <3> HIDE DEF f, ps, pf
        <3>3. CASE balance' - sniping' >= balance - sniping
            <4>1. /\ balance' \in Int /\ balance \in Int /\ ps \in Int /\ pf \in Int
                  /\ sniping \in Int /\ sniping' \in Int
                BY <2>3, <2>4, <3>1
            <4>2. balance' - ps - pf - sniping' >= balance - ps - pf - sniping
                BY <3>3, <4>1, SameTaken
            <4>3. balance' - ps - pf - sniping' >= -OtherBuyers
                <5>1. OtherBuyers \in Int /\ -OtherBuyers \in Int
                    BY <3>2
                <5>2. balance - ps - pf - sniping >= -OtherBuyers
                    BY <3>2
                <5> DEFINE had == balance - ps - pf - sniping
                           has == balance' - ps - pf - sniping'
                           owed == -OtherBuyers
                <5>3. had \in Int /\ has \in Int /\ owed \in Int
                    BY <4>1, <5>1
                <5>4. had >= owed /\ has >= had
                    BY <4>2, <5>2
                <5> HIDE DEF had, has, owed
                <5>5. has >= owed
                    BY <5>3, <5>4
                <5>6. QED BY <5>5 DEF has, owed
            <4>4. QED BY <4>3 DEF ps, pf
        <3>4. CASE balance' >= 1
            <4>1. balance' - ps - pf - sniping' >= -(f + ParallelBuys)
                BY <2>3, <3>1, <3>4, UnitInSight
            <4>2. QED BY <3>1, <4>1 DEF ps, pf
        <3>5. QED BY <2>5, <3>3, <3>4
    <2>6. QED BY <1>1, <2>1, <2>5 DEF BalanceKept, Pending
<1>7. QED BY <1>5, <1>6

LEMMA SamePositions ==
    ASSUME UNCHANGED positions
    PROVE  /\ Cardinality(SwingPositions') <= Cardinality(SwingPositions)
           /\ Cardinality(SwingPositions') \in Nat
<1>1. SwingPositions' = SwingPositions
    BY DEF SwingPositions
<1>2. QED BY <1>1, SwingFinite

-----------------------------------------------------------------------------
(* The slow loop.                                                          *)

LEMMA StartsKeep == ASSUME IInv, StartSlow \/ StartFast PROVE IInv'
<1>1. /\ config' = config /\ UNCHANGED watch /\ UNCHANGED book /\ UNCHANGED tape
      /\ UNCHANGED <<openSwing, buying, visited>>
    BY DEF StartSlow, StartFast
<1>2. /\ pc' \in [Loops -> {"idle", "refresh", "poll", "buy"}] /\ pc'["fast"] # "refresh"
      /\ \A k \in Loops : pc'[k] = "buy" <=> pc[k] = "buy"
      /\ ~FastPolling => pc'["fast"] = "idle"
      /\ polled' \in [Loops -> SUBSET Mints]
    <2>1. CASE StartSlow
        BY <2>1 DEF StartSlow, IInv, LoopsSound, Loops
    <2>2. CASE StartFast
        <3>1. /\ pc' = [pc EXCEPT !["fast"] = "poll"] /\ pc["fast"] = "idle" /\ fastItems # {}
              /\ polled' = [polled EXCEPT !["fast"] = fastItems]
            BY <2>2 DEF StartFast
        <3>2. FastPolling /\ fastItems \subseteq Mints
            BY <3>1 DEF IInv, WatchSound
        <3>3. QED BY <3>1, <3>2 DEF IInv, LoopsSound, Loops
    <2>3. QED BY <2>1, <2>2
<1>3. LoopsSound'
    BY <1>1, <1>2, SameSettings DEF IInv, LoopsSound
<1>4. PositionsShared' /\ BalanceKept'
    BY <1>1, <1>2, LimitsSame, SamePositions DEF book, IInv, BookSound
<1>5. QED BY <1>1, <1>3, <1>4, WatchSame, BookSame, TapeSame DEF IInv

LEMMA RefreshKeeps == ASSUME IInv, Refresh PROVE IInv'
<1> DEFINE Added == SUBSET {m \in Mints \ watchlist :
                               /\ positions[m] = "none"
                               /\ m \in Followed => lookups[m] < MaxLookups}
           Refreshed(added, evicted) ==
               /\ evicted \subseteq watchlist \cup added
               /\ LET overflow == Cardinality(watchlist \cup added) - WatchlistSize
                  IN  Cardinality(evicted) = IF overflow > 0 THEN overflow ELSE 0
               /\ watchlist' = (watchlist \cup added) \ evicted
               /\ fastItems' = fastItems \ evicted
               /\ visited' = Past(evicted)
               /\ lookups' = [m \in Followed |-> lookups[m] + IF m \in added THEN 1 ELSE 0]
               /\ Unsubscribe(evicted)
<1>1. /\ pc["slow"] = "refresh" /\ pc' = [pc EXCEPT !["slow"] = "poll"]
      /\ polled' = [polled EXCEPT !["slow"] = watchlist']
      /\ UNCHANGED <<book, openSwing, buying, config>>
      /\ \E added \in Added, evicted \in SUBSET Mints : Refreshed(added, evicted)
    BY DEF Refresh
<1>2. PICK added \in Added, evicted \in SUBSET Mints : Refreshed(added, evicted)
    BY <1>1
<1>3. WatchSound'
    <2> DEFINE all == watchlist \cup added
    <2>1. all \subseteq Mints /\ evicted \subseteq all
        BY <1>2 DEF IInv, WatchSound
    <2>2. IsFiniteSet(all) /\ Cardinality(all) \in Nat /\ Cardinality(evicted) \in Nat
        BY <2>1, MintsFinite
    <2>3. watchlist' = all \ evicted
        BY <1>2
    <2>4. Cardinality(all \ evicted) = Cardinality(all) - Cardinality(all \cap evicted)
        BY <2>2, FS_Difference
    <2>5. all \cap evicted = evicted
        BY <2>1
    <2>6. Cardinality(evicted) = IF Cardinality(all) - WatchlistSize > 0
                                 THEN Cardinality(all) - WatchlistSize ELSE 0
        BY <1>2
    <2> HIDE DEF all
    <2>7. Cardinality(watchlist') <= WatchlistSize
        <3>1. WatchlistSize \in Nat
            BY SwingAssumption
        <3>2. Cardinality(watchlist') = Cardinality(all) - Cardinality(evicted)
            BY <2>3, <2>4, <2>5
        <3>3. QED BY <2>2, <2>6, <3>1, <3>2
    <2>8. watchlist' \subseteq Mints
        BY <2>1, <2>3
    <2>9. fastItems' \subseteq watchlist' /\ (~FastPolling => fastItems' = {})
        BY <1>2 DEF IInv, WatchSound
    <2>10. QED BY <1>1, <2>7, <2>8, <2>9, SameSettings DEF WatchSound
<1>4. TapeSound'
    <2>1. lookups' \in [Followed -> 0..MaxLookups]
        <3>1. \A m \in Followed : lookups[m] + (IF m \in added THEN 1 ELSE 0) \in 0..MaxLookups
            BY <1>2, SwingAssumption DEF IInv, TapeSound
        <3>2. QED BY <1>2, <3>1
    <2>2. QED BY <1>2, <2>1, TapeUnsubscribed DEF IInv
<1>5. /\ pc' \in [Loops -> {"idle", "refresh", "poll", "buy"}]
      /\ \A k \in Loops : pc'[k] = "buy" <=> pc[k] = "buy"
      /\ pc'["fast"] = pc["fast"]
    BY <1>1 DEF IInv, LoopsSound, Loops
<1>6. LoopsSound'
    <2>1. visited' \in [Loops -> SUBSET Mints]
        BY <1>2, PastTyped DEF IInv, LoopsSound, Past
    <2>2. polled' \in [Loops -> SUBSET Mints]
        <3>1. watchlist' \in SUBSET Mints
            BY <1>3 DEF WatchSound
        <3>2. QED BY <1>1, <3>1, Visits DEF IInv, LoopsSound, Loops
    <2>3. QED BY <1>1, <1>5, <2>1, <2>2, SameSettings DEF IInv, LoopsSound
<1>7. PositionsShared' /\ BalanceKept'
    BY <1>1, <1>5, LimitsSame, SamePositions DEF book, IInv, BookSound
<1>8. QED BY <1>1, <1>3, <1>4, <1>6, <1>7, BookSame DEF IInv

\* Evicting and counting anew.
LEMMA EvictKeeps ==
    ASSUME IInv, pc["slow"] # "buy", NEW fast \in SUBSET watchlist, ~FastPolling => fast = {},
           EvictAndScan(watchlist, fast, visited),
           polled' = [polled EXCEPT !["slow"] = {}], UNCHANGED <<book, lookups, config>>
    PROVE  IInv'
<1>1. PICK aged \in SUBSET watchlist :
        LET gone == aged \cup {m \in watchlist : positions[m] # "none"}
        IN  /\ watchlist' = watchlist \ gone
            /\ fastItems' = fast \ gone
            /\ Unsubscribe(gone)
            /\ Scan("slow", watchlist \ gone, [k \in Loops |-> visited[k] \ gone])
    BY DEF EvictAndScan
<1> DEFINE gone == aged \cup {m \in watchlist : positions[m] # "none"}
           seen == [k \in Loops |-> visited[k] \ gone]
<1>2. /\ watchlist' = watchlist \ gone /\ fastItems' = fast \ gone /\ Unsubscribe(gone)
      /\ Scan("slow", watchlist \ gone, seen)
    BY <1>1
<1>3. watchlist \ gone \in SUBSET Mints /\ seen \in [Loops -> SUBSET Mints]
      /\ "slow" \in Loops /\ LoopsSound /\ polled' \in [Loops -> SUBSET Mints]
    <2>1. watchlist \ gone \in SUBSET Mints /\ "slow" \in Loops /\ LoopsSound
        BY DEF IInv, WatchSound, Loops
    <2>2. seen \in [Loops -> SUBSET Mints]
        BY <2>1, PastTyped DEF LoopsSound
    <2>3. QED BY <2>1, <2>2, Visits DEF LoopsSound
<1> HIDE DEF gone, seen
<1>4. Turned("slow", Cardinality(SwingPositions), balance)
    BY <1>2, <1>3, ScanTurns
<1>5. WatchSound'
    BY <1>2, WatchKept DEF IInv
<1>6. BookSound' /\ TapeSound'
    BY <1>2, BookSame, TapeUnsubscribed DEF IInv, TapeSound
<1>7. LoopsSound'
    BY <1>3, <1>4, SwingFinite, LoopsKept DEF IInv
<1>8. PositionsShared' /\ BalanceKept'
    <2>1. balance' = balance /\ balance' \in Int
        BY DEF book, IInv, BookSound
    <2>2. QED BY <1>3, <1>4, <2>1, SwingFinite, LimitsAfterTurn DEF book
<1>9. QED BY <1>5, <1>6, <1>7, <1>8 DEF IInv

LEMMA PollsSlowKeep == ASSUME IInv, PollSlow \/ PollFailsSlow PROVE IInv'
<1>1. CASE PollFailsSlow
    BY <1>1, EvictKeeps DEF PollFailsSlow, IInv, WatchSound
<1>2. CASE PollSlow
    <2>1. PICK fast \in Rearmed("slow", watchlist) : EvictAndScan(watchlist, fast, visited)
        BY <1>2 DEF PollSlow
    <2>2. fast \subseteq watchlist /\ (~FastPolling => fast = {})
        BY DEF Rearmed
    <2>3. QED BY <1>2, <2>1, <2>2, EvictKeeps DEF PollSlow
<1>3. QED BY <1>1, <1>2

-----------------------------------------------------------------------------
(* The fast loop, and what either loop may do.                             *)

LEMMA PollsFastKeep == ASSUME IInv, PollFast \/ PollFailsFast PROVE IInv'
<1>1. /\ pc["fast"] = "poll" /\ fastItems' \subseteq watchlist /\ (~FastPolling => fastItems' = {})
      /\ Scan("fast", fastItems', visited)
      /\ polled' = [polled EXCEPT !["fast"] = {}]
      /\ watchlist' = watchlist /\ UNCHANGED book /\ UNCHANGED tape /\ config' = config
    BY DEF PollFast, PollFailsFast, Rearmed, watch, IInv, WatchSound
<1>2. FastPolling /\ "fast" \in Loops /\ LoopsSound
    BY <1>1 DEF IInv, LoopsSound, Loops
<1>3. fastItems' \in SUBSET Mints /\ visited \in [Loops -> SUBSET Mints]
      /\ polled' \in [Loops -> SUBSET Mints]
    BY <1>1, <1>2, Visits DEF IInv, WatchSound, LoopsSound
<1>4. Turned("fast", Cardinality(SwingPositions), balance)
    BY <1>1, <1>2, <1>3, ScanTurns
<1>5. WatchSound'
    BY <1>1, SameSettings DEF IInv, WatchSound
<1>6. LoopsSound'
    BY <1>1, <1>2, <1>3, <1>4, SwingFinite, LoopsKept DEF IInv
<1>7. PositionsShared' /\ BalanceKept'
    <2>1. balance' = balance /\ balance' \in Int
        BY <1>1 DEF book, IInv, BookSound
    <2>2. QED BY <1>1, <1>2, <1>3, <1>4, <2>1, SwingFinite, LimitsAfterTurn
<1>8. QED BY <1>1, <1>5, <1>6, <1>7, BookSame, TapeSame DEF IInv

LEMMA PollThrowsKeeps == ASSUME IInv, NEW l \in Loops, PollThrows(l) PROVE IInv'
<1>1. /\ pc[l] = "poll" /\ fastItems' \subseteq watchlist /\ (~FastPolling => fastItems' = {})
      /\ Idle(l) /\ polled' = [polled EXCEPT ![l] = {}] /\ visited' = [visited EXCEPT ![l] = {}]
      /\ watchlist' = watchlist /\ UNCHANGED book /\ UNCHANGED tape /\ config' = config
    BY DEF PollThrows, Rearmed
<1>2. LoopsSound /\ polled' \in [Loops -> SUBSET Mints] /\ visited' \in [Loops -> SUBSET Mints]
      /\ (FastPolling \/ l # "fast")
    BY <1>1, Visits DEF IInv, LoopsSound
<1>3. Turned(l, Cardinality(SwingPositions), balance)
    BY <1>1, <1>2, IdleTurns
<1>4. WatchSound'
    BY <1>1, SameSettings DEF IInv, WatchSound
<1>5. LoopsSound'
    BY <1>1, <1>2, <1>3, SwingFinite, LoopsKept DEF IInv
<1>6. PositionsShared' /\ BalanceKept'
    <2>1. balance' = balance /\ balance' \in Int
        BY <1>1 DEF book, IInv, BookSound
    <2>2. QED BY <1>1, <1>2, <1>3, <2>1, SwingFinite, LimitsAfterTurn
<1>7. QED BY <1>1, <1>4, <1>5, <1>6, BookSame, TapeSame DEF IInv

LEMMA FilledKeeps == ASSUME IInv, NEW l \in Loops, Filled(l) PROVE IInv'
<1> DEFINE m == buying[l]
           funds == IF PaperTrading THEN balance - 1 ELSE balance
           items == (IF l = "fast" THEN fastItems ELSE watchlist) \ {m}
<1>1. /\ pc[l] = "buy" /\ positions' = [positions EXCEPT ![m] = "swing"]
      /\ lots' = [lots EXCEPT ![m] = lots[m] + 1]
      /\ balance' = funds
      /\ watchlist' = watchlist \ {m} /\ fastItems' = fastItems \ {m}
      /\ Proceed(l, items, openSwing[l] + 1, Past({m}), funds)
      /\ polled' = polled /\ sniping' = sniping /\ UNCHANGED tape /\ config' = config
    BY DEF Filled
<1>2. /\ m \in Mints /\ openSwing[l] \in Nat /\ openSwing[l] + 1 \in Nat
      /\ LoopsSound /\ polled' \in [Loops -> SUBSET Mints]
      /\ FastPolling \/ l # "fast"
    <2>1. m \in Mints
        BY <1>1 DEF IInv, LoopsSound
    <2>2. openSwing[l] \in Nat
        BY SwingAssumption DEF IInv, LoopsSound
    <2>3. QED BY <1>1, <2>1, <2>2 DEF IInv, LoopsSound
<1>3. items \in SUBSET Mints /\ Past({m}) \in [Loops -> SUBSET Mints]
    BY <1>2, PastTyped DEF IInv, WatchSound, LoopsSound, Past
<1>4. funds \in Int /\ balance' \in Int
    BY <1>1 DEF IInv, BookSound
<1> HIDE DEF m, items
<1>5. Turned(l, openSwing[l] + 1, balance')
    BY <1>1, <1>2, <1>3, ProceedTurns
<1>6. WatchSound'
    BY <1>1, WatchKept DEF IInv, WatchSound
<1>7. BookSound'
    <2>1. /\ positions' \in [Mints -> {"none", "swing", "sniper"}] /\ lots' \in [Mints -> Nat]
        BY <1>1, <1>2 DEF IInv, BookSound
    <2>2. \A n \in Mints : lots'[n] = 0 <=> positions'[n] = "none"
        BY <1>1, <1>2 DEF IInv, BookSound
    <2>3. sniping' \in 0..ParallelBuys'
        BY <1>1, SameSettings DEF IInv, BookSound
    <2>4. QED BY <1>4, <2>1, <2>2, <2>3 DEF BookSound
<1>8. LoopsSound'
    BY <1>1, <1>2, <1>5, LoopsKept DEF IInv
<1>9. PositionsShared' /\ BalanceKept'
    <2>1. \A n \in Mints \ {m} : positions'[n] = positions[n]
        BY <1>1, <1>2 DEF IInv, BookSound
    <2>2. Cardinality(SwingPositions') <= Cardinality(SwingPositions) + 1
        BY <1>2, <2>1, OneMoreSwing
    <2>3. PaperTrading => balance' = balance - 1
        BY <1>1
    <2>4. QED BY <1>1, <1>2, <1>4, <1>5, <2>2, <2>3, LimitsAfterTurn
<1>10. QED BY <1>1, <1>6, <1>7, <1>8, <1>9, TapeSame DEF IInv

LEMMA NotFilledKeeps == ASSUME IInv, NEW l \in Loops, NotFilled(l) PROVE IInv'
<1> DEFINE items == IF l = "fast" THEN fastItems ELSE watchlist
<1>1. /\ pc[l] = "buy" /\ Proceed(l, items, openSwing[l], visited, balance)
      /\ UNCHANGED watch /\ UNCHANGED book /\ polled' = polled /\ UNCHANGED tape
      /\ config' = config
    BY DEF NotFilled
<1>2. /\ openSwing[l] \in Nat /\ items \in SUBSET Mints
      /\ LoopsSound /\ visited \in [Loops -> SUBSET Mints] /\ polled' \in [Loops -> SUBSET Mints]
      /\ FastPolling \/ l # "fast"
    BY <1>1, SwingAssumption DEF IInv, LoopsSound, WatchSound
<1>3. balance' = balance /\ balance' \in Int
    BY <1>1 DEF book, IInv, BookSound
<1> HIDE DEF items
<1>4. Turned(l, openSwing[l], balance)
    BY <1>1, <1>2, ProceedTurns
<1>5. LoopsSound'
    BY <1>1, <1>2, <1>4, LoopsKept DEF IInv
<1>6. PositionsShared' /\ BalanceKept'
    BY <1>1, <1>2, <1>3, <1>4, LimitsAfterTurn
<1>7. QED BY <1>1, <1>5, <1>6, WatchSame, BookSame, TapeSame DEF IInv

-----------------------------------------------------------------------------
(* The surroundings.                                                       *)

LEMMA LoopSame == ASSUME LoopsSound, config' = config, UNCHANGED loop PROVE LoopsSound'
BY SameSettings DEF LoopsSound, loop

LEMMA LookupKeeps == ASSUME IInv, NEW m \in Followed, Listen(m) \/ NoPool(m) PROVE IInv'
<1>1. /\ lookups[m] > 0 /\ lookups' = [lookups EXCEPT ![m] = lookups[m] - 1]
      /\ UNCHANGED watch /\ UNCHANGED book /\ UNCHANGED loop /\ config' = config
      /\ \/ /\ listeners' = [listeners EXCEPT ![m] = listeners[m] - Replaced(m) + 1]
            /\ controllers' = controllers \cup {m}
         \/ UNCHANGED <<controllers, listeners>>
    BY DEF Listen, NoPool
<1>2. lookups' \in [Followed -> 0..MaxLookups]
    BY <1>1, SwingAssumption DEF IInv, TapeSound
<1>3. controllers' \subseteq Followed
    BY <1>1 DEF IInv, TapeSound
<1>4. \A n \in Followed : listeners'[n] = IF n \in controllers' THEN 1 ELSE 0
    BY <1>1 DEF IInv, TapeSound, ListenersOwned, Replaced
<1>5. listeners' \in [Followed -> Nat]
    <2>1. listeners' = [n \in Followed |-> listeners'[n]]
        BY <1>1 DEF IInv, TapeSound
    <2>2. \A n \in Followed : listeners'[n] \in Nat
        BY <1>4
    <2>3. QED BY <2>1, <2>2
<1>6. TapeSound'
    BY <1>2, <1>3, <1>4, <1>5 DEF TapeSound, ListenersOwned
<1>7. PositionsShared' /\ BalanceKept'
    BY <1>1, LimitsSame, SamePositions DEF book, loop, IInv, BookSound
<1>8. QED BY <1>1, <1>6, <1>7, WatchSame, BookSame, LoopSame DEF IInv

\* The scanner's buys and the monitor's sales: each buy found a unit, and its
\* debit, or its failure, takes back what it was counted for.
LEMMA TradesKeep == ASSUME IInv, NEW m \in Mints, SniperBuys(m) \/ Exit(m) PROVE IInv'
<1>1. /\ UNCHANGED watch /\ UNCHANGED loop /\ UNCHANGED tape /\ config' = config
      /\ \/ /\ positions' = [positions EXCEPT ![m] = "sniper"]
            /\ lots' = [lots EXCEPT ![m] = lots[m] + 1]
            /\ sniping > 0 /\ sniping' = sniping - 1
            /\ balance' = IF PaperTrading THEN balance - 1 ELSE balance
         \/ /\ positions' = [positions EXCEPT ![m] = "none"] /\ lots' = [lots EXCEPT ![m] = 0]
            /\ sniping' = sniping
            /\ balance' = balance \/ balance' = balance + 1
    <2>1. CASE SniperBuys(m)
        BY <2>1 DEF SniperBuys
    <2>2. CASE Exit(m)
        BY <2>2 DEF Exit
    <2>3. QED BY <2>1, <2>2
<1>2. /\ balance \in Int /\ positions \in [Mints -> {"none", "swing", "sniper"}]
      /\ lots \in [Mints -> Nat] /\ \A n \in Mints : lots[n] = 0 <=> positions[n] = "none"
      /\ sniping \in 0..ParallelBuys /\ ParallelBuys \in Nat /\ ParallelBuys' = ParallelBuys
    BY <1>1, Settings, SameSettings DEF IInv, BookSound
<1>3. BookSound'
    <2>1. positions' \in [Mints -> {"none", "swing", "sniper"}] /\ lots' \in [Mints -> Nat]
        BY <1>1, <1>2
    <2>2. \A n \in Mints : lots'[n] = 0 <=> positions'[n] = "none"
        BY <1>1, <1>2
    <2>3. balance' \in Int /\ sniping' \in 0..ParallelBuys'
        BY <1>1, <1>2
    <2>4. QED BY <2>1, <2>2, <2>3 DEF BookSound
<1>4. Cardinality(SwingPositions') <= Cardinality(SwingPositions)
    <2>1. \A n \in Mints \ {m} : positions'[n] = positions[n]
        BY <1>1, <1>2
    <2>2. positions'[m] # "swing"
        BY <1>1, <1>2
    <2>3. QED BY <2>1, <2>2, OneMoreSwing
<1>5. Cardinality(SwingPositions') \in Nat
    BY MintsFinite DEF SwingPositions
<1>6. /\ balance' \in Int /\ sniping' \in 0..ParallelBuys
      /\ PaperTrading => balance' - sniping' >= balance - sniping
    BY <1>1, <1>2
<1>7. PositionsShared' /\ BalanceKept'
    BY <1>1, <1>4, <1>5, <1>6, LimitsSame DEF loop
<1>8. QED BY <1>1, <1>3, <1>7, WatchSame, LoopSame, TapeSame DEF IInv

LEMMA SnipingKeeps == ASSUME IInv, SniperChecks \/ SniperFails PROVE IInv'
<1>1. /\ UNCHANGED watch /\ UNCHANGED loop /\ UNCHANGED tape /\ config' = config
      /\ UNCHANGED <<positions, lots, balance>>
      /\ \/ /\ sniping < ParallelBuys /\ sniping' = sniping + 1
            /\ PaperTrading => balance >= 1
         \/ sniping > 0 /\ sniping' = sniping - 1
    <2>1. CASE SniperChecks
        BY <2>1 DEF SniperChecks, Affords
    <2>2. CASE SniperFails
        BY <2>2 DEF SniperFails
    <2>3. QED BY <2>1, <2>2
<1>2. /\ balance \in Int /\ sniping \in 0..ParallelBuys /\ ParallelBuys \in Nat
      /\ ParallelBuys' = ParallelBuys
    BY <1>1, Settings, SameSettings DEF IInv, BookSound
<1>3. /\ balance' \in Int /\ sniping' \in 0..ParallelBuys
      /\ PaperTrading => balance' - sniping' >= balance - sniping \/ balance' >= 1
    BY <1>1, <1>2
<1>4. BookSound'
    BY <1>1, <1>2, <1>3 DEF IInv, BookSound
<1>5. PositionsShared' /\ BalanceKept'
    BY <1>1, <1>3, LimitsSame, SamePositions DEF loop
<1>6. QED BY <1>1, <1>4, <1>5, WatchSame, LoopSame, TapeSame DEF IInv

LEMMA StutterKeeps == ASSUME IInv, UNCHANGED vars PROVE IInv'
<1>1. UNCHANGED watch /\ UNCHANGED book /\ UNCHANGED loop /\ UNCHANGED tape /\ config' = config
    BY DEF vars
<1>2. PositionsShared' /\ BalanceKept'
    BY <1>1, LimitsSame, SamePositions DEF book, loop, IInv, BookSound
<1>3. QED BY <1>1, <1>2, WatchSame, BookSame, LoopSame, TapeSame DEF IInv

-----------------------------------------------------------------------------
(* The invariant, and the theorems.                                        *)

LEMMA InitSound == ASSUME Init PROVE IInv
<1>1. /\ config \in Configs /\ watchlist = {} /\ fastItems = {}
      /\ positions = [m \in Mints |-> "none"] /\ lots = [m \in Mints |-> 0]
      /\ balance = InitialBalance /\ sniping = 0
      /\ pc = [l \in Loops |-> "idle"] /\ polled = [l \in Loops |-> {}]
      /\ visited = [l \in Loops |-> {}] /\ openSwing = [l \in Loops |-> 0]
      /\ buying = [l \in Loops |-> NoMint]
      /\ lookups = [m \in Followed |-> 0] /\ controllers = {}
      /\ listeners = [m \in Followed |-> 0]
    BY DEF Init
<1>2. {MaxOpenPositions, InitialBalance, WatchlistSize, MaxLookups} \subseteq Nat
    BY SwingAssumption
<1>3. WatchSound
    BY <1>1, <1>2, FS_EmptySet DEF WatchSound
<1>4. BookSound
    BY <1>1, <1>2, Settings DEF BookSound
<1>5. LoopsSound
    BY <1>1, <1>2 DEF LoopsSound, Loops
<1>6. TapeSound
    BY <1>1, <1>2 DEF TapeSound, ListenersOwned
<1>7. PositionsShared
    <2>1. SwingPositions = {}
        BY <1>1 DEF SwingPositions
    <2>2. Cardinality(SwingPositions) = 0
        BY <2>1, FS_EmptySet
    <2>3. Share("slow") \in Nat /\ Share("fast") \in Nat
        BY <1>1, <1>2, <1>5, SharesTyped DEF Loops
    <2>4. QED BY <2>2, <2>3 DEF PositionsShared
<1>8. BalanceKept
    BY <1>1, <1>2, Settings DEF BalanceKept, Pending, Loops
<1>9. QED BY <1>1, <1>3, <1>4, <1>5, <1>6, <1>7, <1>8 DEF IInv

LEMMA IInvHolds == Spec => []IInv
<1>1. Init => IInv
    BY InitSound
<1>2. IInv /\ [Next]_vars => IInv'
    BY StartsKeep, RefreshKeeps, PollsSlowKeep, PollsFastKeep, PollThrowsKeeps, FilledKeeps,
       NotFilledKeeps, LookupKeeps, TradesKeep, SnipingKeeps, StutterKeeps DEF Next, Turn
<1>3. QED BY <1>1, <1>2, PTL DEF Spec

\* The loops' own values stay of their kind, a watched mint is polled within
\* the list's size, and every running swap-log listener is the one its
\* controller aborts (SwingTapeManager), for any number of mints.
THEOREM SwingIsConsistent == Spec => []Consistent
<1>1. IInv => Consistent
    BY DEF IInv, WatchSound, BookSound, LoopsSound, TapeSound, Consistent, TypeOK
<1>2. QED BY <1>1, IInvHolds, PTL

\* However the loops, the scanner and the monitor cross, the open swing
\* positions stay within twice SWING_MAX_OPEN_POSITIONS (once without fast
\* polling), and a paper balance is short of at most one entry for the fast loop
\* and one for each final audit of the scanner that may buy at the same time.
THEOREM SwingLimitsAreKept == Spec => []LimitsKept
<1>1. ASSUME IInv PROVE LimitsKept
    <2>1. /\ MaxOpenPositions \in Nat /\ Cardinality(SwingPositions) \in Nat
          /\ Share("slow") \in 0..MaxOpenPositions /\ Share("fast") \in 0..MaxOpenPositions
          /\ Pending("slow") \in 0..1 /\ Pending("fast") \in 0..1
        BY <1>1, SwingAssumption, SwingFinite, SharesTyped DEF IInv, Loops
    <2>2. ~FastPolling => Share("fast") = 0
        BY <1>1 DEF IInv, LoopsSound, Share
    <2>3. OvershootBounded
        BY <1>1, <2>1, <2>2 DEF IInv, PositionsShared, OvershootBounded
    <2>4. OverdraftBounded
        BY <1>1, <2>1, Buyers DEF IInv, BookSound, BalanceKept, OverdraftBounded
    <2>5. QED BY <2>3, <2>4 DEF LimitsKept
<1>2. QED BY <1>1, IInvHolds, PTL

==============================================================================
