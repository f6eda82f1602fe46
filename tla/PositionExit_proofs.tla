------------------------- MODULE PositionExit_proofs -------------------------
(***************************************************************************)
(* What holds of the life of a position for every number of streams, every *)
(* amount, ladder and reserved runner: exits and evaluations exclude each  *)
(* other, targets are sold in order, nothing is sold twice before a        *)
(* shutdown, and the runner stays in a paper wallet.                       *)
(***************************************************************************)
EXTENDS PositionExit, TLAPS

Positions == [balance : 0..Amount, targetsHit : Nat,
              zeroSince : {"never", "recent", "sustained"}]
Orders == [amount : 0..Amount, before : 0..Amount, reason : Reasons,
           target : Nat, protected : BOOLEAN, sold : BOOLEAN]
Places == {"idle", "read", "entering", "done"} \cup InEvaluation
Books == [landed : Nat, unbooked : Nat]

\* Where the shutdown may be, and what only happens live.
ShutdownPlaces == {"idle", "read", "returned", "done"} \cup InExit
LivePlaces == {"checking", "swapping", "settling"}

\* The shutdown asks for plain exits only, and nothing live happens on paper,
\* where the streams carry no balance.
PlacesSound ==
    /\ pc["shutdown"] \in ShutdownPlaces
    /\ order["shutdown"].reason = "full"
    /\ \A a \in Actors : pc[a] = "quoting" => PaperTrading
    /\ PaperTrading =>
          /\ \A a \in Actors : pc[a] \notin LivePlaces
          /\ ata \in {Unsubscribed, 0}
          /\ \A s \in Streams : pc[s] \in {"idle", "entering"} /\ seen[s] = 0

\* A sale in flight is of no more than its actor saw, less the runner for a
\* protected reason, and an awaited target is the first one not yet banked.
OrdersSound ==
    \A a \in Actors :
        /\ pc[a] \in {"quoting", "swapping", "settling"} => order[a].amount <= order[a].before
        /\ pc[a] = "quoting" /\ order[a].protected => order[a].amount + MoonBag <= order[a].before
        /\ pc[a] = "target" => order[a].target = pos.targetsHit + 1

\* The wallet covers what is on record, until a shutdown sells beside the tick.
Covered ==
    /\ ~PaperTrading => wallet \in 0..Amount
    /\ PaperTrading /\ pc["shutdown"] = "idle" =>
          /\ pos.balance <= wallet
          /\ pc["tick"] \in {"read", "entering"} => seen["tick"] <= wallet
          /\ pc["tick"] = "quoting" => order["tick"].before <= wallet

IInv == /\ TypeOK /\ ExitsExclusive /\ EvaluationsExclusive /\ PlacesSound
        /\ OrdersSound /\ TargetsInOrder /\ Covered

-----------------------------------------------------------------------------
(* Amounts.                                                                *)

LEMMA LesserOfTwo ==
    ASSUME NEW m \in Int, NEW n \in Int
    PROVE  Min({m, n}) = IF m <= n THEN m ELSE n
<1> DEFINE k == IF m <= n THEN m ELSE n
<1>1. k \in {m, n} /\ \A y \in {m, n} : k <= y
    OBVIOUS
<1>2. \A x \in {m, n} : (\A y \in {m, n} : x <= y) => x = k
    OBVIOUS
<1> HIDE DEF k
<1>3. Min({m, n}) = k
    BY <1>1, <1>2 DEF Min
<1>4. QED BY <1>3 DEF k

LEMMA GreaterOfTwo ==
    ASSUME NEW m \in Int, NEW n \in Int
    PROVE  Max({m, n}) = IF m >= n THEN m ELSE n
<1> DEFINE k == IF m >= n THEN m ELSE n
<1>1. k \in {m, n} /\ \A y \in {m, n} : k >= y
    OBVIOUS
<1>2. \A x \in {m, n} : (\A y \in {m, n} : x >= y) => x = k
    OBVIOUS
<1> HIDE DEF k
<1>3. Max({m, n}) = k
    BY <1>1, <1>2 DEF Max
<1>4. QED BY <1>3 DEF k

LEMMA Settings ==
    ASSUME config \in Configs
    PROVE  /\ Amount \in Nat \ {0} /\ MoonBag \in 0..Amount /\ TakeProfits \in Nat
           /\ PaperTrading \in BOOLEAN /\ ClosePositionsOnShutdown \in BOOLEAN
BY ConfigsAssumption DEF Amount, MoonBag, TakeProfits, PaperTrading, ClosePositionsOnShutdown

\* The cap keeps the reserved runner out of a sale for a protected reason.
LEMMA SellableIsCapped ==
    ASSUME config \in Configs, NEW p \in Positions, NEW amount \in 0..Amount,
           NEW reason \in Reasons
    PROVE  /\ Sellable(p, amount, reason) \in 0..Amount
           /\ MoonBag > 0 /\ Protected(reason, p.targetsHit) /\ Sellable(p, amount, reason) > 0
                => Sellable(p, amount, reason) + MoonBag <= p.balance
<1>1. Amount \in Nat /\ MoonBag \in Nat /\ p.balance \in Nat /\ amount \in Nat
    BY Settings DEF Positions
<1>2. CASE MoonBag = 0 \/ ~Protected(reason, p.targetsHit)
    BY <1>1, <1>2 DEF Sellable
<1>3. CASE ~(MoonBag = 0 \/ ~Protected(reason, p.targetsHit))
    <2> DEFINE free == Max({p.balance - MoonBag, 0})
    <2>1. free = IF p.balance - MoonBag >= 0 THEN p.balance - MoonBag ELSE 0
        BY <1>1, GreaterOfTwo
    <2>2. free \in Nat
        BY <1>1, <2>1
    <2> HIDE DEF free
    <2>3. Min({amount, free}) = IF amount <= free THEN amount ELSE free
        BY <1>1, <2>2, LesserOfTwo
    <2>4. Sellable(p, amount, reason) = Min({amount, free})
        BY <1>3 DEF Sellable, free
    <2>5. QED BY <1>1, <2>1, <2>2, <2>3, <2>4
<1>4. QED BY <1>2, <1>3

-----------------------------------------------------------------------------
(* What a step of actor a may do, in four parts, and that such steps keep  *)
(* the invariant.                                                          *)

TypedStep(a) ==
    /\ config' = config /\ held' \in BOOLEAN /\ ata' \in {ata, Unsubscribed}
    /\ closed' \in 0..2 /\ indexed' = indexed
    /\ pos' \in Positions /\ wallet' \in Int
    /\ pc' = [pc EXCEPT ![a] = pc'[a]] /\ pc'[a] \in Places
    /\ seen' = [seen EXCEPT ![a] = seen'[a]] /\ seen'[a] \in 0..Amount
    /\ order' = [order EXCEPT ![a] = order'[a]] /\ order'[a] \in Orders

\* The locks change hands exactly at the borders of exits and evaluations.
LockStep(a) ==
    /\ processing' \in BOOLEAN /\ evaluating' \in BOOLEAN
    /\ IF pc'[a] \in InExit
       THEN processing' /\ (pc[a] \in InExit \/ ~processing)
       ELSE IF pc[a] \in InExit THEN ~processing' ELSE processing' = processing
    /\ IF a = "shutdown" THEN evaluating' = evaluating
       ELSE IF pc'[a] \in InEvaluation
            THEN evaluating' /\ (pc[a] \in InEvaluation \/ ~evaluating)
            ELSE IF pc[a] \in InEvaluation THEN ~evaluating' ELSE evaluating' = evaluating

\* Only the sale of a target moves the ladder.
OrderStep(a) ==
    /\ pc'[a] \in {"quoting", "swapping", "settling"} => order'[a].amount <= order'[a].before
    /\ pc'[a] = "quoting" /\ order'[a].protected => order'[a].amount + MoonBag <= order'[a].before
    /\ pc'[a] = "target" => order'[a].target = pos'.targetsHit + 1
    /\ pc'[a] \in InExit /\ order'[a].reason = "take-profit"
         => order'[a].target = pos'.targetsHit + 1
    /\ pos'.targetsHit = pos.targetsHit
         \/ (pc[a] \in InExit /\ order[a].reason = "take-profit")
    /\ a = "shutdown" => /\ pc'[a] \in ShutdownPlaces \ {"idle"}
                         /\ order'[a].reason = "full"
    /\ pc'[a] = "quoting" => PaperTrading
    /\ PaperTrading => /\ pc'[a] \notin LivePlaces
                       /\ a \in Streams => pc'[a] \in {"idle", "entering"} /\ seen'[a] = 0

\* A landed take-profit sale of actor a that still has to be booked.
Owed(a) == IF pc[a] = "settling" THEN Rung(a) ELSE 0

\* The history moves with the ladder, and only under the lock of exits.
BookStep(a) ==
    /\ book' \in Books
    /\ \/ /\ book' = book /\ pos'.targetsHit = pos.targetsHit
          /\ pc[a] # "settling" /\ pc'[a] # "settling"
       \/ /\ pc[a] \in InExit
          /\ book'.landed - book'.unbooked - pos'.targetsHit - Owed(a)'
               = book.landed - book.unbooked - pos.targetsHit - Owed(a)

CoverStep ==
    /\ ~PaperTrading => wallet' \in 0..Amount
    /\ PaperTrading /\ pc["shutdown"] = "idle" /\ pc'["shutdown"] = "idle" =>
          /\ pos'.balance <= wallet'
          /\ pc'["tick"] \in {"read", "entering"} => seen'["tick"] <= wallet'
          /\ pc'["tick"] = "quoting" => order'["tick"].before <= wallet'

LEMMA ActorsOf == /\ "tick" \in Actors /\ "shutdown" \in Actors /\ "tick" \in Evaluators
                  /\ Streams \subseteq Evaluators /\ Evaluators \subseteq Actors
                  /\ "shutdown" \notin Evaluators /\ "tick" # "shutdown"
                  /\ \A a \in Actors : a = "shutdown" \/ a = "tick" \/ a \in Streams
                  /\ \A a \in Actors : a # "shutdown" => a \in Evaluators
BY StreamsAssumption DEF Actors, Evaluators

LEMMA SameSettings ==
    ASSUME config' = config
    PROVE  /\ Amount' = Amount /\ MoonBag' = MoonBag /\ TakeProfits' = TakeProfits
           /\ PaperTrading' = PaperTrading
BY DEF Amount, MoonBag, TakeProfits, PaperTrading

LEMMA TypesKept ==
    ASSUME TypeOK, NEW a \in Actors, TypedStep(a), LockStep(a), book' \in Books
    PROVE  TypeOK'
<1>1. Amount' = Amount
    BY SameSettings DEF TypedStep
<1>2. pc' \in [Actors -> Places] /\ seen' \in [Actors -> 0..Amount] /\ order' \in [Actors -> Orders]
    BY DEF TypeOK, TypedStep, Places, Orders
<1>3. /\ config' \in Configs /\ held' \in BOOLEAN /\ pos' \in Positions
      /\ evaluating' \in BOOLEAN /\ processing' \in BOOLEAN /\ wallet' \in Int
      /\ indexed' \in 0..Amount /\ ata' \in {Unsubscribed} \cup 0..Amount /\ closed' \in 0..2
    BY DEF TypeOK, TypedStep, LockStep
<1>4. QED BY <1>1, <1>2, <1>3 DEF TypeOK, Places, Orders, Positions, Books

LEMMA OnlyOwn ==
    ASSUME TypeOK, NEW a \in Actors, TypedStep(a)
    PROVE  \A b \in Actors \ {a} :
             pc'[b] = pc[b] /\ seen'[b] = seen[b] /\ order'[b] = order[b]
BY DEF TypeOK, TypedStep

LEMMA ExclusionKept ==
    ASSUME TypeOK, ExitsExclusive, EvaluationsExclusive, NEW a \in Actors,
           TypedStep(a), LockStep(a)
    PROVE  ExitsExclusive' /\ EvaluationsExclusive'
<1>1. \A b \in Actors \ {a} : pc'[b] = pc[b]
    BY OnlyOwn
<1>2. ExitsExclusive'
    <2>1. processing \in BOOLEAN /\ processing' \in BOOLEAN
        BY DEF TypeOK, LockStep
    <2>2. CASE pc'[a] \in InExit
        <3>1. \A b \in Actors : pc'[b] \in InExit => b = a
            BY <1>1, <2>2 DEF LockStep, ExitsExclusive
        <3>2. processing'
            BY <2>2 DEF LockStep
        <3>3. QED BY <2>2, <3>1, <3>2 DEF ExitsExclusive
    <2>3. CASE pc'[a] \notin InExit /\ pc[a] \in InExit
        <3>1. \A b \in Actors : pc'[b] \notin InExit
            BY <1>1, <2>3 DEF ExitsExclusive
        <3>2. ~processing'
            BY <2>3 DEF LockStep
        <3>3. QED BY <3>1, <3>2 DEF ExitsExclusive
    <2>4. CASE pc'[a] \notin InExit /\ pc[a] \notin InExit
        <3>1. \A b \in Actors : pc'[b] \in InExit <=> pc[b] \in InExit
            BY <1>1, <2>4
        <3>2. processing' = processing
            BY <2>4 DEF LockStep
        <3>3. QED BY <3>1, <3>2 DEF ExitsExclusive
    <2>5. QED BY <2>2, <2>3, <2>4
<1>3. EvaluationsExclusive'
    <2>1. CASE a = "shutdown"
        <3>1. evaluating' = evaluating /\ \A b \in Evaluators : pc'[b] = pc[b]
            BY <1>1, <2>1, ActorsOf DEF LockStep
        <3>2. QED BY <3>1 DEF EvaluationsExclusive
    <2>2. CASE a # "shutdown" /\ pc'[a] \in InEvaluation
        <3>1. \A b \in Evaluators : pc'[b] \in InEvaluation => b = a
            BY <1>1, <2>2, ActorsOf DEF LockStep, EvaluationsExclusive
        <3>2. evaluating'
            BY <2>2 DEF LockStep
        <3>3. QED BY <2>2, <3>1, <3>2, ActorsOf DEF EvaluationsExclusive
    <2>3. CASE a # "shutdown" /\ pc'[a] \notin InEvaluation /\ pc[a] \in InEvaluation
        <3>1. \A b \in Evaluators : pc'[b] \notin InEvaluation
            BY <1>1, <2>3, ActorsOf DEF EvaluationsExclusive
        <3>2. ~evaluating'
            BY <2>3 DEF LockStep
        <3>3. QED BY <3>1, <3>2 DEF EvaluationsExclusive
    <2>4. CASE a # "shutdown" /\ pc'[a] \notin InEvaluation /\ pc[a] \notin InEvaluation
        <3>1. \A b \in Evaluators : pc'[b] \in InEvaluation <=> pc[b] \in InEvaluation
            BY <1>1, <2>4, ActorsOf
        <3>2. evaluating' = evaluating
            BY <2>4 DEF LockStep
        <3>3. QED BY <3>1, <3>2 DEF EvaluationsExclusive
    <2>5. QED BY <2>1, <2>2, <2>3, <2>4
<1>4. QED BY <1>2, <1>3

\* While one actor has an exit in flight no other awaits a target: it would
\* be in an evaluation too, and the shutdown sells no targets.
LEMMA LadderOwned ==
    ASSUME IInv, NEW a \in Actors, pc[a] \in InExit, order[a].reason = "take-profit",
           NEW b \in Actors \ {a}
    PROVE  pc[b] \notin InExit /\ pc[b] # "target"
<1>1. a # "shutdown"
    BY DEF IInv, PlacesSound
<1>2. pc[b] \notin InExit
    BY DEF IInv, ExitsExclusive
<1>3. CASE b = "shutdown"
    BY <1>2, <1>3 DEF IInv, PlacesSound, ShutdownPlaces, InExit
<1>4. CASE b # "shutdown"
    <2>1. a \in Evaluators /\ b \in Evaluators /\ pc[a] \in InEvaluation
        BY <1>1, <1>4, ActorsOf DEF InEvaluation
    <2>2. pc[b] \notin InEvaluation
        BY <2>1 DEF IInv, EvaluationsExclusive
    <2>3. QED BY <1>2, <2>2 DEF InEvaluation
<1>5. QED BY <1>2, <1>3, <1>4

\* While one actor has an exit in flight, what is owed to the ladder is its.
LEMMA OwedAlone ==
    ASSUME ExitsExclusive, NEW a \in Actors, pc[a] \in InExit
    PROVE  (IF Unsettled = {} THEN 0 ELSE 1) = Owed(a)
<1>1. \A b \in Unsettled : b = a
    BY DEF Unsettled, ExitsExclusive, InExit
<1>2. Unsettled = {} \/ Unsettled = {a}
    BY <1>1
<1>3. a \in Unsettled <=> pc[a] = "settling" /\ order[a].reason = "take-profit"
    BY DEF Unsettled
<1>4. QED BY <1>2, <1>3 DEF Owed, Rung

LEMMA BookKept ==
    ASSUME IInv, NEW a \in Actors, TypedStep(a), LockStep(a), BookStep(a), ExitsExclusive'
    PROVE  book'.landed = pos'.targetsHit + book'.unbooked
                            + (IF Unsettled' = {} THEN 0 ELSE 1)
<1> DEFINE due == IF Unsettled = {} THEN 0 ELSE 1
           dueNext == IF Unsettled' = {} THEN 0 ELSE 1
<1>1. \A b \in Actors \ {a} : pc'[b] = pc[b] /\ order'[b] = order[b]
    BY OnlyOwn DEF IInv
<1>2. /\ book \in Books /\ book' \in Books /\ pos \in Positions /\ pos' \in Positions
      /\ book.landed = pos.targetsHit + book.unbooked + due
    BY DEF IInv, TypeOK, Books, Positions, TypedStep, BookStep, TargetsInOrder
<1>3. CASE /\ book' = book /\ pos'.targetsHit = pos.targetsHit
           /\ pc[a] # "settling" /\ pc'[a] # "settling"
    <2>1. Unsettled' = Unsettled
        BY <1>1, <1>3 DEF Unsettled
    <2>2. QED BY <1>2, <1>3, <2>1
<1>4. CASE /\ pc[a] \in InExit
           /\ book'.landed - book'.unbooked - pos'.targetsHit - Owed(a)'
                = book.landed - book.unbooked - pos.targetsHit - Owed(a)
    <2>1. due = Owed(a)
        BY <1>4, OwedAlone DEF IInv
    <2>2. dueNext = Owed(a)'
        <3>1. \A b \in Actors \ {a} : pc'[b] \notin InExit
            BY <1>1, <1>4 DEF IInv, ExitsExclusive
        <3>2. Unsettled' \subseteq {a}
            BY <3>1 DEF Unsettled, InExit
        <3>3. a \in Unsettled' <=> pc'[a] = "settling" /\ order'[a].reason = "take-profit"
            BY DEF Unsettled
        <3>4. Owed(a)' = IF pc'[a] = "settling" /\ order'[a].reason = "take-profit" THEN 1 ELSE 0
            BY DEF Owed, Rung
        <3>5. QED BY <3>2, <3>3, <3>4
    <2>3. due \in {0, 1} /\ dueNext \in {0, 1}
        OBVIOUS
    <2> HIDE DEF due, dueNext
    <2>4. /\ book.landed \in Nat /\ book.unbooked \in Nat /\ pos.targetsHit \in Nat
          /\ book'.landed \in Nat /\ book'.unbooked \in Nat /\ pos'.targetsHit \in Nat
        BY <1>2 DEF Books, Positions
    <2>5. book'.landed = pos'.targetsHit + book'.unbooked + dueNext
        BY <1>2, <1>4, <2>1, <2>2, <2>3, <2>4
    <2>6. QED BY <2>5 DEF dueNext
<1>5. QED BY <1>3, <1>4 DEF BookStep

LEMMA StepKeeps ==
    ASSUME IInv, NEW a \in Actors, TypedStep(a), LockStep(a), OrderStep(a), BookStep(a), CoverStep
    PROVE  IInv'
<1>1. TypeOK' /\ ExitsExclusive' /\ EvaluationsExclusive'
    BY TypesKept, ExclusionKept DEF IInv, BookStep
<1>2. \A b \in Actors \ {a} : pc'[b] = pc[b] /\ seen'[b] = seen[b] /\ order'[b] = order[b]
    BY OnlyOwn DEF IInv
<1>3. /\ Amount' = Amount /\ MoonBag' = MoonBag /\ PaperTrading' = PaperTrading
    BY SameSettings DEF TypedStep
<1>4. PlacesSound'
    <2>1. pc'["shutdown"] \in ShutdownPlaces /\ order'["shutdown"].reason = "full"
        BY <1>2, ActorsOf DEF IInv, PlacesSound, OrderStep
    <2>2. ASSUME PaperTrading
          PROVE  /\ \A b \in Actors : pc'[b] \notin LivePlaces
                 /\ ata' \in {Unsubscribed, 0}
                 /\ \A s \in Streams : pc'[s] \in {"idle", "entering"} /\ seen'[s] = 0
        <3>1. ata' \in {Unsubscribed, 0}
            BY <2>2 DEF IInv, PlacesSound, TypedStep
        <3>2. \A b \in Actors : pc'[b] \notin LivePlaces
            BY <1>2, <2>2 DEF IInv, PlacesSound, OrderStep
        <3>3. \A s \in Streams : pc'[s] \in {"idle", "entering"} /\ seen'[s] = 0
            BY <1>2, <2>2, ActorsOf DEF IInv, PlacesSound, OrderStep
        <3>4. QED BY <3>1, <3>2, <3>3
    <2>3. \A b \in Actors : pc'[b] = "quoting" => PaperTrading
        BY <1>2 DEF IInv, PlacesSound, OrderStep
    <2>4. QED BY <2>1, <2>2, <2>3, <1>3 DEF PlacesSound
<1>5. ASSUME NEW b \in Actors \ {a}, 
             (pc[b] \in InExit /\ order[b].reason = "take-profit") \/ pc[b] = "target"
      PROVE  pos'.targetsHit = pos.targetsHit
    BY <1>5, LadderOwned DEF OrderStep
<1>6. OrdersSound'
    <2> SUFFICES ASSUME NEW b \in Actors PROVE OrdersSound!(b)'
        BY DEF OrdersSound
    <2>1. CASE b = a
        BY <2>1, <1>3 DEF OrderStep
    <2>2. CASE b # a
        BY <2>2, <1>2, <1>3, <1>5 DEF IInv, OrdersSound
    <2>3. QED BY <2>1, <2>2
<1>7. TargetsInOrder'
    <2>1. ASSUME NEW b \in Actors, pc'[b] \in InExit, order'[b].reason = "take-profit"
          PROVE  order'[b].target = pos'.targetsHit + 1
        <3>1. CASE b = a
            BY <2>1, <3>1 DEF OrderStep
        <3>2. CASE b # a
            BY <2>1, <3>2, <1>2, <1>5 DEF IInv, TargetsInOrder
        <3>3. QED BY <3>1, <3>2
    <2>2. QED BY <1>1, <2>1, BookKept DEF TargetsInOrder
<1>8. Covered'
    <2>1. pc'["shutdown"] = "idle" => pc["shutdown"] = "idle"
        BY <1>2, ActorsOf DEF OrderStep
    <2>2. QED BY <2>1, <1>3 DEF Covered, CoverStep
<1>9. QED BY <1>1, <1>4, <1>6, <1>7, <1>8 DEF IInv

-----------------------------------------------------------------------------
(* Sales.  A sale is begun by an actor with no exit in flight, of the      *)
(* position p it has just brought up to date.                              *)

\* What both ways into the executor leave behind.
Begun(a, p, reason, target) ==
    /\ pos' = p
    /\ order' = [order EXCEPT ![a] = order'[a]] /\ order'[a] \in Orders
    /\ order'[a].reason = reason
    /\ pc' = [pc EXCEPT ![a] = pc'[a]]
    /\ \/ pc'[a] = "returned" /\ processing' = processing
       \/ /\ ~processing /\ processing'
          /\ pc'[a] = IF PaperTrading THEN "quoting" ELSE "checking"
          /\ order'[a].before = p.balance /\ order'[a].target = target
          /\ PaperTrading => order'[a].amount <= p.balance
          /\ PaperTrading /\ order'[a].protected => order'[a].amount + MoonBag <= p.balance

LEMMA StartExitBegins ==
    ASSUME TypeOK, NEW a \in Actors, NEW p \in Positions, NEW amount \in 0..Amount,
           NEW reason \in Reasons, NEW target \in Nat, StartExit(a, p, amount, reason, target)
    PROVE  Begun(a, p, reason, target) /\ closed' = closed
<1> DEFINE sell == Sellable(p, amount, reason)
           sold == IF PaperTrading THEN Min({sell, p.balance}) ELSE sell
           asked == [amount |-> sold, before |-> p.balance, reason |-> reason,
                     target |-> target, protected |-> MoonBag > 0 /\ Protected(reason, p.targetsHit),
                     sold |-> FALSE]
<1>1. /\ sell \in 0..Amount
      /\ MoonBag > 0 /\ Protected(reason, p.targetsHit) /\ sell > 0 => sell + MoonBag <= p.balance
    BY SellableIsCapped DEF TypeOK
<1>2. Amount \in Nat /\ MoonBag \in Nat /\ p.balance \in 0..Amount
    BY Settings DEF TypeOK, Positions
<1>3. /\ pos' = p /\ order' = [order EXCEPT ![a] = asked] /\ closed' = closed
      /\ \/ pc' = [pc EXCEPT ![a] = "returned"] /\ processing' = processing
         \/ /\ sell > 0 /\ ~processing /\ processing' = TRUE
            /\ pc' = [pc EXCEPT ![a] = IF PaperTrading THEN "quoting" ELSE "checking"]
    BY DEF StartExit, Suspend, Locked
<1> HIDE DEF sell
<1>4. PaperTrading => sold = IF sell <= p.balance THEN sell ELSE p.balance
    BY <1>1, <1>2, LesserOfTwo
<1>5. sold \in 0..Amount /\ (PaperTrading => sold <= p.balance /\ sold <= sell)
    BY <1>1, <1>2, <1>4
<1> HIDE DEF sold
<1>6. asked.protected \in BOOLEAN /\ (MoonBag > 0 /\ Protected(reason, p.targetsHit)) \in BOOLEAN
    BY DEF Protected
<1>7. asked \in Orders
    BY <1>2, <1>5, <1>6 DEF Orders
<1>8. order \in [Actors -> Orders] /\ pc \in [Actors -> Places]
    BY DEF TypeOK, Orders, Places
<1>9. order'[a] = asked
    BY <1>3, <1>8
<1>10. PaperTrading /\ asked.protected /\ sell > 0 => asked.amount + MoonBag <= p.balance
    <2>1. asked.protected => MoonBag > 0 /\ Protected(reason, p.targetsHit)
        OBVIOUS
    <2>2. asked.amount = sold
        OBVIOUS
    <2> HIDE DEF asked
    <2>3. QED BY <1>1, <1>2, <1>5, <2>1, <2>2
<1>11. /\ asked.before = p.balance /\ asked.target = target /\ asked.reason = reason
       /\ PaperTrading => asked.amount <= p.balance
    BY <1>5
<1> HIDE DEF asked
<1>12. CASE pc' = [pc EXCEPT ![a] = "returned"] /\ processing' = processing
    BY <1>3, <1>7, <1>8, <1>9, <1>11, <1>12 DEF Begun
<1>13. CASE /\ sell > 0 /\ ~processing /\ processing' = TRUE
            /\ pc' = [pc EXCEPT ![a] = IF PaperTrading THEN "quoting" ELSE "checking"]
    <2>1. pc'[a] = IF PaperTrading THEN "quoting" ELSE "checking"
        BY <1>8, <1>13
    <2>2. pc' = [pc EXCEPT ![a] = pc'[a]]
        BY <1>13, <2>1
    <2>3. order' = [order EXCEPT ![a] = order'[a]]
        BY <1>3, <1>9
    <2>4. QED BY <1>3, <1>7, <1>9, <1>10, <1>11, <1>13, <2>1, <2>2, <2>3 DEF Begun
<1>14. QED BY <1>3, <1>12, <1>13

LEMMA StartExitOfNothingBegins ==
    ASSUME TypeOK, NEW a \in Actors, NEW p \in Positions, NEW amount \in 0..Amount,
           NEW reason \in Reasons, NEW target, StartExitOfNothing(a, p, amount, reason)
    PROVE  /\ Begun(a, p, reason, target)
           /\ held' = FALSE /\ ata' = Unsubscribed /\ closed' \in 0..2
<1> DEFINE asked == [NoOrder EXCEPT !.reason = reason]
<1>1. /\ pos' = p /\ order' = [order EXCEPT ![a] = asked] /\ processing' = processing
      /\ pc' = [pc EXCEPT ![a] = "returned"] /\ held' = FALSE /\ ata' = Unsubscribed
      /\ closed' = IF closed < 2 THEN closed + 1 ELSE closed
    BY DEF StartExitOfNothing, Suspend, Remove, RecordClosedTrade
<1>2. Amount \in Nat
    BY Settings DEF TypeOK
<1>3. asked \in Orders /\ asked.reason = reason
    <2>1. NoOrder \in Orders
        BY <1>2 DEF NoOrder, Orders, Reasons
    <2>2. QED BY <2>1 DEF Orders
<1> HIDE DEF asked
<1>4. order \in [Actors -> Orders] /\ pc \in [Actors -> Places]
    BY DEF TypeOK, Orders, Places
<1>5. order'[a] = asked /\ pc'[a] = "returned"
    BY <1>1, <1>4
<1>6. closed' \in 0..2
    BY <1>1 DEF TypeOK
<1>7. QED BY <1>1, <1>3, <1>5, <1>6 DEF Begun

LEMMA BegunKeeps ==
    ASSUME IInv, NEW a \in Actors, pc[a] \notin InExit,
           NEW p \in Positions, p.targetsHit = pos.targetsHit,
           NEW reason \in Reasons, NEW target \in Nat, Begun(a, p, reason, target),
           config' = config, wallet' = wallet, indexed' = indexed, seen' = seen, book' = book,
           held' \in BOOLEAN, ata' \in {ata, Unsubscribed}, closed' \in 0..2,
           evaluating' = IF a = "shutdown" THEN evaluating ELSE TRUE,
           a # "shutdown" => pc[a] \in InEvaluation \/ ~evaluating,
           a = "shutdown" => reason = "full",
           reason = "take-profit" => target = pos.targetsHit + 1,
           PaperTrading => a \notin Streams,
           PaperTrading /\ pc["shutdown"] = "idle" /\ pc'["shutdown"] = "idle"
             => p.balance <= wallet
    PROVE  IInv'
<1>1. /\ evaluating \in BOOLEAN /\ processing \in BOOLEAN /\ wallet \in Int
      /\ seen \in [Actors -> 0..Amount] /\ pc \in [Actors -> Places]
    BY DEF IInv, TypeOK, Places
<1>2. pc'[a] \in {"returned", "quoting", "checking"}
    BY DEF Begun
<1>3. TypedStep(a)
    <2>1. seen' = [seen EXCEPT ![a] = seen'[a]] /\ seen'[a] \in 0..Amount
        BY <1>1
    <2>2. QED BY <1>1, <1>2, <2>1 DEF TypedStep, Begun, Places, InEvaluation, InExit
<1>4. LockStep(a)
    <2>1. pc'[a] \in InEvaluation
        BY <1>2 DEF InEvaluation, InExit
    <2>2. pc'[a] \in InExit <=> pc'[a] # "returned"
        BY <1>2 DEF InExit
    <2>3. processing' \in BOOLEAN /\ evaluating' \in BOOLEAN
        BY <1>1 DEF Begun
    <2>4. IF pc'[a] \in InExit THEN processing' /\ ~processing ELSE processing' = processing
        BY <2>2 DEF Begun, InExit
    <2>5. QED BY <2>1, <2>3, <2>4 DEF LockStep
<1>5. OrderStep(a)
    <2>1. pc'[a] = "quoting" => /\ PaperTrading /\ order'[a].amount <= order'[a].before
                                /\ order'[a].protected => order'[a].amount + MoonBag <= order'[a].before
        BY DEF Begun
    <2>2. pc'[a] \in InExit /\ order'[a].reason = "take-profit"
            => order'[a].target = pos'.targetsHit + 1
        BY DEF Begun, InExit
    <2>3. pos'.targetsHit = pos.targetsHit
        BY DEF Begun
    <2>4. a = "shutdown" => pc'[a] \in ShutdownPlaces \ {"idle"} /\ order'[a].reason = "full"
        BY <1>2 DEF Begun, ShutdownPlaces, InExit
    <2>5. PaperTrading => pc'[a] \notin LivePlaces
        BY DEF Begun, LivePlaces
    <2>6. QED BY <1>2, <2>1, <2>2, <2>3, <2>4, <2>5 DEF OrderStep
<1>6. CoverStep
    <2>1. ~PaperTrading => wallet' \in 0..Amount
        BY DEF IInv, Covered
    <2>2. ASSUME PaperTrading, pc["shutdown"] = "idle", pc'["shutdown"] = "idle"
          PROVE  /\ pos'.balance <= wallet'
                 /\ pc'["tick"] \in {"read", "entering"} => seen'["tick"] <= wallet'
                 /\ pc'["tick"] = "quoting" => order'["tick"].before <= wallet'
        <3>1. pos'.balance <= wallet'
            BY <2>2 DEF Begun
        <3>2. a # "shutdown"
            BY <2>2, <1>2
        <3>3. a = "tick"
            BY <2>2, <3>2, ActorsOf
        <3>4. QED BY <1>2, <2>2, <3>1, <3>3 DEF Begun
    <2>3. QED BY <2>1, <2>2 DEF CoverStep
<1>7. BookStep(a)
    BY <1>2 DEF BookStep, IInv, TypeOK, Books, Begun, InExit
<1>8. QED BY <1>3, <1>4, <1>5, <1>6, <1>7, StepKeeps

-----------------------------------------------------------------------------
(* The other ways an actor goes on: it returns, it aims at a target, its   *)
(* exit unlocks the mint.                                                  *)

\* What none of them touches, and what they may do to the record.
Quiet == config' = config /\ indexed' = indexed /\ held' \in BOOLEAN
         /\ ata' \in {ata, Unsubscribed} /\ closed' \in 0..2 /\ pos' \in Positions

\* Where the record may go on paper before a shutdown.
RecordCovered == PaperTrading /\ pc["shutdown"] = "idle" => pos'.balance <= wallet'

LEMMA ForgetKeeps ==
    ASSUME IInv, NEW a \in Evaluators, pc[a] \notin InExit, Forget(a), Quiet, RecordCovered,
           UNCHANGED <<processing, wallet, book>>, pos'.targetsHit = pos.targetsHit,
           evaluating' = IF pc[a] \in InEvaluation THEN FALSE ELSE evaluating
    PROVE  IInv'
<1>1. /\ pc \in [Actors -> Places] /\ seen \in [Actors -> 0..Amount]
      /\ order \in [Actors -> Orders] /\ Amount \in Nat /\ wallet \in Int
      /\ processing \in BOOLEAN /\ evaluating \in BOOLEAN /\ a \in Actors /\ a # "shutdown"
    BY Settings, ActorsOf DEF IInv, TypeOK, Places, Orders
<1>2. NoOrder \in Orders
    BY <1>1 DEF NoOrder, Orders, Reasons
<1>3. pc'[a] = "idle" /\ seen'[a] = 0 /\ order'[a] = NoOrder
    BY <1>1 DEF Forget, Suspend
<1>4. "idle" \notin InEvaluation /\ "idle" \notin InExit /\ "idle" \in Places
    BY DEF InEvaluation, InExit, Places
<1>5. TypedStep(a)
    BY <1>1, <1>2, <1>3, <1>4 DEF TypedStep, Quiet, Forget, Suspend
<1>6. LockStep(a)
    BY <1>1, <1>3, <1>4 DEF LockStep
<1>7. OrderStep(a)
    BY <1>1, <1>3, <1>4 DEF OrderStep, LivePlaces
<1>8. CoverStep
    <2>1. a # "tick" => /\ pc'["tick"] = pc["tick"] /\ seen'["tick"] = seen["tick"]
                        /\ order'["tick"] = order["tick"]
        BY <1>1, ActorsOf DEF Forget, Suspend
    <2>2. pc'["shutdown"] = pc["shutdown"]
        BY <1>1, ActorsOf DEF Forget, Suspend
    <2>3. ~PaperTrading => wallet' \in 0..Amount
        BY DEF IInv, Covered
    <2>4. QED BY <1>3, <2>1, <2>2, <2>3 DEF CoverStep, IInv, Covered, RecordCovered
<1>9. BookStep(a)
    BY <1>3 DEF BookStep, IInv, TypeOK, Books, InExit
<1>10. QED BY <1>1, <1>5, <1>6, <1>7, <1>8, <1>9, StepKeeps

LEMMA AimKeeps ==
    ASSUME IInv, NEW a \in Evaluators, pc[a] \notin InExit, Quiet, RecordCovered,
           pos'.targetsHit = pos.targetsHit, Aim(a, pos.targetsHit + 1),
           pc[a] \in InEvaluation \/ ~evaluating, PaperTrading => a \notin Streams,
           UNCHANGED <<processing, wallet, book>>
    PROVE  IInv'
<1>1. /\ pc \in [Actors -> Places] /\ seen \in [Actors -> 0..Amount]
      /\ order \in [Actors -> Orders] /\ Amount \in Nat /\ wallet \in Int
      /\ pos \in Positions
      /\ processing \in BOOLEAN /\ evaluating \in BOOLEAN /\ a \in Actors /\ a # "shutdown"
    BY Settings, ActorsOf DEF IInv, TypeOK, Places, Orders, Positions
<1> DEFINE target == pos.targetsHit + 1
           asked == [NoOrder EXCEPT !.target = target]
<1>2. target \in Nat
    BY <1>1 DEF Positions
<1>3. /\ pc' = [pc EXCEPT ![a] = "target"] /\ order' = [order EXCEPT ![a] = asked]
      /\ evaluating' = TRUE /\ seen' = seen
    BY DEF Aim, Suspend
<1> HIDE DEF target
<1>4. asked \in Orders /\ asked.target = target
    <2>1. NoOrder \in Orders
        BY <1>1 DEF NoOrder, Orders, Reasons
    <2>2. QED BY <1>2, <2>1 DEF Orders
<1> HIDE DEF asked
<1>5. pc'[a] = "target" /\ order'[a] = asked
    BY <1>1, <1>3
<1>6. "target" \in InEvaluation /\ "target" \notin InExit /\ "target" \in Places
    BY DEF InEvaluation, InExit, Places
<1>7. TypedStep(a)
    BY <1>1, <1>3, <1>4, <1>5, <1>6 DEF TypedStep, Quiet
<1>8. LockStep(a)
    BY <1>1, <1>3, <1>5, <1>6 DEF LockStep
<1>9. OrderStep(a)
    BY <1>1, <1>4, <1>5, <1>6 DEF OrderStep, LivePlaces, target
<1>10. CoverStep
    <2>1. a # "tick" => pc'["tick"] = pc["tick"] /\ order'["tick"] = order["tick"]
        BY <1>1, <1>3, ActorsOf
    <2>2. pc'["shutdown"] = pc["shutdown"]
        BY <1>1, <1>3, ActorsOf
    <2>3. ~PaperTrading => wallet' \in 0..Amount
        BY DEF IInv, Covered
    <2>4. QED BY <1>3, <1>5, <2>1, <2>2, <2>3 DEF CoverStep, IInv, Covered, RecordCovered
<1>11. BookStep(a)
    BY <1>5 DEF BookStep, IInv, TypeOK, Books, InExit
<1>12. QED BY <1>1, <1>7, <1>8, <1>9, <1>10, <1>11, StepKeeps

LEMMA UnlockKeeps ==
    ASSUME IInv, NEW a \in Actors, pc[a] \in InExit, NEW sold \in BOOLEAN, Unlock(a, sold),
           Quiet, RecordCovered, seen' = seen, evaluating' = evaluating,
           pos'.targetsHit = pos.targetsHit \/ order[a].reason = "take-profit",
           book' \in Books,
           book'.landed - book'.unbooked - pos'.targetsHit
             = book.landed - book.unbooked - pos.targetsHit - Owed(a),
           wallet' \in Int, ~PaperTrading => wallet' \in 0..Amount
    PROVE  IInv'
<1>1. /\ pc \in [Actors -> Places] /\ seen \in [Actors -> 0..Amount]
      /\ order \in [Actors -> Orders]
      /\ processing \in BOOLEAN /\ evaluating \in BOOLEAN
    BY DEF IInv, TypeOK, Places, Orders
<1>2. /\ processing' = FALSE /\ pc' = [pc EXCEPT ![a] = "returned"]
      /\ order' = [order EXCEPT ![a] = [order[a] EXCEPT !.sold = sold]]
    BY <1>1 DEF Unlock, Return, Suspend
<1>3. order'[a] \in Orders /\ order'[a].reason = order[a].reason /\ pc'[a] = "returned"
    BY <1>1, <1>2 DEF Orders
<1>4. /\ "returned" \in InEvaluation /\ "returned" \notin InExit /\ "returned" \in Places
      /\ pc[a] \in InEvaluation
    BY DEF InEvaluation, InExit, Places
<1>5. TypedStep(a)
    <2>1. seen' = [seen EXCEPT ![a] = seen'[a]] /\ seen'[a] \in 0..Amount
        BY <1>1
    <2>2. order' = [order EXCEPT ![a] = order'[a]] /\ pc' = [pc EXCEPT ![a] = pc'[a]]
        BY <1>1, <1>2
    <2>3. QED BY <1>3, <1>4, <2>1, <2>2 DEF TypedStep, Quiet
<1>6. LockStep(a)
    <2>1. a # "shutdown" => evaluating
        BY <1>4, ActorsOf DEF IInv, EvaluationsExclusive
    <2>2. QED BY <1>1, <1>2, <1>3, <1>4, <2>1 DEF LockStep
<1>7. OrderStep(a)
    <2>1. a = "shutdown" => order'[a].reason = "full"
        BY <1>3 DEF IInv, PlacesSound
    <2>2. PaperTrading => a \notin Streams
        BY DEF IInv, PlacesSound, InExit
    <2>3. QED BY <1>3, <1>4, <2>1, <2>2 DEF OrderStep, LivePlaces, ShutdownPlaces, InExit
<1>8. CoverStep
    <2>1. a # "tick" => pc'["tick"] = pc["tick"] /\ order'["tick"] = order["tick"]
        BY <1>1, <1>2, ActorsOf
    <2>2. a # "shutdown" => pc'["shutdown"] = pc["shutdown"]
        BY <1>1, <1>2, ActorsOf
    <2>3. a = "shutdown" => pc'["shutdown"] # "idle"
        BY <1>3
    <2>4. PaperTrading /\ pc["shutdown"] = "idle" => a = "tick"
        BY ActorsOf DEF IInv, PlacesSound, InExit
    <2>5. QED BY <1>3, <2>1, <2>2, <2>3, <2>4 DEF CoverStep, IInv, Covered, RecordCovered
<1>9. BookStep(a)
    <2>1. Owed(a)' = 0
        BY <1>3 DEF Owed
    <2>2. book'.landed \in Int /\ book'.unbooked \in Int /\ pos'.targetsHit \in Int
        BY DEF Books, Quiet, Positions
    <2>3. QED BY <2>1, <2>2 DEF BookStep
<1>10. QED BY <1>5, <1>6, <1>7, <1>8, <1>9, StepKeeps

-----------------------------------------------------------------------------
(* The steps of the executor.                                              *)

LEMMA Typed ==
    ASSUME IInv
    PROVE  /\ Amount \in Nat \ {0} /\ MoonBag \in 0..Amount /\ TakeProfits \in Nat
           /\ PaperTrading \in BOOLEAN /\ pos \in Positions /\ wallet \in Int
           /\ pos.balance \in 0..Amount /\ pos.targetsHit \in Nat
           /\ indexed \in 0..Amount /\ held \in BOOLEAN /\ closed \in 0..2
           /\ evaluating \in BOOLEAN /\ processing \in BOOLEAN
           /\ book \in Books /\ book.landed \in Nat /\ book.unbooked \in Nat
           /\ \A a \in Actors : /\ order[a] \in Orders /\ seen[a] \in 0..Amount /\ pc[a] \in Places
                                /\ order[a].amount \in 0..Amount /\ order[a].before \in 0..Amount
BY Settings DEF IInv, TypeOK, Positions, Orders, Places, Books

LEMMA StoreKept ==
    ASSUME IInv, config' = config, indexed' = indexed, pos' \in Positions
    PROVE  /\ Kept /\ closed' = closed => Quiet
           /\ Upsert /\ closed' = closed => Quiet
           /\ Remove /\ closed' = closed => Quiet
           /\ Remove /\ RecordClosedTrade => Quiet
<1>1. closed \in 0..2 /\ held \in BOOLEAN
    BY Typed
<1>2. (Kept \/ Upsert \/ Remove) => held' \in BOOLEAN /\ ata' \in {ata, Unsubscribed}
    BY <1>1 DEF Kept, Upsert, Remove
<1>3. closed' = closed \/ RecordClosedTrade => closed' \in 0..2
    BY <1>1 DEF RecordClosedTrade
<1>4. QED BY <1>2, <1>3 DEF Quiet

\* On paper and before a shutdown, the tick alone can have an exit in flight.
LEMMA TheTickQuotes ==
    ASSUME IInv, NEW a \in Actors, pc[a] \in InExit, PaperTrading
    PROVE  pc[a] = "quoting" /\ (pc["shutdown"] = "idle" => a = "tick")
BY ActorsOf DEF IInv, PlacesSound, InExit, LivePlaces

\* An exit that ends with nothing landed and nothing owed.
LEMMA BookUntouched ==
    ASSUME IInv, NEW a \in Actors, book' = book, pc[a] # "settling",
           pos'.targetsHit = pos.targetsHit
    PROVE  /\ book' \in Books
           /\ book'.landed - book'.unbooked - pos'.targetsHit
                = book.landed - book.unbooked - pos.targetsHit - Owed(a)
<1>1. Owed(a) = 0
    BY DEF Owed
<1>2. QED BY <1>1, Typed

LEMMA PaperFillKeeps == ASSUME IInv, NEW a \in Actors, PaperFill(a) PROVE IInv'
<1> DEFINE remain == order[a].before - order[a].amount
<1>1. /\ pc[a] \in InExit /\ PaperTrading /\ order[a].amount <= order[a].before
    BY DEF IInv, PlacesSound, OrdersSound, PaperFill, InExit
<1>2. /\ remain \in 0..Amount /\ wallet \in Int /\ order[a].amount \in Nat
    BY <1>1, Typed
<1>3. /\ pos' = [pos EXCEPT !.balance = remain, !.targetsHit = @ + Banked(a)]
      /\ wallet' = wallet - order[a].amount /\ Unlock(a, TRUE)
      /\ seen' = seen /\ evaluating' = evaluating /\ config' = config /\ indexed' = indexed
    BY DEF PaperFill
<1>4. (Upsert /\ closed' = closed) \/ (Remove /\ RecordClosedTrade)
    BY DEF PaperFill
<1> HIDE DEF remain
<1>5. Banked(a) \in {0, 1} /\ (order[a].reason = "take-profit" \/ Banked(a) = 0)
    BY DEF Banked
<1>6. /\ pos' \in Positions /\ pos'.balance = remain
      /\ pos'.targetsHit = pos.targetsHit \/ order[a].reason = "take-profit"
    <2>1. pos.targetsHit + Banked(a) \in Nat
        BY <1>5, Typed
    <2>2. pos' = [pos EXCEPT !.balance = remain, !.targetsHit = pos.targetsHit + Banked(a)]
        BY <1>3
    <2>3. pos' \in Positions /\ pos'.balance = remain /\ pos'.targetsHit = pos.targetsHit + Banked(a)
        BY <1>2, <2>1, <2>2, Typed DEF Positions
    <2>4. QED BY <1>5, <2>3, Typed
<1>7. Quiet
    BY <1>3, <1>4, <1>6, StoreKept
<1>8. RecordCovered
    <2>1. PaperTrading /\ pc["shutdown"] = "idle" => order[a].before <= wallet
        BY <1>1, TheTickQuotes DEF IInv, Covered
    <2>2. QED BY <1>2, <1>3, <1>6, <2>1, Typed DEF RecordCovered, remain
<1>9. wallet' \in Int
    BY <1>2, <1>3
<1>10. /\ book' \in Books
       /\ book'.landed - book'.unbooked - pos'.targetsHit
            = book.landed - book.unbooked - pos.targetsHit - Owed(a)
    <2>1. book' = [book EXCEPT !.landed = @ + Rung(a)] /\ Owed(a) = 0
        BY DEF PaperFill, Owed
    <2>2. Rung(a) = Banked(a) /\ Rung(a) \in 0..1
        BY DEF Rung, Banked
    <2>3. book' = [landed |-> book.landed + Rung(a), unbooked |-> book.unbooked]
        BY <2>1, Typed DEF Books
    <2>4. pos'.targetsHit = pos.targetsHit + Rung(a)
        BY <1>3, <2>2, Typed DEF Positions
    <2>5. QED BY <2>1, <2>2, <2>3, <2>4, Typed DEF Books
<1>11. QED BY <1>1, <1>3, <1>6, <1>7, <1>8, <1>9, <1>10, UnlockKeeps

LEMMA PaperDustKeeps == ASSUME IInv, NEW a \in Actors, PaperDust(a) PROVE IInv'
<1>1. pc[a] \in InExit
    BY DEF PaperDust, InExit
<1>2. /\ pos' = [pos EXCEPT !.balance = 0] /\ Unlock(a, TRUE) /\ Remove /\ RecordClosedTrade
      /\ wallet' = wallet
      /\ seen' = seen /\ evaluating' = evaluating /\ config' = config /\ indexed' = indexed
    BY DEF PaperDust
<1>3. pos' \in Positions /\ pos'.balance = 0 /\ pos'.targetsHit = pos.targetsHit
    BY <1>2, Typed DEF Positions
<1>4. Quiet
    BY <1>2, <1>3, StoreKept
<1>5. RecordCovered
    BY <1>2, <1>3, Typed DEF RecordCovered, IInv, Covered
<1>6. wallet' \in Int /\ (~PaperTrading => wallet' \in 0..Amount)
    BY <1>2 DEF IInv, TypeOK, Covered
<1>7. book' = book /\ pc[a] # "settling"
    BY DEF PaperDust
<1>8. QED BY <1>1, <1>2, <1>3, <1>4, <1>5, <1>6, <1>7, BookUntouched, UnlockKeeps

\* An exit that fails leaves the ladder; what landed of it is not booked.
LEMMA ExitFailsKeeps == ASSUME IInv, NEW a \in Actors, ExitFails(a) PROVE IInv'
<1>1. /\ pc[a] \in InExit /\ pos' = pos /\ Unlock(a, FALSE) /\ Kept /\ closed' = closed
      /\ seen' = seen /\ evaluating' = evaluating /\ config' = config /\ indexed' = indexed
    BY DEF ExitFails
<1>2. /\ wallet' \in Int /\ (~PaperTrading => wallet' \in 0..Amount)
      /\ PaperTrading => wallet' = wallet
    <2>1. CASE wallet' = wallet
        BY <2>1 DEF IInv, TypeOK, Covered
    <2>2. CASE /\ pc[a] = "swapping" /\ order[a].amount <= wallet
               /\ wallet' = wallet - order[a].amount
        <3>1. ~PaperTrading
            BY <2>2 DEF IInv, PlacesSound, LivePlaces
        <3>2. QED BY <2>2, <3>1, Typed DEF IInv, Covered
    <2>3. QED BY <2>1, <2>2 DEF ExitFails
<1>3. Quiet
    BY <1>1, StoreKept, Typed
<1>4. RecordCovered
    BY <1>1, <1>2 DEF RecordCovered, IInv, Covered
<1>5. /\ book' \in Books
      /\ book'.landed - book'.unbooked - pos'.targetsHit
           = book.landed - book.unbooked - pos.targetsHit - Owed(a)
    <2>1. Rung(a) \in 0..1
        BY DEF Rung
    <2>2. CASE pc[a] # "settling" /\ book' = book
        BY <1>1, <2>2, Typed DEF Owed
    <2>3. CASE /\ pc[a] = "swapping"
               /\ book' = [book EXCEPT !.landed = @ + Rung(a), !.unbooked = @ + Rung(a)]
        <3>1. book' = [landed |-> book.landed + Rung(a), unbooked |-> book.unbooked + Rung(a)]
            BY <2>3, Typed DEF Books
        <3>2. QED BY <1>1, <2>1, <2>3, <3>1, Typed DEF Owed, Books
    <2>4. CASE pc[a] = "settling" /\ book' = [book EXCEPT !.unbooked = @ + Rung(a)]
        <3>1. book' = [landed |-> book.landed, unbooked |-> book.unbooked + Rung(a)]
            BY <2>4, Typed DEF Books
        <3>2. QED BY <1>1, <2>1, <2>4, <3>1, Typed DEF Owed, Books
    <2>5. QED BY <2>2, <2>3, <2>4 DEF ExitFails
<1>6. QED BY <1>1, <1>2, <1>3, <1>4, <1>5, UnlockKeeps

LEMMA SettleKeeps == ASSUME IInv, NEW a \in Actors, Settle(a) PROVE IInv'
<1> DEFINE fallback == order[a].before - order[a].amount
           hit == pos.targetsHit + Banked(a)
           left == IF indexed < order[a].before THEN indexed ELSE fallback
<1>1. pc[a] \in InExit /\ ~PaperTrading /\ order[a].amount <= order[a].before
    BY DEF IInv, PlacesSound, OrdersSound, Settle, InExit, LivePlaces
<1>2. /\ pos' = [pos EXCEPT !.balance = left, !.targetsHit = hit] /\ Unlock(a, TRUE)
      /\ (Upsert /\ closed' = closed) \/ (Remove /\ RecordClosedTrade)
      /\ wallet' = wallet
      /\ seen' = seen /\ evaluating' = evaluating /\ config' = config /\ indexed' = indexed
    BY DEF Settle
<1>3. left \in 0..Amount
    <2>1. fallback \in 0..Amount
        BY <1>1, Typed
    <2>2. QED BY <2>1, Typed
<1>4. hit \in Nat /\ (order[a].reason = "take-profit" \/ hit = pos.targetsHit)
    BY Typed DEF Banked
<1> HIDE DEF left, hit
<1>5. pos' \in Positions /\ pos'.targetsHit = hit
    BY <1>2, <1>3, <1>4, Typed DEF Positions
<1>6. Quiet
    BY <1>2, <1>5, StoreKept
<1>7. RecordCovered
    BY <1>1 DEF RecordCovered
<1>8. wallet' \in Int /\ (~PaperTrading => wallet' \in 0..Amount)
    BY <1>2 DEF IInv, TypeOK, Covered
<1>9. /\ book' \in Books
      /\ book'.landed - book'.unbooked - pos'.targetsHit
           = book.landed - book.unbooked - pos.targetsHit - Owed(a)
    <2>1. book' = book /\ Owed(a) = Banked(a) /\ Banked(a) \in 0..1
        BY DEF Settle, Owed, Rung, Banked
    <2>2. hit = pos.targetsHit + Banked(a)
        BY DEF hit
    <2>3. QED BY <1>5, <2>1, <2>2, Typed
<1>10. QED BY <1>1, <1>2, <1>4, <1>5, <1>6, <1>7, <1>8, <1>9, UnlockKeeps

\* An exit that goes on to its next await keeps both locks.
LEMMA ExitGoesOn ==
    ASSUME IInv, NEW a \in Actors, pc[a] \in InExit, ~PaperTrading, Quiet,
           NEW at \in {"swapping", "settling"}, Suspend(a, at),
           order' = [order EXCEPT ![a] = order'[a]], order'[a] \in Orders,
           order'[a].reason = order[a].reason, order'[a].target = order[a].target,
           order'[a].amount <= order'[a].before, pos'.targetsHit = pos.targetsHit,
           UNCHANGED <<seen, evaluating, processing>>, wallet' \in 0..Amount,
           pc[a] # "settling",
           book' = [book EXCEPT !.landed = @ + IF at = "settling" THEN Rung(a) ELSE 0]
    PROVE  IInv'
<1>1. /\ pc \in [Actors -> Places] /\ seen \in [Actors -> 0..Amount]
      /\ processing \in BOOLEAN /\ evaluating \in BOOLEAN /\ Amount \in Nat
    BY Typed DEF IInv, TypeOK, Places
<1>2. pc' = [pc EXCEPT ![a] = pc'[a]] /\ pc'[a] = at
    BY <1>1 DEF Suspend
<1>3. at \in InExit /\ at \in InEvaluation /\ at \in Places /\ pc[a] \in InEvaluation
    BY DEF InExit, InEvaluation, Places
<1>4. TypedStep(a)
    <2>1. seen' = [seen EXCEPT ![a] = seen'[a]] /\ seen'[a] \in 0..Amount
        BY <1>1
    <2>2. wallet' \in Int
        BY <1>1
    <2>3. QED BY <1>2, <1>3, <2>1, <2>2 DEF TypedStep, Quiet
<1>5. LockStep(a)
    <2>1. processing
        BY DEF IInv, ExitsExclusive
    <2>2. a # "shutdown" => evaluating
        BY <1>3, ActorsOf DEF IInv, EvaluationsExclusive
    <2>3. QED BY <1>1, <1>2, <1>3, <2>1, <2>2 DEF LockStep
<1>6. OrderStep(a)
    <2>1. order[a].reason = "take-profit" => order[a].target = pos.targetsHit + 1
        BY DEF IInv, TargetsInOrder
    <2>2. a = "shutdown" => order'[a].reason = "full" /\ pc'[a] \in ShutdownPlaces \ {"idle"}
        BY <1>2, <1>3 DEF IInv, PlacesSound, ShutdownPlaces, InExit
    <2>3. pc'[a] # "quoting" /\ pc'[a] # "target"
        BY <1>2
    <2>4. QED BY <2>1, <2>2, <2>3 DEF OrderStep
<1>7. CoverStep
    BY DEF CoverStep
<1>8. BookStep(a)
    <2> DEFINE step == IF at = "settling" THEN Rung(a) ELSE 0
    <2>1. step \in 0..1 /\ Owed(a) = 0
        BY DEF Rung, Owed
    <2>2. Owed(a)' = step
        BY <1>2 DEF Owed, Rung
    <2>3. book' = [book EXCEPT !.landed = @ + step]
        OBVIOUS
    <2> HIDE DEF step
    <2>4. book' = [landed |-> book.landed + step, unbooked |-> book.unbooked]
        BY <2>3, Typed DEF Books
    <2>5. QED BY <2>1, <2>2, <2>4, Typed DEF BookStep, Books
<1>9. QED BY <1>4, <1>5, <1>6, <1>7, <1>8, StepKeeps

LEMMA CheckBalanceKeeps == ASSUME IInv, NEW a \in Actors, CheckBalance(a) PROVE IInv'
<1> DEFINE sell == Min({order[a].amount, indexed})
<1>1. pc[a] \in InExit /\ ~PaperTrading
    BY DEF IInv, PlacesSound, CheckBalance, InExit, LivePlaces
<1>2. sell = IF order[a].amount <= indexed THEN order[a].amount ELSE indexed
    <2>1. order[a].amount \in Int /\ indexed \in Int
        BY Typed
    <2>2. QED BY <2>1, LesserOfTwo
<1>3. sell \in 0..Amount /\ sell <= indexed
    BY <1>2, Typed
<1>4. /\ \/ /\ pos' = [pos EXCEPT !.zeroSince = "never"]
            /\ order' = [order EXCEPT ![a].amount = sell, ![a].before = indexed]
            /\ Suspend(a, "swapping") /\ Kept /\ processing' = processing
         \/ /\ pos' = [pos EXCEPT !.zeroSince = "recent"]
            /\ Unlock(a, FALSE) /\ Kept
         \/ Remove /\ Unlock(a, FALSE) /\ pos' = pos
      /\ UNCHANGED <<evaluating, seen, wallet, indexed, closed, book, config>>
      /\ pc[a] = "checking"
    BY DEF CheckBalance
<1> HIDE DEF sell
<1>5. wallet' \in 0..Amount /\ wallet' \in Int
    BY <1>1, <1>4, Typed DEF IInv, Covered
<1>6. pos' \in Positions /\ pos'.targetsHit = pos.targetsHit
    BY <1>4, Typed DEF Positions
<1>7. RecordCovered
    BY <1>1 DEF RecordCovered
<1>8. Quiet
    BY <1>4, <1>6, StoreKept
<1>9. CASE Unlock(a, FALSE)
    <2>1. book' = book /\ pc[a] # "settling"
        BY <1>4
    <2>2. QED BY <1>1, <1>4, <1>5, <1>6, <1>7, <1>8, <1>9, <2>1, BookUntouched, UnlockKeeps
<1>10. CASE /\ order' = [order EXCEPT ![a].amount = sell, ![a].before = indexed]
            /\ Suspend(a, "swapping") /\ processing' = processing
    <2>1. order \in [Actors -> Orders]
        BY DEF IInv, TypeOK, Orders
    <2>2. order'[a] = [order[a] EXCEPT !.amount = sell, !.before = indexed]
        BY <1>10, <2>1
    <2>3. /\ order' = [order EXCEPT ![a] = order'[a]] /\ order'[a] \in Orders
          /\ order'[a].reason = order[a].reason /\ order'[a].target = order[a].target
          /\ order'[a].amount = sell /\ order'[a].before = indexed
        BY <1>3, <1>10, <2>1, <2>2, Typed DEF Orders
    <2>4. book' = [book EXCEPT !.landed = @ + 0] /\ pc[a] # "settling"
        BY <1>4, Typed DEF Books
    <2>5. QED BY <1>1, <1>3, <1>4, <1>5, <1>6, <1>8, <1>10, <2>3, <2>4, ExitGoesOn
<1>11. QED BY <1>4, <1>9, <1>10

LEMMA SwapKeeps == ASSUME IInv, NEW a \in Actors, Swap(a) PROVE IInv'
<1>1. /\ pc[a] = "swapping" /\ order[a].amount <= wallet /\ wallet' = wallet - order[a].amount
      /\ Suspend(a, "settling") /\ Kept
      /\ UNCHANGED <<pos, evaluating, processing, seen, order, indexed, closed, config>>
      /\ book' = [book EXCEPT !.landed = @ + Rung(a)]
    BY DEF Swap
<1>2. pc[a] \in InExit /\ ~PaperTrading /\ order[a].amount <= order[a].before
    BY <1>1 DEF IInv, PlacesSound, OrdersSound, InExit, LivePlaces
<1>3. wallet' \in 0..Amount
    BY <1>1, <1>2, Typed DEF IInv, Covered
<1>4. order' = [order EXCEPT ![a] = order'[a]] /\ order'[a] \in Orders
    BY <1>1, Typed DEF IInv, TypeOK
<1>5. Quiet
    BY <1>1, StoreKept, Typed
<1>6. QED BY <1>1, <1>2, <1>3, <1>4, <1>5, ExitGoesOn

LEMMA ExitKeeps == ASSUME IInv, NEW a \in Actors, Exit(a) PROVE IInv'
BY PaperFillKeeps, PaperDustKeeps, ExitFailsKeeps, CheckBalanceKeeps, SwapKeeps, SettleKeeps
   DEF Exit

-----------------------------------------------------------------------------
(* The steps of an evaluation.                                             *)

\* What is known of an actor between its awaits, and of the record it holds.
LEMMA Evaluator ==
    ASSUME IInv, NEW a \in Evaluators
    PROVE  /\ a \in Actors /\ a # "shutdown"
           /\ pc[a] = "entering" => pc[a] \notin InExit /\ pc[a] \notin InEvaluation
           /\ pc[a] \in {"target", "returned"} => pc[a] \notin InExit /\ pc[a] \in InEvaluation
           /\ pc[a] \in InEvaluation \/ seen[a] > 0 => (PaperTrading => a \notin Streams)
           /\ pc[a] \in InEvaluation => evaluating
<1>1. a \in Actors /\ a # "shutdown"
    BY ActorsOf
<1>2. pc[a] \in InEvaluation \/ seen[a] > 0 => (PaperTrading => a \notin Streams)
    BY DEF IInv, PlacesSound, InEvaluation, InExit
<1>3. QED BY <1>1, <1>2 DEF IInv, EvaluationsExclusive, InEvaluation, InExit

LEMMA FoundRecord ==
    ASSUME IInv
    PROVE  /\ Found \in Positions /\ Found.balance = pos.balance
           /\ Found.targetsHit = pos.targetsHit
           /\ \A n \in 0..Amount : /\ [Found EXCEPT !.balance = n] \in Positions
                                   /\ [Found EXCEPT !.balance = n].balance = n
                                   /\ [Found EXCEPT !.balance = n].targetsHit = pos.targetsHit
BY Typed DEF Found, Positions

LEMMA GiveWayKeeps == ASSUME IInv, NEW a \in Evaluators, GiveWay(a) PROVE IInv'
<1>1. /\ Forget(a) /\ Kept /\ pc[a] = "entering"
      /\ UNCHANGED <<pos, evaluating, processing, wallet, indexed, closed, book, config>>
    BY DEF GiveWay
<1>2. Quiet
    BY <1>1, StoreKept, Typed
<1>3. RecordCovered
    BY <1>1 DEF RecordCovered, IInv, Covered
<1>4. QED BY <1>1, <1>2, <1>3, Evaluator, ForgetKeeps

LEMMA SeeNothingKeeps == ASSUME IInv, NEW a \in Evaluators, SeeNothing(a) PROVE IInv'
<1>1. /\ Forget(a) /\ evaluating' = FALSE /\ ~evaluating /\ pc[a] = "entering"
      /\ (Kept /\ closed' = closed) \/ (Remove /\ RecordClosedTrade)
      /\ pos' = [pos EXCEPT !.zeroSince = "recent"] \/ pos' = pos
      /\ UNCHANGED <<processing, wallet, indexed, book, config>>
    BY DEF SeeNothing, Leave, Busy
<1>2. pos' \in Positions /\ pos'.balance = pos.balance /\ pos'.targetsHit = pos.targetsHit
    BY <1>1, Typed DEF Positions
<1>3. Quiet
    BY <1>1, <1>2, StoreKept
<1>4. RecordCovered
    BY <1>1, <1>2 DEF RecordCovered, IInv, Covered
<1>5. evaluating' = evaluating
    BY <1>1, Typed
<1>6. QED BY <1>1, <1>2, <1>3, <1>4, <1>5, Evaluator, ForgetKeeps

LEMMA SkipPricelessKeeps == ASSUME IInv, NEW a \in Evaluators, SkipPriceless(a) PROVE IInv'
<1>1. /\ Forget(a) /\ evaluating' = FALSE /\ ~evaluating /\ pc[a] = "entering"
      /\ Kept /\ closed' = closed /\ pos' = Found
      /\ UNCHANGED <<processing, wallet, indexed, book, config>>
    BY DEF SkipPriceless, Leave, Busy
<1>2. pos' \in Positions /\ pos'.balance = pos.balance /\ pos'.targetsHit = pos.targetsHit
    BY <1>1, FoundRecord
<1>3. Quiet
    BY <1>1, <1>2, StoreKept
<1>4. RecordCovered
    BY <1>1, <1>2 DEF RecordCovered, IInv, Covered
<1>5. evaluating' = evaluating
    BY <1>1, Typed
<1>6. QED BY <1>1, <1>2, <1>3, <1>4, <1>5, Evaluator, ForgetKeeps

\* A sale an evaluation begins, in either of the two ways.
LEMMA SaleKeeps ==
    ASSUME IInv, NEW a \in Evaluators, pc[a] \notin InExit,
           NEW p \in Positions, p.targetsHit = pos.targetsHit, NEW amount \in 0..Amount,
           NEW reason \in Reasons, NEW target \in Nat,
           (StartExit(a, p, amount, reason, target) /\ (Kept \/ Upsert))
             \/ StartExitOfNothing(a, p, amount, reason),
           UNCHANGED <<config, wallet, indexed, seen, book>>, evaluating' = TRUE,
           pc[a] \in InEvaluation \/ (~evaluating /\ seen[a] > 0),
           reason = "take-profit" => target = pos.targetsHit + 1,
           PaperTrading /\ pc["shutdown"] = "idle" => p.balance <= wallet
    PROVE  IInv'
<1>1. a \in Actors /\ a # "shutdown" /\ (PaperTrading => a \notin Streams)
    BY Evaluator
<1>2. /\ Begun(a, p, reason, target) /\ closed' \in 0..2
      /\ held' \in BOOLEAN /\ ata' \in {ata, Unsubscribed}
    <2>1. TypeOK
        BY DEF IInv
    <2>2. CASE StartExit(a, p, amount, reason, target) /\ (Kept \/ Upsert)
        BY <1>1, <2>1, <2>2, StartExitBegins, Typed DEF Kept, Upsert
    <2>3. CASE StartExitOfNothing(a, p, amount, reason)
        BY <1>1, <2>1, <2>3, StartExitOfNothingBegins
    <2>4. QED BY <2>2, <2>3
<1>3. QED BY <1>1, <1>2, BegunKeeps

LEMMA LiquidityExitKeeps == ASSUME IInv, NEW a \in Evaluators, LiquidityExit(a) PROVE IInv'
<1>1. /\ pc[a] = "entering" /\ ~evaluating /\ seen[a] > 0 /\ evaluating' = TRUE
      /\ \/ StartExit(a, Found, seen[a], "full", 0) /\ Kept
         \/ StartExitOfNothing(a, Found, seen[a], "full")
      /\ UNCHANGED <<seen, wallet, indexed, book, config>>
    BY DEF LiquidityExit, Busy
<1>2. Found \in Positions /\ Found.targetsHit = pos.targetsHit /\ seen[a] \in 0..Amount
    BY FoundRecord, Evaluator, Typed
<1>3. PaperTrading /\ pc["shutdown"] = "idle" => Found.balance <= wallet
    BY FoundRecord DEF IInv, Covered
<1>4. "full" \in Reasons /\ 0 \in Nat /\ "full" # "take-profit"
    BY DEF Reasons
<1>5. QED BY <1>1, <1>2, <1>3, <1>4, Evaluator, SaleKeeps

\* Whatever rule fires, it asks for no more than the actor saw.
LEMMA FiringTyped ==
    ASSUME NEW p, NEW balance \in 0..Amount, Amount \in Nat, NEW c \in Firing(p, balance)
    PROVE  /\ c[1] \in Reasons /\ c[1] # "take-profit" /\ c[2] \in 0..Amount
<1>1. c \in {<<"full", n>> : n \in 1..balance} \/ c = <<"de-risk", balance>>
        \/ c = <<"midpoint", balance>>
    BY DEF Firing
<1>2. QED BY <1>1 DEF Reasons

LEMMA RulesKeep ==
    ASSUME IInv, NEW a \in Evaluators, pc[a] \notin InExit,
           NEW p \in Positions, p.targetsHit = pos.targetsHit, Rules(a, p), Kept \/ Upsert,
           UNCHANGED <<wallet, indexed, book, config>>,
           pc[a] \in InEvaluation \/ (~evaluating /\ seen[a] > 0),
           PaperTrading /\ pc["shutdown"] = "idle" => p.balance <= wallet
    PROVE  IInv'
<1>1. /\ a \in Actors /\ (PaperTrading => a \notin Streams) /\ seen[a] \in 0..Amount
      /\ Amount \in Nat
    BY Evaluator, Typed
<1>2. ASSUME pos' = p, UNCHANGED <<processing, closed>>
      PROVE  Quiet /\ RecordCovered /\ pos'.targetsHit = pos.targetsHit
    <2>1. Quiet
        BY <1>2, StoreKept
    <2>2. QED BY <1>2, <2>1 DEF RecordCovered
<1>3. CASE Leave(a) /\ pos' = p /\ UNCHANGED <<processing, closed>>
    <2>1. evaluating' = IF pc[a] \in InEvaluation THEN FALSE ELSE evaluating
        BY <1>3, Typed DEF Leave
    <2>2. QED BY <1>2, <1>3, <2>1, ForgetKeeps DEF Leave
<1>4. CASE /\ \E c \in Firing(p, seen[a]) : StartExit(a, p, c[2], c[1], 0)
           /\ evaluating' = TRUE /\ seen' = seen
    <2>1. PICK c \in Firing(p, seen[a]) : StartExit(a, p, c[2], c[1], 0)
        BY <1>4
    <2>2. c[1] \in Reasons /\ c[1] # "take-profit" /\ c[2] \in 0..Amount
        BY <1>1, FiringTyped
    <2>3. QED BY <1>4, <2>1, <2>2, SaleKeeps
<1>5. CASE Aim(a, p.targetsHit + 1) /\ pos' = p /\ UNCHANGED <<processing, closed>>
    BY <1>1, <1>2, <1>5, AimKeeps
<1>6. QED BY <1>3, <1>4, <1>5 DEF Rules

LEMMA EvaluateKeeps == ASSUME IInv, NEW a \in Evaluators, Evaluate(a) PROVE IInv'
<1> DEFINE p == [Found EXCEPT !.balance = seen[a]]
<1>1. /\ pc[a] = "entering" /\ ~evaluating /\ seen[a] > 0 /\ Upsert
      /\ Rules(a, p) \/ (StartExit(a, p, seen[a], "insider", 0) /\ evaluating' = TRUE /\ seen' = seen)
      /\ UNCHANGED <<wallet, indexed, book, config>>
    BY DEF Evaluate, Busy
<1>2. /\ seen[a] \in 0..Amount /\ p \in Positions /\ p.balance = seen[a]
      /\ p.targetsHit = pos.targetsHit
    BY FoundRecord, Evaluator, Typed
<1> HIDE DEF p
<1>3. PaperTrading /\ pc["shutdown"] = "idle" => p.balance <= wallet
    BY <1>1, <1>2, Evaluator, ActorsOf DEF IInv, Covered
<1>4. CASE Rules(a, p)
    BY <1>1, <1>2, <1>3, <1>4, Evaluator, RulesKeep
<1>5. CASE StartExit(a, p, seen[a], "insider", 0) /\ evaluating' = TRUE /\ seen' = seen
    <2>1. "insider" \in Reasons /\ 0 \in Nat /\ "insider" # "take-profit"
        BY DEF Reasons
    <2>2. QED BY <1>1, <1>2, <1>3, <1>5, <2>1, Evaluator, SaleKeeps
<1>6. QED BY <1>1, <1>4, <1>5

LEMMA SellTargetKeeps == ASSUME IInv, NEW a \in Evaluators, SellTarget(a) PROVE IInv'
<1>1. /\ pc[a] = "target" /\ Kept /\ UNCHANGED <<evaluating, seen, wallet, indexed, book, config>>
      /\ \E n \in 0..ReadBalance : StartExit(a, pos, n, "take-profit", order[a].target)
    BY DEF SellTarget
<1>2. PICK n \in 0..ReadBalance : StartExit(a, pos, n, "take-profit", order[a].target)
    BY <1>1
<1>3. ReadBalance \in 0..Amount
    BY Typed DEF ReadBalance
<1>4. n \in 0..Amount
    BY <1>2, <1>3, Typed
<1>5. order[a].target = pos.targetsHit + 1 /\ order[a].target \in Nat
    BY <1>1, Evaluator, Typed DEF IInv, OrdersSound
<1>6. evaluating' = TRUE /\ pc[a] \in InEvaluation /\ pc[a] \notin InExit
    BY <1>1, Evaluator, Typed
<1>7. PaperTrading /\ pc["shutdown"] = "idle" => pos.balance <= wallet
    BY DEF IInv, Covered
<1>8. pos \in Positions /\ "take-profit" \in Reasons
    BY Typed DEF Reasons
<1>9. UNCHANGED <<config, wallet, indexed, seen, book>>
    BY <1>1
<1>10. QED BY <1>1, <1>2, <1>4, <1>5, <1>6, <1>7, <1>8, <1>9, SaleKeeps

\* An evaluation that ends without touching the record.
LEMMA EndKeeps ==
    ASSUME IInv, NEW a \in Evaluators, pc[a] = "returned", Leave(a), Kept \/ Upsert,
           UNCHANGED <<pos, processing, wallet, indexed, closed, book, config>>
    PROVE  IInv'
<1>1. Quiet
    BY StoreKept, Typed
<1>2. RecordCovered
    BY DEF RecordCovered, IInv, Covered
<1>3. pc[a] \in InEvaluation /\ pc[a] \notin InExit
    BY Evaluator
<1>4. QED BY <1>1, <1>2, <1>3, ForgetKeeps DEF Leave

LEMMA MissTargetKeeps == ASSUME IInv, NEW a \in Evaluators, MissTarget(a) PROVE IInv'
<1>1. /\ pc[a] = "target" /\ Leave(a) /\ Kept
      /\ UNCHANGED <<pos, processing, wallet, indexed, closed, book, config>>
    BY DEF MissTarget
<1>2. Quiet
    BY <1>1, StoreKept, Typed
<1>3. RecordCovered
    BY <1>1 DEF RecordCovered, IInv, Covered
<1>4. QED BY <1>1, <1>2, <1>3, Evaluator, ForgetKeeps DEF Leave

LEMMA ResumeSoldTargetKeeps ==
    ASSUME IInv, NEW a \in Evaluators, ResumeSoldTarget(a) PROVE IInv'
<1>1. /\ pc[a] = "returned" /\ Upsert
      /\ Aim(a, pos.targetsHit + 1) \/ Leave(a)
      /\ UNCHANGED <<pos, processing, wallet, indexed, closed, book, config>>
    BY DEF ResumeSoldTarget
<1>2. CASE Leave(a)
    BY <1>1, <1>2, EndKeeps
<1>3. CASE Aim(a, pos.targetsHit + 1)
    <2>1. Quiet
        BY <1>1, StoreKept, Typed
    <2>2. RecordCovered
        BY <1>1 DEF RecordCovered, IInv, Covered
    <2>3. QED BY <1>1, <1>3, <2>1, <2>2, Evaluator, AimKeeps
<1>4. QED BY <1>1, <1>2, <1>3

LEMMA ResumeMissedMidpointKeeps ==
    ASSUME IInv, NEW a \in Evaluators, ResumeMissedMidpoint(a) PROVE IInv'
BY EndKeeps DEF ResumeMissedMidpoint

LEMMA ResumeElseKeeps == ASSUME IInv, NEW a \in Evaluators, ResumeElse(a) PROVE IInv'
BY EndKeeps DEF ResumeElse

LEMMA ResumeMissedInsiderKeeps ==
    ASSUME IInv, NEW a \in Evaluators, ResumeMissedInsider(a) PROVE IInv'
<1>1. /\ pc[a] = "returned" /\ UNCHANGED <<wallet, indexed, book, config>>
      /\ \/ Rules(a, pos) /\ Kept
         \/ /\ \E c \in Firing(pos, seen[a]) : StartExitOfNothing(a, pos, c[2], c[1])
            /\ UNCHANGED <<evaluating, seen>>
    BY DEF ResumeMissedInsider
<1>2. /\ pc[a] \in InEvaluation /\ pc[a] \notin InExit /\ evaluating = TRUE
      /\ seen[a] \in 0..Amount /\ pos \in Positions /\ Amount \in Nat
    BY <1>1, Evaluator, Typed
<1>3. PaperTrading /\ pc["shutdown"] = "idle" => pos.balance <= wallet
    BY DEF IInv, Covered
<1>4. CASE Rules(a, pos) /\ Kept
    BY <1>1, <1>2, <1>3, <1>4, RulesKeep
<1>5. CASE /\ \E c \in Firing(pos, seen[a]) : StartExitOfNothing(a, pos, c[2], c[1])
           /\ UNCHANGED <<evaluating, seen>>
    <2>1. PICK c \in Firing(pos, seen[a]) : StartExitOfNothing(a, pos, c[2], c[1])
        BY <1>5
    <2>2. c[1] \in Reasons /\ c[1] # "take-profit" /\ c[2] \in 0..Amount
        BY <1>2, FiringTyped
    <2>3. evaluating' = TRUE /\ UNCHANGED <<config, wallet, indexed, seen, book>>
        BY <1>1, <1>2, <1>5
    <2>4. 0 \in Nat
        OBVIOUS
    <2>5. QED BY <1>2, <1>3, <2>1, <2>2, <2>3, <2>4, SaleKeeps
<1>6. QED BY <1>1, <1>4, <1>5

LEMMA EvaluationKeeps == ASSUME IInv, NEW a \in Evaluators, Evaluation(a) PROVE IInv'
BY GiveWayKeeps, SeeNothingKeeps, SkipPricelessKeeps, LiquidityExitKeeps, EvaluateKeeps,
   SellTargetKeeps, MissTargetKeeps, ResumeSoldTargetKeeps, ResumeMissedMidpointKeeps,
   ResumeMissedInsiderKeeps, ResumeElseKeeps DEF Evaluation

-----------------------------------------------------------------------------
(* The steps of the tick, the streams and the shutdown.                    *)

\* A step that only moves an actor outside exits and evaluations.
LEMMA MoveKeeps ==
    ASSUME IInv, NEW a \in Actors, NEW at \in Places, Suspend(a, at),
           pc[a] \notin InExit, at \notin InExit,
           at \notin InEvaluation \/ a = "shutdown",
           pc[a] \notin InEvaluation \/ a = "shutdown",
           a = "shutdown" => at \in ShutdownPlaces \ {"idle"},
           seen' = [seen EXCEPT ![a] = seen'[a]], seen'[a] \in 0..Amount,
           PaperTrading /\ a \in Streams => at \in {"idle", "entering"} /\ seen'[a] = 0,
           PaperTrading /\ a = "tick" /\ pc["shutdown"] = "idle" => seen'[a] <= wallet,
           Kept \/ Remove,
           UNCHANGED <<pos, evaluating, processing, order, wallet, indexed, closed, book, config>>
    PROVE  IInv'
<1>1. /\ pc \in [Actors -> Places] /\ order \in [Actors -> Orders]
      /\ evaluating \in BOOLEAN /\ processing \in BOOLEAN /\ wallet \in Int
    BY DEF IInv, TypeOK, Places, Orders
<1>2. pc' = [pc EXCEPT ![a] = pc'[a]] /\ pc'[a] = at
    BY <1>1 DEF Suspend
<1>3. Quiet
    BY StoreKept, Typed
<1>4. TypedStep(a)
    BY <1>1, <1>2, <1>3 DEF TypedStep, Quiet
<1>5. LockStep(a)
    BY <1>1, <1>2 DEF LockStep
<1>6. OrderStep(a)
    <2>1. "target" \in InEvaluation /\ "target" \notin ShutdownPlaces
        BY DEF InEvaluation, ShutdownPlaces, InExit
    <2>2. pc'[a] \notin {"quoting", "swapping", "settling", "checking", "target"}
        BY <1>2, <2>1 DEF InExit
    <2>3. a = "shutdown" => order'[a].reason = "full"
        BY DEF IInv, PlacesSound
    <2>4. QED BY <1>2, <2>2, <2>3 DEF OrderStep, InExit, LivePlaces
<1>7. CoverStep
    <2>1. a # "tick" => pc'["tick"] = pc["tick"] /\ seen'["tick"] = seen["tick"]
        BY <1>1, <1>2, ActorsOf DEF IInv, TypeOK
    <2>2. a # "shutdown" => pc'["shutdown"] = pc["shutdown"]
        BY <1>1, <1>2, ActorsOf
    <2>3. a = "tick" => pc'["tick"] # "quoting"
        BY <1>2 DEF InExit
    <2>4. a = "shutdown" => pc'["shutdown"] # "idle"
        BY <1>2
    <2>5. QED BY <2>1, <2>2, <2>3, <2>4 DEF CoverStep, IInv, Covered
<1>8. BookStep(a)
    <2>1. "settling" \in InExit
        BY DEF InExit
    <2>2. QED BY <1>2, <2>1 DEF BookStep, IInv, TypeOK, Books
<1>9. QED BY <1>4, <1>5, <1>6, <1>7, <1>8, StepKeeps

LEMMA ReadBalanceTyped ==
    ASSUME IInv
    PROVE  /\ ReadBalance \in 0..Amount
           /\ PaperTrading /\ pc["shutdown"] = "idle" => ReadBalance <= wallet
<1>1. 0 \in 0..Amount /\ pos.balance \in 0..Amount /\ indexed \in 0..Amount
    BY Typed
<1>2. PaperTrading /\ pc["shutdown"] = "idle" => pos.balance <= wallet /\ 0 <= wallet
    BY Typed DEF IInv, Covered
<1>3. QED BY <1>1, <1>2 DEF ReadBalance

LEMMA TickKeeps == ASSUME IInv, TickReads \/ TickEnters PROVE IInv'
<1>1. /\ "tick" \in Actors /\ "tick" # "shutdown" /\ "tick" \notin Streams
      /\ seen \in [Actors -> 0..Amount] /\ Amount \in Nat
    BY ActorsOf, Typed, StreamsAssumption DEF IInv, TypeOK
<1>2. {"idle", "read", "entering"} \subseteq Places /\ {"idle", "read", "entering"} \cap InEvaluation = {}
      /\ {"idle", "read", "entering"} \cap InExit = {}
    BY DEF Places, InEvaluation, InExit
<1>3. /\ Kept /\ UNCHANGED <<pos, evaluating, processing, order, wallet, indexed, closed, book, config>>
      /\ pc["tick"] \in {"idle", "read"}
    BY DEF TickReads, TickEnters
<1>4. CASE TickReads
    <2>1. seen'["tick"] = ReadBalance /\ seen' = [seen EXCEPT !["tick"] = seen'["tick"]]
        BY <1>1, <1>4 DEF TickReads
    <2>2. Suspend("tick", "read")
        BY <1>4 DEF TickReads
    <2>3. QED BY <1>1, <1>2, <1>3, <2>1, <2>2, ReadBalanceTyped, MoveKeeps
<1>5. CASE TickEnters /\ held
    <2>1. Suspend("tick", "entering") /\ seen' = seen /\ pc["tick"] = "read"
        BY <1>5 DEF TickEnters
    <2>2. seen' = [seen EXCEPT !["tick"] = seen'["tick"]] /\ seen'["tick"] \in 0..Amount
        BY <1>1, <2>1
    <2>3. PaperTrading /\ pc["shutdown"] = "idle" => seen'["tick"] <= wallet
        BY <2>1 DEF IInv, Covered
    <2>4. QED BY <1>1, <1>2, <1>3, <2>1, <2>2, <2>3, MoveKeeps
<1>6. CASE TickEnters /\ ~held
    <2>1. Suspend("tick", "idle") /\ seen' = [seen EXCEPT !["tick"] = 0]
        BY <1>6 DEF TickEnters
    <2>2. seen' = [seen EXCEPT !["tick"] = seen'["tick"]] /\ seen'["tick"] = 0 /\ 0 \in 0..Amount
        BY <1>1, <2>1
    <2>3. PaperTrading /\ pc["shutdown"] = "idle" => 0 <= wallet
        BY Typed DEF IInv, Covered
    <2>4. QED BY <1>1, <1>2, <1>3, <2>1, <2>2, <2>3, MoveKeeps
<1>7. QED BY <1>4, <1>5, <1>6

LEMMA StreamEntersKeeps == ASSUME IInv, NEW s \in Streams, StreamEnters(s) PROVE IInv'
<1>1. /\ s \in Actors /\ s # "shutdown" /\ s # "tick" /\ seen \in [Actors -> 0..Amount]
    BY ActorsOf, StreamsAssumption DEF IInv, TypeOK
<1>2. /\ pc[s] = "idle" /\ ata # Unsubscribed /\ Suspend(s, "entering") /\ Kept
      /\ seen' = [seen EXCEPT ![s] = ata]
      /\ UNCHANGED <<pos, evaluating, processing, order, wallet, indexed, closed, book, config>>
    BY DEF StreamEnters
<1>3. ata \in 0..Amount /\ (PaperTrading => ata = 0)
    BY <1>2 DEF IInv, TypeOK, PlacesSound
<1>4. seen' = [seen EXCEPT ![s] = seen'[s]] /\ seen'[s] = ata
    BY <1>1, <1>2
<1>5. "entering" \in Places \ InEvaluation /\ "entering" \notin InExit
      /\ "idle" \notin InEvaluation /\ "idle" \notin InExit
    BY DEF Places, InEvaluation, InExit
<1>6. QED BY <1>1, <1>2, <1>3, <1>4, <1>5, MoveKeeps

LEMMA ShutdownKeeps == ASSUME IInv, ShutdownReads \/ Shutdown PROVE IInv'
<1> DEFINE at == pc["shutdown"]
<1>1. /\ "shutdown" \in Actors /\ "shutdown" # "tick" /\ "shutdown" \notin Streams
      /\ seen \in [Actors -> 0..Amount] /\ Amount \in Nat
    BY ActorsOf, Typed, StreamsAssumption DEF IInv, TypeOK
<1>2. /\ {"idle", "read", "returned", "done"} \subseteq Places
      /\ {"idle", "read", "returned", "done"} \cap InExit = {}
      /\ {"read", "done"} \subseteq ShutdownPlaces \ {"idle"}
    BY DEF Places, ShutdownPlaces, InEvaluation, InExit
<1>3. CASE ShutdownReads
    <2>1. /\ pc["shutdown"] = "idle" /\ Suspend("shutdown", "read") /\ Kept
          /\ UNCHANGED <<pos, evaluating, processing, order, wallet, indexed, closed, book, config>>
          /\ \E n \in {ReadBalance, 0} : seen' = [seen EXCEPT !["shutdown"] = n]
        BY <1>3 DEF ShutdownReads
    <2>2. seen' = [seen EXCEPT !["shutdown"] = seen'["shutdown"]] /\ seen'["shutdown"] \in 0..Amount
        BY <1>1, <2>1, ReadBalanceTyped
    <2>3. QED BY <1>1, <1>2, <2>1, <2>2, MoveKeeps
<1>4. CASE ShutdownRemoves \/ ShutdownEnds
    <2>1. /\ pc["shutdown"] \in {"read", "returned"} /\ Suspend("shutdown", "done")
          /\ Kept \/ Remove
          /\ UNCHANGED <<pos, evaluating, processing, seen, order, wallet, indexed, closed, book, config>>
        BY <1>4 DEF ShutdownRemoves, ShutdownEnds
    <2>2. seen' = [seen EXCEPT !["shutdown"] = seen'["shutdown"]] /\ seen'["shutdown"] \in 0..Amount
        BY <1>1, <2>1
    <2>3. QED BY <1>1, <1>2, <2>1, <2>2, MoveKeeps
<1>5. CASE ShutdownSells
    <2>1. /\ pc["shutdown"] = "read" /\ UNCHANGED <<evaluating, seen, wallet, indexed, book, config>>
          /\ \/ StartExit("shutdown", pos, seen["shutdown"], "full", 0) /\ Kept
             \/ StartExitOfNothing("shutdown", pos, seen["shutdown"], "full")
        BY <1>5 DEF ShutdownSells
    <2>2. /\ "full" \in Reasons /\ 0 \in Nat /\ "full" # "take-profit" /\ pos \in Positions
          /\ seen["shutdown"] \in 0..Amount /\ TypeOK /\ held \in BOOLEAN /\ closed \in 0..2
        BY <1>1, Typed DEF Reasons, IInv
    <2>3. /\ Begun("shutdown", pos, "full", 0) /\ closed' \in 0..2
          /\ held' \in BOOLEAN /\ ata' \in {ata, Unsubscribed}
        BY <1>1, <2>1, <2>2, StartExitBegins, StartExitOfNothingBegins DEF Kept
    <2>4. pc["shutdown"] \notin InExit
        BY <2>1 DEF InExit
    <2>5. QED BY <1>1, <2>1, <2>2, <2>3, <2>4, BegunKeeps
<1>6. QED BY <1>3, <1>4, <1>5 DEF Shutdown

\* A step that moves no actor and leaves the locks, the orders and the ladder.
LEMMA AsideKeeps ==
    ASSUME IInv, UNCHANGED <<evaluating, processing, pc, seen, order, wallet, book, config>>,
           held' \in BOOLEAN, pos' \in Positions, pos'.balance = pos.balance,
           pos'.targetsHit = pos.targetsHit, indexed' \in 0..Amount, closed' \in 0..2,
           ata' \in {Unsubscribed} \cup 0..Amount, PaperTrading => ata' = ata
    PROVE  IInv'
<1>1. /\ Amount' = Amount /\ MoonBag' = MoonBag /\ PaperTrading' = PaperTrading
    BY SameSettings
<1>2. TypeOK'
    BY <1>1 DEF IInv, TypeOK, Positions
<1>3. ExitsExclusive' /\ EvaluationsExclusive'
    BY DEF IInv, ExitsExclusive, EvaluationsExclusive
<1>4. PlacesSound'
    BY <1>1 DEF IInv, PlacesSound
<1>5. OrdersSound' /\ TargetsInOrder'
    BY <1>1 DEF IInv, OrdersSound, TargetsInOrder, Unsettled
<1>6. Covered'
    BY <1>1 DEF IInv, Covered
<1>7. QED BY <1>2, <1>3, <1>4, <1>5, <1>6 DEF IInv

LEMMA AsideStepsKeep ==
    ASSUME IInv, TimePasses \/ Index \/ AtaPush \/ UNCHANGED vars
    PROVE  IInv'
<1>1. /\ held \in BOOLEAN /\ pos \in Positions /\ indexed \in 0..Amount /\ closed \in 0..2
      /\ ata \in {Unsubscribed} \cup 0..Amount /\ (~PaperTrading => wallet \in 0..Amount)
    BY Typed DEF IInv, TypeOK, Covered
<1>2. CASE TimePasses
    <2>1. pos' = [pos EXCEPT !.zeroSince = "sustained"]
        BY <1>2 DEF TimePasses
    <2>2. /\ pos' \in Positions /\ pos'.balance = pos.balance /\ pos'.targetsHit = pos.targetsHit
        BY <1>1, <2>1 DEF Positions
    <2>3. /\ UNCHANGED <<evaluating, processing, pc, seen, order, wallet, book, config>>
          /\ UNCHANGED <<held, ata, indexed, closed>>
        BY <1>2 DEF TimePasses, Kept
    <2>4. QED BY <1>1, <2>2, <2>3, AsideKeeps
<1>3. CASE Index
    <2>1. /\ UNCHANGED <<evaluating, processing, pc, seen, order, wallet, book, config>>
          /\ UNCHANGED <<pos, held, ata, closed>> /\ indexed' = wallet /\ ~PaperTrading
        BY <1>3 DEF Index, Kept
    <2>2. QED BY <1>1, <2>1, AsideKeeps
<1>4. CASE AtaPush
    <2>1. /\ UNCHANGED <<evaluating, processing, pc, seen, order, wallet, book, config>>
          /\ UNCHANGED <<pos, held, indexed, closed>> /\ ata' = wallet /\ ~PaperTrading
        BY <1>4 DEF AtaPush
    <2>2. QED BY <1>1, <2>1, AsideKeeps
<1>5. CASE UNCHANGED vars
    BY <1>1, <1>5, AsideKeeps DEF vars
<1>6. QED BY <1>2, <1>3, <1>4, <1>5

-----------------------------------------------------------------------------
(* The invariant, and the theorems.                                        *)

LEMMA InitSound == ASSUME Init PROVE IInv
<1>1. /\ config \in Configs
      /\ pos = [balance |-> Amount, targetsHit |-> 0, zeroSince |-> "never"]
      /\ held = TRUE /\ evaluating = FALSE /\ processing = FALSE /\ closed = 0
      /\ pc = [a \in Actors |-> "idle"] /\ seen = [a \in Actors |-> 0]
      /\ order = [a \in Actors |-> NoOrder]
      /\ ata \in {Unsubscribed, 0} /\ book = [landed |-> 0, unbooked |-> 0]
    BY DEF Init
<1>2. Amount \in Nat \ {0} /\ PaperTrading \in BOOLEAN
    BY <1>1, Settings
<1>3. wallet \in 0..Amount /\ indexed \in 0..Amount /\ (PaperTrading => wallet = Amount)
    BY <1>2 DEF Init
<1>4. TypeOK
    <2>1. NoOrder \in Orders
        BY <1>2 DEF NoOrder, Orders, Reasons
    <2>2. order \in [Actors -> Orders] /\ seen \in [Actors -> 0..Amount] /\ pc \in [Actors -> Places]
        BY <1>1, <1>2, <2>1 DEF Places
    <2>3. pos \in Positions
        BY <1>1, <1>2 DEF Positions
    <2>4. wallet \in Int /\ ata \in {Unsubscribed} \cup 0..Amount
        BY <1>1, <1>2, <1>3
    <2>5. held \in BOOLEAN /\ evaluating \in BOOLEAN /\ processing \in BOOLEAN
        BY <1>1, Zenon
    <2>6. /\ config \in Configs /\ indexed \in 0..Amount /\ closed \in 0..2
          /\ book \in [landed : Nat, unbooked : Nat]
        BY <1>1, <1>3
    <2>7. QED BY <2>2, <2>3, <2>4, <2>5, <2>6 DEF TypeOK, Orders, Places, Positions
<1>5. \A a \in Actors : pc[a] = "idle" /\ seen[a] = 0 /\ order[a] = NoOrder
    BY <1>1
<1>6. "idle" \notin InEvaluation /\ "idle" \notin InExit /\ "idle" \in ShutdownPlaces
      /\ "idle" \notin LivePlaces
    BY DEF InEvaluation, InExit, ShutdownPlaces, LivePlaces
<1>7. ExitsExclusive /\ EvaluationsExclusive
    BY <1>1, <1>5, <1>6, ActorsOf DEF ExitsExclusive, EvaluationsExclusive
<1>8. PlacesSound
    BY <1>1, <1>5, <1>6, ActorsOf DEF PlacesSound, NoOrder
<1>9. OrdersSound /\ TargetsInOrder
    <2>1. Unsettled = {}
        BY <1>5 DEF Unsettled
    <2>2. QED BY <1>1, <1>5, <1>6, <2>1 DEF OrdersSound, TargetsInOrder
<1>10. Covered
    BY <1>1, <1>2, <1>3, <1>5, ActorsOf DEF Covered
<1>11. QED BY <1>4, <1>7, <1>8, <1>9, <1>10 DEF IInv

LEMMA IInvHolds == Spec => []IInv
<1>1. Init => IInv
    BY InitSound
<1>2. IInv /\ [Next]_vars => IInv'
    BY ExitKeeps, EvaluationKeeps, TickKeeps, StreamEntersKeeps, ShutdownKeeps, AsideStepsKeep
       DEF Next
<1>3. QED BY <1>1, <1>2, PTL DEF Spec

\* The values stay of their kind, exits exclude each other, evaluations
\* exclude each other, and each lock is held exactly while its section runs
\* (processingMints and evaluatingMints), for any number of vault streams.
THEOREM ExitsAndEvaluationsExclude == Spec => []Consistent
<1>1. IInv => Consistent
    BY DEF IInv, Consistent
<1>2. QED BY <1>1, IInvHolds, PTL

\* A take-profit sale in flight is for the first target not yet banked,
\* whatever happened while evaluateSinglePosition awaited the balance, and
\* targetsHit counts every landed sale once but for the one still settling and
\* those whose exit threw after they landed: no interleaving sells a rung twice.
THEOREM LadderIsClimbedInOrder == Spec => []TargetsInOrder
<1>1. IInv => TargetsInOrder
    BY DEF IInv
<1>2. QED BY <1>1, IInvHolds, PTL

\* Before a shutdown no actor sells tokens the wallet no longer has.
THEOREM NothingIsSoldTwice == Spec => []NoPhantomSale
<1>1. ASSUME IInv PROVE NoPhantomSale
    BY <1>1, Typed DEF IInv, Covered, NoPhantomSale
<1>2. QED BY <1>1, IInvHolds, PTL

\* A paper sale for a protected reason before a shutdown leaves the reserved
\* runner, for every way to set the runner and the ladder.
THEOREM RunnerStays == Spec => MoonBagExempt
<1> DEFINE Exempt ==
      \A a \in Actors : /\ PaperTrading /\ pc["shutdown"] = "idle"
                        /\ order[a].protected /\ pc[a] \in InExit /\ wallet' < wallet
                        => wallet' >= MoonBag
<1>1. IInv /\ [Next]_vars => Exempt
    <2> SUFFICES ASSUME IInv, [Next]_vars, NEW a \in Actors, PaperTrading, pc["shutdown"] = "idle",
                        order[a].protected, pc[a] \in InExit, wallet' < wallet
                 PROVE  wallet' >= MoonBag
        OBVIOUS
    <2>1. wallet' # wallet
        BY Typed
    <2>2. \E b \in Actors : PaperFill(b) \/ Swap(b) \/ ExitFails(b)
        BY <2>1, ActorsOf
           DEF Next, vars, Exit, PaperDust, CheckBalance, Settle, Evaluation,
               GiveWay, SeeNothing, SkipPriceless, LiquidityExit, Evaluate, SellTarget, MissTarget,
               ResumeSoldTarget, ResumeMissedMidpoint, ResumeMissedInsider, ResumeElse,
               TickReads, TickEnters, StreamEnters, ShutdownReads, Shutdown,
               ShutdownRemoves, ShutdownSells, ShutdownEnds, TimePasses, Index, AtaPush
    <2>3. PICK b \in Actors : PaperFill(b) \/ Swap(b) \/ ExitFails(b)
        BY <2>2
    <2>4. b = a
        BY <2>3 DEF IInv, ExitsExclusive, PaperFill, Swap, ExitFails, InExit
    <2>5. pc[a] = "quoting" /\ a = "tick"
        BY TheTickQuotes
    <2>6. wallet' = wallet - order[a].amount
        BY <2>1, <2>3, <2>4, <2>5 DEF PaperFill, Swap, ExitFails
    <2>7. order[a].amount + MoonBag <= order[a].before /\ order[a].before <= wallet
        BY <2>5 DEF IInv, OrdersSound, Covered
    <2>8. QED BY <2>6, <2>7, Typed
<1>2. QED BY <1>1, IInvHolds, PTL DEF Spec, MoonBagExempt

==============================================================================
