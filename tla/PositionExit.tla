---------------------------- MODULE PositionExit ----------------------------
(***************************************************************************)
(* The life of one open position under the risk monitor.  Several          *)
(* asynchronous actors share one mutable Position object:                  *)
(*                                                                         *)
(*   - the monitor tick (monitor.service.ts, monitorPositions), which      *)
(*     reads every balance first, awaits a security audit, and evaluates   *)
(*     the position afterwards with the balance it read;                   *)
(*   - the vault push-streams (bot.ts, recalculate...Price), which evaluate*)
(*     the position with the balance cached from the wallet's own stream;  *)
(*   - the shutdown (closeAllOpenPositions), which sells without taking    *)
(*     the evaluation lock.                                                *)
(*                                                                         *)
(* A step of the model is the code between two awaits.  evaluatingMints    *)
(* and processingMints are the code's two locks, here for the one mint.    *)
(* Which exit rule fires depends on prices and is a free choice among the  *)
(* classes of exits the executor tells apart.  Amounts are token units.    *)
(***************************************************************************)
EXTENDS Integers, FiniteSetsExt

CONSTANTS
    Streams,                 \* vault subscriptions of the mint (two per pool)
    Configs                  \* the settings explored; one is chosen at the start

ASSUME ConfigsAssumption ==
    \A c \in Configs :
        /\ c.amount \in Nat \ {0}
        /\ c.moonBag \in 0..c.amount
        /\ c.takeProfits \in Nat
        /\ {c.paperTrading, c.closePositionsOnShutdown} \subseteq BOOLEAN
ASSUME StreamsAssumption == {"tick", "shutdown"} \cap Streams = {}

VARIABLES
    config,       \* the settings, read by loadConfig and never changed
    held,         \* ctx.state.positions has the mint
    pos,          \* the Position object; evaluations keep it after removal
    evaluating,   \* evaluatingMints has the mint
    processing,   \* processingMints has the mint
    pc,           \* where each actor is suspended
    seen,         \* the balance each actor carries across its awaits
    order,        \* the exit each actor asked for
    wallet,       \* tokens unsold: on chain when live, in the paper ledger
    indexed,      \* live: the balance the RPC node answers with
    ata,          \* ataBalanceCache, Unsubscribed once the streams are cut
    closed,       \* recordClosedTrade calls, counted up to 2
    book          \* history: take-profit sales that landed, and those of them
                  \* whose exit failed before they were booked

vars == <<config, held, pos, evaluating, processing, pc, seen, order,
          wallet, indexed, ata, closed, book>>

Amount == config.amount              \* tokens bought
MoonBag == config.moonBag            \* moonBagRaw, the reserved runner
TakeProfits == config.takeProfits    \* length of takeProfitMultiples
PaperTrading == config.paperTrading
ClosePositionsOnShutdown == config.closePositionsOnShutdown

Actors == Streams \cup {"tick", "shutdown"}
Evaluators == Actors \ {"shutdown"}
Unsubscribed == -1

Reasons == {"take-profit", "midpoint", "de-risk", "insider", "full"}

\* isMoonBagProtected
Protected(reason, targetsHit) ==
    \/ reason = "take-profit"
    \/ targetsHit >= 1 /\ reason \in {"midpoint", "de-risk"}

NoOrder == [amount |-> 0, before |-> 0, reason |-> "full", target |-> 0,
            protected |-> FALSE, sold |-> FALSE]

InExit == {"quoting", "checking", "swapping", "settling"}
InEvaluation == {"target", "returned"} \cup InExit

TypeOK ==
    /\ config \in Configs
    /\ held \in BOOLEAN
    /\ pos \in [balance : 0..Amount, targetsHit : Nat,
                zeroSince : {"never", "recent", "sustained"}]
    /\ evaluating \in BOOLEAN
    /\ processing \in BOOLEAN
    /\ pc \in [Actors -> {"idle", "read", "entering", "done"} \cup InEvaluation]
    /\ seen \in [Actors -> 0..Amount]
    /\ order \in [Actors -> [amount : 0..Amount, before : 0..Amount, reason : Reasons,
                             target : Nat, protected : BOOLEAN, sold : BOOLEAN]]
    /\ wallet \in Int
    /\ indexed \in 0..Amount
    /\ ata \in {Unsubscribed} \cup 0..Amount
    /\ closed \in 0..2
    /\ book \in [landed : Nat, unbooked : Nat]

\* A live buy may have failed to land, and the RPC node may not see it yet.
Init ==
    /\ config \in Configs
    /\ held = TRUE
    /\ pos = [balance |-> Amount, targetsHit |-> 0, zeroSince |-> "never"]
    /\ evaluating = FALSE
    /\ processing = FALSE
    /\ pc = [a \in Actors |-> "idle"]
    /\ seen = [a \in Actors |-> 0]
    /\ order = [a \in Actors |-> NoOrder]
    /\ wallet \in IF PaperTrading THEN {Amount} ELSE {0, Amount}
    /\ indexed \in IF PaperTrading THEN {0} ELSE {0, wallet}
    /\ ata = IF Streams = {} THEN Unsubscribed ELSE 0
    /\ closed = 0
    /\ book = [landed |-> 0, unbooked |-> 0]

-----------------------------------------------------------------------------
(* The store and the trade log.                                            *)

Remove == /\ held' = FALSE
          /\ ata' = Unsubscribed         \* the positionRemoved listener
Upsert == /\ held' = TRUE
          /\ UNCHANGED ata
Kept == UNCHANGED <<held, ata>>
RecordClosedTrade == closed' = IF closed < 2 THEN closed + 1 ELSE closed

ReadBalance_Initial == IF ~PaperTrading THEN indexed
                       ELSE IF held THEN Amount ELSE 0   \* Mutant: what the comment warns of

\* getWalletTokenBalance: on paper the store's running balance of a held
\* position, live whatever the RPC node has indexed.
ReadBalance == IF ~PaperTrading THEN indexed
               ELSE IF held THEN pos.balance ELSE 0

-----------------------------------------------------------------------------
(* executePositionExit.                                                    *)

Sellable_OffByOne(p, amount, reason) ==   \* Mutant: the cap misses the last token
    IF MoonBag = 0 \/ ~Protected(reason, p.targetsHit) THEN amount
    ELSE Min({amount, Max({p.balance - MoonBag + 1, 0})})

\* The moon-bag cap on a requested sale.
Sellable(p, amount, reason) ==
    IF MoonBag = 0 \/ ~Protected(reason, p.targetsHit) THEN amount
    ELSE Min({amount, Max({p.balance - MoonBag, 0})})

Suspend(a, at) == pc' = [pc EXCEPT ![a] = at]

\* The caller resumes with the exit's result.
Return(a, sold) ==
    /\ Suspend(a, "returned")
    /\ order' = [order EXCEPT ![a].sold = sold]

Unlock(a, sold) == Return(a, sold) /\ processing' = FALSE

Locked_Never == FALSE           \* Mutant: the executor does not ask its lock

Locked == processing

\* Up to the executor's first await.  The caller has just set pos to p.
StartExit(a, p, amount, reason, target) ==
    LET sell == Sellable(p, amount, reason)
        asked == [amount |-> IF PaperTrading THEN Min({sell, p.balance}) ELSE sell,
                  before |-> p.balance, reason |-> reason, target |-> target,
                  protected |-> MoonBag > 0 /\ Protected(reason, p.targetsHit),
                  sold |-> FALSE]
    IN  /\ pos' = p
        /\ order' = [order EXCEPT ![a] = asked]
        /\ \/ /\ sell = 0 \/ Locked
              /\ Suspend(a, "returned")
              /\ UNCHANGED <<processing, closed>>
           \/ /\ sell > 0 /\ ~Locked
              /\ ~(PaperTrading /\ p.balance = 0)
              /\ processing' = TRUE
              /\ Suspend(a, IF PaperTrading THEN "quoting" ELSE "checking")
              /\ UNCHANGED closed

\* A paper position with nothing left is closed on the spot.
StartExitOfNothing(a, p, amount, reason) ==
    /\ PaperTrading /\ p.balance = 0
    /\ Sellable(p, amount, reason) > 0 /\ ~Locked
    /\ pos' = p
    /\ order' = [order EXCEPT ![a] = [NoOrder EXCEPT !.reason = reason]]
    /\ Suspend(a, "returned")
    /\ Remove
    /\ RecordClosedTrade
    /\ UNCHANGED processing

\* What a booked exit adds to targetsHit, and what one counts in the history.
Banked(a) == IF order[a].reason = "take-profit" THEN 1 ELSE 0
Rung(a) == IF order[a].reason = "take-profit" THEN 1 ELSE 0

\* The quote arrived: credit the proceeds and book what remains.
PaperFill(a) ==
    LET remain == order[a].before - order[a].amount IN
    /\ pc[a] = "quoting"
    /\ pos' = [pos EXCEPT !.balance = remain, !.targetsHit = @ + Banked(a)]
    /\ wallet' = wallet - order[a].amount
    /\ book' = [book EXCEPT !.landed = @ + Rung(a)]
    /\ IF remain > 0 THEN Upsert /\ UNCHANGED closed
                     ELSE Remove /\ RecordClosedTrade
    /\ Unlock(a, TRUE)
    /\ UNCHANGED <<evaluating, seen, indexed, config>>

\* "rounded to zero": the position is closed as dust, unsold.
PaperDust(a) ==
    /\ pc[a] = "quoting"
    /\ pos' = [pos EXCEPT !.balance = 0]
    /\ Remove
    /\ RecordClosedTrade
    /\ Unlock(a, TRUE)
    /\ UNCHANGED <<evaluating, seen, wallet, indexed, book, config>>

\* Any error in the executor gives up the exit, and nothing more is booked:
\* nothing may have been sold, the swap may have landed although its
\* confirmation threw, or the balance after the swap may not be readable.
ExitFails(a) ==
    /\ pc[a] \in InExit
    /\ \/ /\ pc[a] # "settling"
          /\ UNCHANGED <<wallet, book>>
       \/ /\ pc[a] = "swapping" /\ order[a].amount <= wallet
          /\ wallet' = wallet - order[a].amount
          /\ book' = [book EXCEPT !.landed = @ + Rung(a), !.unbooked = @ + Rung(a)]
       \/ /\ pc[a] = "settling"
          /\ book' = [book EXCEPT !.unbooked = @ + Rung(a)]
          /\ UNCHANGED wallet
    /\ Unlock(a, FALSE)
    /\ Kept
    /\ UNCHANGED <<pos, evaluating, seen, indexed, closed, config>>

\* Live: the balance before the swap.  Zero is tolerated for 15 s.
CheckBalance(a) ==
    LET sell == Min({order[a].amount, indexed}) IN
    /\ pc[a] = "checking"
    /\ \/ /\ sell > 0
          /\ pos' = [pos EXCEPT !.zeroSince = "never"]
          /\ order' = [order EXCEPT ![a].amount = sell, ![a].before = indexed]
          /\ Suspend(a, "swapping")
          /\ Kept
          /\ UNCHANGED processing
       \/ /\ sell = 0 /\ pos.zeroSince # "sustained"
          /\ pos' = [pos EXCEPT !.zeroSince = "recent"]
          /\ Unlock(a, FALSE)
          /\ Kept
       \/ /\ sell = 0 /\ pos.zeroSince = "sustained"
          /\ Remove
          /\ Unlock(a, FALSE)
          /\ UNCHANGED pos
    /\ UNCHANGED <<evaluating, seen, wallet, indexed, closed, book, config>>

\* The swap lands on chain; it cannot sell more than the wallet has.
Swap(a) ==
    /\ pc[a] = "swapping"
    /\ order[a].amount <= wallet
    /\ wallet' = wallet - order[a].amount
    /\ book' = [book EXCEPT !.landed = @ + Rung(a)]
    /\ Suspend(a, "settling")
    /\ Kept
    /\ UNCHANGED <<pos, evaluating, processing, seen, order, indexed, closed, config>>

\* Two seconds later the balance is read again and the sale is booked.
Settle(a) ==
    LET fallback == order[a].before - order[a].amount
        hit == pos.targetsHit + Banked(a)
        left == IF indexed < order[a].before THEN indexed ELSE fallback
        over == indexed = 0 \/ (MoonBag = 0 /\ hit >= TakeProfits)
    IN  /\ pc[a] = "settling"
        /\ pos' = [pos EXCEPT !.balance = left, !.targetsHit = hit]
        /\ IF over THEN Remove /\ RecordClosedTrade
                   ELSE Upsert /\ UNCHANGED closed
        /\ Unlock(a, TRUE)
        /\ UNCHANGED <<evaluating, seen, wallet, indexed, book, config>>

-----------------------------------------------------------------------------
(* evaluateSinglePosition.                                                 *)

\* The actor returns, and what it carried is gone.
Forget(a) ==
    /\ Suspend(a, "idle")
    /\ seen' = [seen EXCEPT ![a] = 0]
    /\ order' = [order EXCEPT ![a] = NoOrder]

Leave_KeepsLock(a) ==            \* Mutant: an early return past the finally
    /\ Forget(a)
    /\ evaluating' = (evaluating \/ seen[a] = 0)

\* The finally block frees the mint.
Leave(a) == Forget(a) /\ evaluating' = FALSE

Busy_ProcessingOnly == processing      \* Mutant: evaluatingMints is not asked

Busy == processing \/ evaluating

\* Another actor is at it: the lock is not taken.
GiveWay(a) ==
    /\ pc[a] = "entering" /\ Busy
    /\ Forget(a)
    /\ Kept
    /\ UNCHANGED <<pos, evaluating, processing, wallet, indexed, closed, book, config>>

\* A zero balance is tolerated for 15 s, then written off as a loss.
SeeNothing(a) ==
    /\ pc[a] = "entering" /\ ~Busy /\ seen[a] = 0
    /\ Leave(a)
    /\ \/ /\ pos.zeroSince # "sustained"
          /\ pos' = [pos EXCEPT !.zeroSince = "recent"]
          /\ Kept
          /\ UNCHANGED closed
       \/ /\ pos.zeroSince = "sustained"
          /\ RecordClosedTrade
          /\ Remove
          /\ UNCHANGED pos
    /\ UNCHANGED <<processing, wallet, indexed, book, config>>

Found == [pos EXCEPT !.zeroSince = "never"]

\* No price in this tick.
SkipPriceless(a) ==
    /\ pc[a] = "entering" /\ ~Busy /\ seen[a] > 0
    /\ pos' = Found
    /\ Leave(a)
    /\ Kept
    /\ UNCHANGED <<processing, wallet, indexed, closed, book, config>>

\* The liquidity floor is looked at before the price.
LiquidityExit(a) ==
    /\ pc[a] = "entering" /\ ~Busy /\ seen[a] > 0
    /\ evaluating' = TRUE
    /\ \/ StartExit(a, Found, seen[a], "full", 0) /\ Kept
       \/ StartExitOfNothing(a, Found, seen[a], "full")
    /\ UNCHANGED <<seen, wallet, indexed, book, config>>

\* isRunnerOnly, with the code's one per cent of slack.
RunnerOnly(p) == /\ MoonBag > 0 /\ p.balance > 0
                 /\ p.balance <= MoonBag + MoonBag \div 100

\* The rules that may fire, in the classes the executor distinguishes.  The
\* insider rule comes first and is the one whose failure lets the others run;
\* its attempts for the several drifted holders are one here.
Firing(p, balance) ==
    {<<"full", n>> : n \in 1..balance} \cup
    (IF RunnerOnly(p) THEN {} ELSE {<<"de-risk", balance>>}) \cup
    (IF RunnerOnly(p) \/ p.targetsHit >= TakeProfits THEN {}
     ELSE {<<"midpoint", balance>>})

\* Await a fresh balance for the next target of the ladder.
Aim(a, target) ==
    /\ Suspend(a, "target")
    /\ order' = [order EXCEPT ![a] = [NoOrder EXCEPT !.target = target]]
    /\ evaluating' = TRUE
    /\ UNCHANGED seen

Rules(a, p) ==
    \/ /\ Leave(a)
       /\ pos' = p
       /\ UNCHANGED <<processing, closed>>
    \/ /\ \E c \in Firing(p, seen[a]) : StartExit(a, p, c[2], c[1], 0)
       /\ evaluating' = TRUE
       /\ UNCHANGED seen
    \/ /\ ~RunnerOnly(p) /\ p.targetsHit < TakeProfits
       /\ Aim(a, p.targetsHit + 1)
       /\ pos' = p
       /\ UNCHANGED <<processing, closed>>

\* A price is known: the position takes over the balance the actor carries
\* and is saved, then the rules run.
Evaluate(a) ==
    /\ pc[a] = "entering" /\ ~Busy /\ seen[a] > 0
    /\ Upsert
    /\ LET p == [Found EXCEPT !.balance = seen[a]] IN
         \/ Rules(a, p)
         \/ /\ StartExit(a, p, seen[a], "insider", 0)
            /\ evaluating' = TRUE
            /\ UNCHANGED seen
    /\ UNCHANGED <<wallet, indexed, book, config>>

\* The fresh balance arrived: sell the target's fraction of it.
SellTarget(a) ==
    /\ pc[a] = "target"
    /\ \E n \in 0..ReadBalance :
         StartExit(a, pos, n, "take-profit", order[a].target)
    /\ Kept
    /\ UNCHANGED <<evaluating, seen, wallet, indexed, book, config>>

\* The fresh balance could not be read (live): the error leaves the
\* evaluation, whose finally frees the mint.
MissTarget(a) ==
    /\ pc[a] = "target" /\ ~PaperTrading
    /\ Leave(a)
    /\ Kept
    /\ UNCHANGED <<pos, processing, wallet, indexed, closed, book, config>>

\* The evaluation resumes after its exit.
ResumeSoldTarget(a) ==
    /\ pc[a] = "returned" /\ order[a].sold /\ order[a].reason = "take-profit"
    /\ Upsert
    /\ \/ pos.targetsHit < TakeProfits /\ Aim(a, pos.targetsHit + 1)
       \/ Leave(a)
    /\ UNCHANGED <<pos, processing, wallet, indexed, closed, book, config>>

ResumeMissedMidpoint(a) ==
    /\ pc[a] = "returned" /\ ~order[a].sold /\ order[a].reason = "midpoint"
    /\ Upsert
    /\ Leave(a)
    /\ UNCHANGED <<pos, processing, wallet, indexed, closed, book, config>>

ResumeMissedInsider(a) ==
    /\ pc[a] = "returned" /\ ~order[a].sold /\ order[a].reason = "insider"
    /\ \/ Rules(a, pos) /\ Kept
       \/ /\ \E c \in Firing(pos, seen[a]) : StartExitOfNothing(a, pos, c[2], c[1])
          /\ UNCHANGED <<evaluating, seen>>
    /\ UNCHANGED <<wallet, indexed, book, config>>

ResumeElse(a) ==
    /\ pc[a] = "returned"
    /\ IF order[a].sold THEN order[a].reason # "take-profit"
                        ELSE order[a].reason \notin {"midpoint", "insider"}
    /\ Leave(a)
    /\ Kept
    /\ UNCHANGED <<pos, processing, wallet, indexed, closed, book, config>>

-----------------------------------------------------------------------------
(* The actors.                                                             *)

\* monitorPositions reads all balances, then awaits the security audit.
TickReads ==
    /\ pc["tick"] = "idle" /\ held
    /\ pc["shutdown"] = "idle"              \* shouldStop
    /\ seen' = [seen EXCEPT !["tick"] = ReadBalance]
    /\ Suspend("tick", "read")
    /\ Kept
    /\ UNCHANGED <<pos, evaluating, processing, order, wallet, indexed, closed, book, config>>

\* The pool looks the position up again and calls the evaluation.
TickEnters ==
    /\ pc["tick"] = "read"
    /\ IF held THEN Suspend("tick", "entering") /\ UNCHANGED seen
               ELSE Suspend("tick", "idle") /\ seen' = [seen EXCEPT !["tick"] = 0]
    /\ Kept
    /\ UNCHANGED <<pos, evaluating, processing, order, wallet, indexed, closed, book, config>>

\* A vault notification; without a pushed balance the default is zero.
StreamEnters(s) ==
    /\ pc[s] = "idle" /\ held /\ ata # Unsubscribed
    /\ seen' = [seen EXCEPT ![s] = ata]
    /\ Suspend(s, "entering")
    /\ Kept
    /\ UNCHANGED <<pos, evaluating, processing, order, wallet, indexed, closed, book, config>>

\* closeAllOpenPositions; a failed balance batch reads as zero.
ShutdownReads ==
    /\ ClosePositionsOnShutdown
    /\ pc["shutdown"] = "idle" /\ held
    /\ \E balance \in {ReadBalance} \cup (IF PaperTrading THEN {} ELSE {0}) :
         seen' = [seen EXCEPT !["shutdown"] = balance]
    /\ Suspend("shutdown", "read")
    /\ Kept
    /\ UNCHANGED <<pos, evaluating, processing, order, wallet, indexed, closed, book, config>>

ShutdownRemoves ==
    /\ pc["shutdown"] = "read"
    /\ ~held \/ seen["shutdown"] = 0
    /\ Remove
    /\ Suspend("shutdown", "done")
    /\ UNCHANGED <<pos, evaluating, processing, seen, order, wallet, indexed, closed, book, config>>

ShutdownSells ==
    /\ pc["shutdown"] = "read" /\ held /\ seen["shutdown"] > 0
    /\ \/ StartExit("shutdown", pos, seen["shutdown"], "full", 0) /\ Kept
       \/ StartExitOfNothing("shutdown", pos, seen["shutdown"], "full")
    /\ UNCHANGED <<evaluating, seen, wallet, indexed, book, config>>

ShutdownEnds ==
    /\ pc["shutdown"] = "returned"
    /\ Suspend("shutdown", "done")
    /\ Kept
    /\ UNCHANGED <<pos, evaluating, processing, seen, order, wallet, indexed, closed, book, config>>

\* Fifteen seconds go by; the node indexes; the wallet's stream delivers.
TimePasses ==
    /\ pos.zeroSince = "recent"
    /\ pos' = [pos EXCEPT !.zeroSince = "sustained"]
    /\ Kept
    /\ UNCHANGED <<evaluating, processing, pc, seen, order, wallet, indexed, closed, book, config>>
Index ==
    /\ ~PaperTrading /\ indexed # wallet
    /\ indexed' = wallet
    /\ Kept
    /\ UNCHANGED <<pos, evaluating, processing, pc, seen, order, wallet, closed, book, config>>
AtaPush ==
    /\ ~PaperTrading /\ ata \notin {Unsubscribed, wallet}
    /\ ata' = wallet
    /\ UNCHANGED <<held, pos, evaluating, processing, pc, seen, order, wallet,
                   indexed, closed, book, config>>

Exit(a) == \/ PaperFill(a) \/ PaperDust(a) \/ ExitFails(a)
           \/ CheckBalance(a) \/ Swap(a) \/ Settle(a)
Evaluation(a) ==
    \/ GiveWay(a) \/ SeeNothing(a) \/ SkipPriceless(a) \/ LiquidityExit(a)
    \/ Evaluate(a) \/ SellTarget(a) \/ MissTarget(a)
    \/ ResumeSoldTarget(a) \/ ResumeMissedMidpoint(a)
    \/ ResumeMissedInsider(a) \/ ResumeElse(a)
Shutdown == ShutdownRemoves \/ ShutdownSells \/ ShutdownEnds

Next ==
    \/ \E a \in Actors : Exit(a)
    \/ \E a \in Evaluators : Evaluation(a)
    \/ TickReads \/ TickEnters \/ \E s \in Streams : StreamEnters(s)
    \/ ShutdownReads \/ Shutdown
    \/ TimePasses \/ Index \/ AtaPush

\* Every await ends: quotes, RPC calls, swaps and the audit all time out.
Fairness ==
    /\ \A a \in Evaluators : WF_vars(Exit(a) \/ Evaluation(a))
    /\ WF_vars(Exit("shutdown") \/ Shutdown)
    /\ WF_vars(TickEnters)

Spec == Init /\ [][Next]_vars
FairSpec == Spec /\ Fairness

-----------------------------------------------------------------------------
(* Properties.                                                             *)

\* Two exits of the mint are never in flight together, and processingMints
\* is held exactly while one is.
ExitsExclusive ==
    /\ \A a, b \in Actors : pc[a] \in InExit /\ pc[b] \in InExit => a = b
    /\ processing <=> \E a \in Actors : pc[a] \in InExit

\* evaluatingMints admits one evaluation at a time over every await inside
\* it, and is held exactly while one is going on.
EvaluationsExclusive ==
    /\ \A a, b \in Evaluators : pc[a] \in InEvaluation /\ pc[b] \in InEvaluation => a = b
    /\ evaluating <=> \E a \in Evaluators : pc[a] \in InEvaluation

\* The values are of their kind; exits and evaluations exclude each other.
Consistent == TypeOK /\ ExitsExclusive /\ EvaluationsExclusive

\* Landed take-profit sales whose proceeds are still to be booked.
Unsettled == {a \in Actors : pc[a] = "settling" /\ order[a].reason = "take-profit"}

\* The ladder is climbed one rung at a time.  A take-profit sale in flight is
\* for the first target not yet banked, although the target was picked before
\* the balance was awaited; and each sale that landed is counted in
\* targetsHit once, but for the one still settling and those whose exit failed
\* after they landed (exit-executor.ts:292).  So a rung is sold again only
\* because an earlier sale of a rung was never booked.
TargetsInOrder ==
    /\ \A a \in Actors : pc[a] \in InExit /\ order[a].reason = "take-profit"
                         => order[a].target = pos.targetsHit + 1
    /\ book.landed = pos.targetsHit + book.unbooked + (IF Unsettled = {} THEN 0 ELSE 1)

\* Never are more tokens sold than were bought, until a shutdown sells beside
\* the tick (exit-executor.ts: the running balance is to prevent phantom
\* sells).
NoPhantomSale == pc["shutdown"] = "idle" => wallet >= 0

\* On paper and until a shutdown, a sale for a protected reason leaves the
\* reserved runner in the wallet (.env.example: exempt from routine
\* take-profit).  Live it may not: the balance a tick read before its audit
\* may be larger than the wallet's.
MoonBagExempt ==
    [][\A a \in Actors : /\ PaperTrading /\ pc["shutdown"] = "idle"
                         /\ order[a].protected /\ pc[a] \in InExit /\ wallet' < wallet
                         => wallet' >= MoonBag]_vars

\* An evaluation always ends and frees its mint.
EvaluationsEnd == evaluating ~> ~evaluating

\* closeAllOpenPositions returns.
ShutdownReturns == pc["shutdown"] = "read" ~> pc["shutdown"] = "done"

\* Nothing an evaluation or the shutdown awaits holds a position for ever.
ExitsReturn == EvaluationsEnd /\ ShutdownReturns

=============================================================================
