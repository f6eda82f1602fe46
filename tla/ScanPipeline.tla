----------------------------- MODULE ScanPipeline -----------------------------
(***************************************************************************)
(* The candidate pipeline: the discovery and trending loops of core/bot.ts *)
(* request scans, runScanExclusive chains them, scanForCandidates          *)
(* (services/scanner/scanner.service.ts) audits fresh mints and due        *)
(* rechecks in two bounded pools, and services/buy.ts opens positions.     *)
(* JavaScript runs one continuation at a time, so an action is the code    *)
(* from one await to the next; the order of timers and answers is free.    *)
(*                                                                         *)
(* A candidate passes a cheap audit, waits (survival), passes a second     *)
(* cheap audit, waits (final) and passes the full audit, which buys it.    *)
(* Time, prices and scores are abstracted: a recheck may be due, a token   *)
(* too old and an audit positive at any moment.  A buy costs one unit.     *)
(***************************************************************************)
EXTENDS Integers, Sequences, FiniteSets

CONSTANTS
  Mints,
  Scans,                   \* bound: scan bodies that may exist at once
  MaxOpenPositions,        \* config.maxOpenPositions
  MaxBuysPerScan,          \* config.maxBuysPerScan
  LightConcurrency,        \* config.scanParallelismLight
  HeavyConcurrency,        \* config.scanParallelismHeavy
  MaxRecheckAttempts,      \* config.maxRecheckAttempts
  MaxIndexingLagRetries,   \* MAX_INDEXING_LAG_RETRIES
  MaxTrackedMints,         \* MAX_TRACKED_MINTS
  LaunchpadOf,             \* the launchpad of each mint, or NoLaunchpad
  Configs,                 \* settings explored; one is chosen at the start
  InitialBalance           \* paper balance, in buys

ASSUME LimitsAssumption ==
  /\ {MaxOpenPositions, MaxBuysPerScan, MaxIndexingLagRetries,
      InitialBalance} \subseteq Nat
  /\ {LightConcurrency, HeavyConcurrency, MaxRecheckAttempts, MaxTrackedMints}
       \subseteq Nat \ {0}
ASSUME SetsAssumption ==
  IsFiniteSet(Mints) /\ DOMAIN LaunchpadOf = Mints
ASSUME ConfigsAssumption ==
  /\ \A c \in Configs :
       c.paperTrading \in BOOLEAN /\ c.maxPositionsPerLaunchpad \in Nat

VARIABLES
  config,              \* the settings, which never change
  lots,                \* buys behind the entry of each mint in positions
  balance,             \* paperSolBalanceLamports, in buys
  processedMintQueue,  \* processedMintQueue; its range is processedMints
  rechecks,            \* pendingCandidateRechecks
  coolDownMints,
  scanChain,           \* scans whose promise has not settled; the head runs
  phase,               \* where the body of each scan is
  item,                \* progress of each work item
  recheckEntry,        \* the entry a work item was built from
  buys,                \* metrics.buys
  reservedBuys         \* metrics.reservedBuys

storeVars == <<config, lots, balance, processedMintQueue, rechecks, coolDownMints>>
scanVars == <<scanChain, phase, item, recheckEntry, buys, reservedBuys>>
vars == <<storeVars, scanVars>>

-----------------------------------------------------------------------------
Entries == [stage : {"survival", "final", "plain"},
            attempts : 0..MaxRecheckAttempts, lag : 0..MaxIndexingLagRetries]
paperTrading == config.paperTrading
MaxPositionsPerLaunchpad == config.maxPositionsPerLaunchpad   \* 0: no cap
NoLaunchpad == ""

NoEntry == [stage |-> "none", attempts |-> 0, lag |-> 0]

Running == {"prefetch", "breaker", "auditing"}
Auditing == {"audit", "approved", "ordered"}

MintsOf(queue) == {queue[i] : i \in DOMAIN queue}
processedMints == MintsOf(processedMintQueue)
Positions == {m \in Mints : lots[m] > 0}
Pending == {m \in Mints : rechecks[m] # NoEntry}
IsFinal(s, m) == recheckEntry[s][m].stage = "final"
InPool(s, final) ==
  {m \in Mints : item[s][m] \in Auditing /\ (IsFinal(s, m) <=> final)}

(* Limits on the open positions.                                           *)
WithinMaxOpen == Cardinality(Positions) <= MaxOpenPositions

AtLaunchpadCap(l) ==
  /\ MaxPositionsPerLaunchpad > 0 /\ l # NoLaunchpad
  /\ Cardinality({m \in Positions : LaunchpadOf[m] = l})
       >= MaxPositionsPerLaunchpad

(* The state a restart loads: positions within the limits, and rechecks,   *)
(* of which some may be of a mint whose position was saved just before the *)
(* crash.                                                                  *)
Init ==
  /\ config \in Configs
  /\ lots \in [Mints -> {0, 1}] /\ WithinMaxOpen
  /\ \A m \in Positions : ~AtLaunchpadCap(LaunchpadOf[m])
  /\ balance = InitialBalance
  /\ processedMintQueue = << >>
  /\ rechecks \in [Mints -> Entries \cup {NoEntry}]
  /\ coolDownMints = {}
  /\ scanChain = << >>
  /\ phase = [s \in Scans |-> "free"]
  /\ item = [s \in Scans |-> [m \in Mints |-> "none"]]
  /\ recheckEntry = [s \in Scans |-> [m \in Mints |-> NoEntry]]
  /\ buys = [s \in Scans |-> 0]
  /\ reservedBuys = [s \in Scans |-> 0]

-----------------------------------------------------------------------------
(* state.store.ts.                                                         *)

(* Mutant of TrackMint: the pending recheck is not deleted.                *)
TrackMint_KeepsRecheck(m) ==
  IF m \in processedMints
  THEN UNCHANGED <<processedMintQueue, rechecks>>
  ELSE /\ UNCHANGED rechecks
       /\ LET queue == Append(processedMintQueue, m)
          IN processedMintQueue' =
               IF Len(queue) > MaxTrackedMints THEN Tail(queue) ELSE queue

(* trackMint: a verdict; the oldest one is forgotten over the limit.       *)
TrackMint(m) ==
  IF m \in processedMints
  THEN UNCHANGED <<processedMintQueue, rechecks>>
  ELSE /\ rechecks' = [rechecks EXCEPT ![m] = NoEntry]
       /\ LET queue == Append(processedMintQueue, m)
          IN processedMintQueue' =
               IF Len(queue) > MaxTrackedMints THEN Tail(queue) ELSE queue

(* trackMint of mints without a verdict, one after the other.              *)
TrackMints(mints) ==
  LET queue == processedMintQueue \o mints
  IN  /\ processedMintQueue' =
           IF Len(queue) > MaxTrackedMints
           THEN SubSeq(queue, Len(queue) - MaxTrackedMints + 1, Len(queue))
           ELSE queue
      /\ rechecks' = [m \in Mints |-> IF m \in MintsOf(mints)
                                     THEN NoEntry ELSE rechecks[m]]

(* untrackMint; the queue holds a mint once.                               *)
UntrackMint(m) ==
  /\ IF m \in processedMints
     THEN \E i \in DOMAIN processedMintQueue :
            /\ processedMintQueue[i] = m
            /\ processedMintQueue' = SubSeq(processedMintQueue, 1, i - 1)
                 \o SubSeq(processedMintQueue, i + 1, Len(processedMintQueue))
     ELSE UNCHANGED processedMintQueue
  /\ rechecks' = [rechecks EXCEPT ![m] = NoEntry]

UpsertRecheck(m, stage, attempts, lag) ==
  /\ rechecks' = [rechecks EXCEPT ![m] =
                    [stage |-> stage, attempts |-> attempts, lag |-> lag]]
  /\ UNCHANGED processedMintQueue

-----------------------------------------------------------------------------
(* core/bot.ts: the loops and the chain.                                   *)

(* runDiscoveryLoop, runTrendingLoop: each loop has a busy flag, so at     *)
(* most two scans are unsettled.  runScanExclusive appends to the chain.   *)
RequestScan(s) ==
  /\ phase[s] = "free" /\ Len(scanChain) < 2
  /\ scanChain' = Append(scanChain, s)
  /\ phase' = [phase EXCEPT ![s] = "waiting"]
  /\ UNCHANGED <<storeVars, item, recheckEntry, buys, reservedBuys>>

(* Mutant of BeginScan: scans are not chained.                             *)
BeginScan_Unchained(s) ==
  /\ phase[s] = "waiting"
  /\ \E due \in SUBSET Pending :
       /\ item' = [item EXCEPT ![s] =
                     [m \in Mints |-> IF m \in due THEN "due" ELSE "none"]]
       /\ recheckEntry' = [recheckEntry EXCEPT ![s] =
                     [m \in Mints |-> IF m \in due THEN rechecks[m] ELSE NoEntry]]
  /\ phase' = [phase EXCEPT ![s] = "prefetch"]
  /\ UNCHANGED <<storeVars, scanChain, buys, reservedBuys>>

(* The promise before it has settled: scanForCandidates starts, takes the  *)
(* rechecks that are due and fetches prices.                               *)
BeginScan(s) ==
  /\ phase[s] = "waiting" /\ Head(scanChain) = s
  /\ \E due \in SUBSET Pending :
       /\ item' = [item EXCEPT ![s] =
                     [m \in Mints |-> IF m \in due THEN "due" ELSE "none"]]
       /\ recheckEntry' = [recheckEntry EXCEPT ![s] =
                     [m \in Mints |-> IF m \in due THEN rechecks[m] ELSE NoEntry]]
  /\ phase' = [phase EXCEPT ![s] = "prefetch"]
  /\ UNCHANGED <<storeVars, scanChain, buys, reservedBuys>>

(* The body of s returns; its promise settles unless the watchdog settled  *)
(* it before.  The metrics of the scan are dropped with it.                *)
Finish(s) ==
  /\ phase' = [phase EXCEPT ![s] = "free"]
  /\ scanChain' = IF scanChain # << >> /\ Head(scanChain) = s
                  THEN Tail(scanChain) ELSE scanChain
  /\ item' = [item EXCEPT ![s] = [m \in Mints |-> "none"]]
  /\ recheckEntry' = [recheckEntry EXCEPT ![s] = [m \in Mints |-> NoEntry]]
  /\ buys' = [buys EXCEPT ![s] = 0]
  /\ reservedBuys' = [reservedBuys EXCEPT ![s] = 0]

Return(s) == Finish(s) /\ UNCHANGED storeVars

(* Mutant of Watchdog: only the audits are timed, not the price fetch.     *)
Watchdog_AuditsOnly(s) ==
  /\ phase[s] = "auditing" /\ scanChain # << >> /\ Head(scanChain) = s
  /\ scanChain' = Tail(scanChain)
  /\ UNCHANGED <<storeVars, phase, item, recheckEntry, buys, reservedBuys>>

(* The 60 s timer of guarded(): the promise of a running scan is rejected  *)
(* and the chain advances; the body itself goes on.                        *)
Watchdog(s) ==
  /\ phase[s] \in Running /\ scanChain # << >> /\ Head(scanChain) = s
  /\ scanChain' = Tail(scanChain)
  /\ UNCHANGED <<storeVars, phase, item, recheckEntry, buys, reservedBuys>>

-----------------------------------------------------------------------------
(* scanForCandidates.                                                      *)

(* The rechecks taken up whose mint is still without a verdict.            *)
DueItems(s) == {m \in Mints \ processedMints : item[s][m] = "due"}

(* A pullback recheck whose price fell by more than recheckPriceDropPct    *)
(* since it was set is cancelled: the mint has its verdict.                *)
Cancellations(s) ==
  UNION {{c \in [1..n -> DueItems(s)] : \A i, j \in 1..n : c[i] = c[j] => i = j} :
           n \in 0..Cardinality(DueItems(s))}

(* The work items, once the prices are fetched: discovered mints without a *)
(* verdict or a recheck, and the due mints that are not cancelled.  A mint *)
(* is queued once: one that is due and discovered by the same scan has two *)
(* items in the code if its cooldown ends in the price fetch, which        *)
(* deletes its recheck.                                                    *)
BuildWorkItems(s) ==
  /\ phase[s] = "prefetch"
  /\ \E fresh \in SUBSET {m \in Mints \ (processedMints \cup Pending) :
                            item[s][m] = "none"},
        cancelled \in Cancellations(s) :
       LET queued == fresh \cup (DueItems(s) \ MintsOf(cancelled))
       IN  /\ queued # {}
           /\ item' = [item EXCEPT ![s] =
                [m \in Mints |-> IF m \in queued THEN "queued" ELSE "none"]]
           /\ recheckEntry' = [recheckEntry EXCEPT ![s] =
                [m \in Mints |-> IF m \in queued THEN recheckEntry[s][m]
                                                 ELSE NoEntry]]
           /\ TrackMints(cancelled)
  /\ phase' = [phase EXCEPT ![s] = "breaker"]
  /\ UNCHANGED <<config, lots, balance, coolDownMints, scanChain, buys, reservedBuys>>

(* Nothing to do, or nothing that is not cancelled.                        *)
ReturnEmpty(s) ==
  /\ phase[s] = "prefetch"
  /\ \E cancelled \in Cancellations(s) :
       DueItems(s) = MintsOf(cancelled) /\ TrackMints(cancelled)
  /\ Finish(s)
  /\ UNCHANGED <<config, lots, balance, coolDownMints>>

(* evaluateDrawdownBreaker answers after an await.                         *)
PassBreaker(s) ==
  /\ phase[s] = "breaker"
  /\ phase' = [phase EXCEPT ![s] = "auditing"]
  /\ UNCHANGED <<storeVars, scanChain, item, recheckEntry, buys, reservedBuys>>

ReturnBlocked(s) == phase[s] = "breaker" /\ Return(s)

(* Both pools are empty.                                                   *)
ReturnDone(s) ==
  /\ phase[s] = "auditing" /\ \A m \in Mints : item[s][m] = "none"
  /\ Return(s)

-----------------------------------------------------------------------------
(* processItem, up to its audit.                                           *)

(* The limits, checked before the reservation is made.                     *)
AtLimit(s) ==
  \/ Cardinality(Positions) + reservedBuys[s] >= MaxOpenPositions
  \/ buys[s] + reservedBuys[s] >= MaxBuysPerScan

(* Mutant of CanBuy: no sector cap.                                        *)
CanBuy_Always(m) == m \in Mints

(* portfolio.service.ts canBuy: the sector cap counts open positions.      *)
CanBuy(m) == ~AtLaunchpadCap(LaunchpadOf[m])

(* A worker of runBoundedPool takes the next item.                         *)
Taken(s, m) ==
  /\ phase[s] = "auditing" /\ item[s][m] = "queued"
  /\ Cardinality(InPool(s, IsFinal(s, m)))
       < IF IsFinal(s, m) THEN HeavyConcurrency ELSE LightConcurrency

(* Mutant of Leave: the reservation is never given back.                   *)
Leave_KeepsReservation(s, m) ==
  /\ item' = [item EXCEPT ![s][m] = "none"]
  /\ recheckEntry' = [recheckEntry EXCEPT ![s][m] = NoEntry]
  /\ UNCHANGED <<config, scanChain, phase, reservedBuys>>

(* The work item is done; a final audit gives its reservation back in the  *)
(* finally block when it had made one.                                     *)
Leave(s, m) ==
  /\ item' = [item EXCEPT ![s][m] = "none"]
  /\ recheckEntry' = [recheckEntry EXCEPT ![s][m] = NoEntry]
  /\ reservedBuys' =
       IF IsFinal(s, m) /\ item[s][m] \in Auditing
       THEN [reservedBuys EXCEPT ![s] = @ - 1] ELSE reservedBuys
  /\ UNCHANGED <<config, scanChain, phase>>

(* Over a limit, or refused by canBuy: skipped, its recheck stays pending. *)
SkipItem(s, m) ==
  /\ Taken(s, m)
  /\ AtLimit(s) \/ (m \notin Positions /\ ~CanBuy(m))
  /\ Leave(s, m)
  /\ UNCHANGED <<storeVars, buys>>

(* Already held, too old, or audited too often.                            *)
DropItem(s, m) ==
  /\ Taken(s, m)
  /\ ~AtLimit(s) /\ (m \in Positions \/ CanBuy(m))
  /\ TrackMint(m)
  /\ Leave(s, m)
  /\ UNCHANGED <<lots, balance, coolDownMints, buys>>

(* Mutant of AuditItem: the check of the held positions is gone.           *)
AuditItem_HeldToo(s, m) ==
  /\ Taken(s, m)
  /\ ~AtLimit(s) /\ CanBuy(m)
  /\ recheckEntry[s][m].attempts < MaxRecheckAttempts
  /\ item' = [item EXCEPT ![s][m] = "audit"]
  /\ reservedBuys' = IF IsFinal(s, m)
                     THEN [reservedBuys EXCEPT ![s] = @ + 1] ELSE reservedBuys
  /\ UNCHANGED <<storeVars, scanChain, phase, recheckEntry, buys>>

(* evaluateCandidate is called; a final audit reserves a buy.              *)
AuditItem(s, m) ==
  /\ Taken(s, m)
  /\ ~AtLimit(s) /\ m \notin Positions /\ CanBuy(m)
  /\ recheckEntry[s][m].attempts < MaxRecheckAttempts
  /\ item' = [item EXCEPT ![s][m] = "audit"]
  /\ reservedBuys' = IF IsFinal(s, m)
                     THEN [reservedBuys EXCEPT ![s] = @ + 1] ELSE reservedBuys
  /\ UNCHANGED <<storeVars, scanChain, phase, recheckEntry, buys>>

-----------------------------------------------------------------------------
(* processItem, from the answer of the audit on.                           *)

Audited(s, m) == phase[s] = "auditing" /\ item[s][m] = "audit"

(* scheduleSurvivalDelay after the first cheap audit, scheduleFinalAudit   *)
(* after the survival wait.                                                *)
PassCheapAudit(s, m) ==
  /\ Audited(s, m) /\ ~IsFinal(s, m)
  /\ UpsertRecheck(m,
       IF recheckEntry[s][m].stage = "survival" THEN "final" ELSE "survival",
       recheckEntry[s][m].attempts, 0)
  /\ Leave(s, m)
  /\ UNCHANGED <<lots, balance, coolDownMints, buys>>

(* scheduleRecheckEligibleWaitlist: a rejection for a reason that may pass *)
(* counts as an attempt, except when the token is only too new.            *)
Waitlist(s, m) ==
  /\ Audited(s, m)
  /\ \E tooNew \in BOOLEAN :
       UpsertRecheck(m, "plain",
         recheckEntry[s][m].attempts + (IF tooNew THEN 0 ELSE 1), 0)
  /\ Leave(s, m)
  /\ UNCHANGED <<lots, balance, coolDownMints, buys>>

(* Rejected for good, or an error that is not transient.                   *)
Reject(s, m) ==
  /\ Audited(s, m)
  /\ TrackMint(m)
  /\ Leave(s, m)
  /\ UNCHANGED <<lots, balance, coolDownMints, buys>>

(* Mutant of RetryIndexingLag: the item is audited again in the same scan. *)
RetryIndexingLag_InPlace(s, m) ==
  /\ Audited(s, m)
  /\ recheckEntry[s][m].lag < MaxIndexingLagRetries
  /\ UpsertRecheck(m,
       IF recheckEntry[s][m] = NoEntry THEN "plain" ELSE recheckEntry[s][m].stage,
       recheckEntry[s][m].attempts, recheckEntry[s][m].lag + 1)
  /\ UNCHANGED <<config, lots, balance, coolDownMints, scanVars>>

(* handleProcessError, "RPC Indexing Lag": scheduleIndexingLagRetry keeps  *)
(* the entry and counts the retry.                                         *)
RetryIndexingLag(s, m) ==
  /\ Audited(s, m)
  /\ recheckEntry[s][m].lag < MaxIndexingLagRetries
  /\ UpsertRecheck(m,
       IF recheckEntry[s][m] = NoEntry THEN "plain" ELSE recheckEntry[s][m].stage,
       recheckEntry[s][m].attempts, recheckEntry[s][m].lag + 1)
  /\ Leave(s, m)
  /\ UNCHANGED <<lots, balance, coolDownMints, buys>>

(* handleProcessError, a transient error: nothing is recorded.             *)
TransientError(s, m) ==
  /\ Audited(s, m)
  /\ Leave(s, m)
  /\ UNCHANGED <<storeVars, buys>>

-----------------------------------------------------------------------------
(* buyCandidate.                                                           *)

(* The final audit passed; sizing awaits the SOL price.                    *)
PassFinalAudit(s, m) ==
  /\ Audited(s, m) /\ IsFinal(s, m)
  /\ item' = [item EXCEPT ![s][m] = "approved"]
  /\ UNCHANGED <<storeVars, scanChain, phase, recheckEntry, buys, reservedBuys>>

(* null: mood paused, thin liquidity or no funds.  The caller treats it as *)
(* an error and records a verdict.                                         *)
RefuseBuy(s, m) ==
  /\ item[s][m] = "approved"
  /\ TrackMint(m)
  /\ Leave(s, m)
  /\ UNCHANGED <<lots, balance, coolDownMints, buys>>

(* Mutant of PlaceBuy: the paper wallet is not read.                       *)
PlaceBuy_Unfunded(s, m) ==
  /\ item[s][m] = "approved"
  /\ ~paperTrading => m \notin Positions
  /\ item' = [item EXCEPT ![s][m] = "ordered"]
  /\ UNCHANGED <<storeVars, scanChain, phase, recheckEntry, buys, reservedBuys>>

(* The wallet is read, then the quote, or the swap, is awaited.  A live    *)
(* buy swaps only when the wallet holds none of the token.                 *)
PlaceBuy(s, m) ==
  /\ item[s][m] = "approved"
  /\ IF paperTrading THEN balance >= 1 ELSE m \notin Positions
  /\ item' = [item EXCEPT ![s][m] = "ordered"]
  /\ UNCHANGED <<storeVars, scanChain, phase, recheckEntry, buys, reservedBuys>>

(* The paper wallet is debited and the position written; the continuations *)
(* of the buy and of the work item follow with no timer in between.        *)
FillBuy(s, m) ==
  /\ item[s][m] = "ordered"
  /\ lots' = [lots EXCEPT ![m] = @ + 1]
  /\ balance' = IF paperTrading THEN balance - 1 ELSE balance
  /\ buys' = [buys EXCEPT ![s] = @ + 1]
  /\ TrackMint(m)
  /\ Leave(s, m)
  /\ UNCHANGED coolDownMints

(* "Wallet already holds": a live buy recovers the position, with no swap. *)
ReconcileBuy(s, m) ==
  /\ item[s][m] = "approved" /\ ~paperTrading
  /\ lots' = [lots EXCEPT ![m] = IF @ = 0 THEN 1 ELSE @]
  /\ buys' = [buys EXCEPT ![s] = @ + 1]
  /\ TrackMint(m)
  /\ Leave(s, m)
  /\ UNCHANGED <<balance, coolDownMints>>

(* Thrown and turned into null; a live buy that confirmed nothing also     *)
(* cools the mint down.                                                    *)
FailBuy(s, m) ==
  /\ item[s][m] = "ordered"
  /\ \/ UNCHANGED coolDownMints
     \/ ~paperTrading /\ coolDownMints' = coolDownMints \cup {m}
  /\ TrackMint(m)
  /\ Leave(s, m)
  /\ UNCHANGED <<lots, balance, buys>>

-----------------------------------------------------------------------------
(* The rest of the bot, as far as the pipeline sees it.                    *)

(* exit-executor.ts: a position is closed; the paper wallet is credited, a *)
(* live exit may start a cooldown.                                         *)
ClosePosition(m) ==
  /\ m \in Positions
  /\ lots' = [lots EXCEPT ![m] = 0]
  /\ \/ paperTrading /\ balance' \in {balance, balance + 1}
        /\ UNCHANGED coolDownMints
     \/ ~paperTrading /\ coolDownMints' \in {coolDownMints, coolDownMints \cup {m}}
        /\ UNCHANGED balance
  /\ UNCHANGED <<config, processedMintQueue, rechecks, scanVars>>

(* expireCoolDown: the mint may be discovered again.                       *)
ExpireCoolDown(m) ==
  /\ m \in coolDownMints
  /\ coolDownMints' = coolDownMints \ {m}
  /\ UntrackMint(m)
  /\ UNCHANGED <<config, lots, balance, scanVars>>

-----------------------------------------------------------------------------
ScanStep(s) ==
  \/ RequestScan(s) \/ BeginScan(s)
  \/ BuildWorkItems(s) \/ ReturnEmpty(s) \/ PassBreaker(s)
  \/ ReturnBlocked(s) \/ ReturnDone(s)

ItemStep(s, m) ==
  \/ SkipItem(s, m) \/ DropItem(s, m) \/ AuditItem(s, m)
  \/ PassCheapAudit(s, m) \/ Waitlist(s, m) \/ Reject(s, m)
  \/ RetryIndexingLag(s, m) \/ TransientError(s, m)
  \/ PassFinalAudit(s, m) \/ RefuseBuy(s, m) \/ PlaceBuy(s, m)
  \/ FillBuy(s, m) \/ ReconcileBuy(s, m) \/ FailBuy(s, m)

(* Scans that end within the minute of the watchdog.                       *)
TimelyNext ==
  \/ \E s \in Scans : ScanStep(s)
  \/ \E s \in Scans, m \in Mints : ItemStep(s, m)
  \/ \E m \in Mints : ClosePosition(m) \/ ExpireCoolDown(m)

Next == TimelyNext \/ \E s \in Scans : Watchdog(s)

Spec == Init /\ [][Next]_vars
TimelySpec == Init /\ [][TimelyNext]_vars

-----------------------------------------------------------------------------
(* Properties.                                                             *)

(* Every variable holds a value of its kind; at most two scans are         *)
(* unsettled, and no scan is in the chain twice.                           *)
TypeOK ==
  /\ config \in Configs
  /\ lots \in [Mints -> Nat] /\ balance \in Int
  /\ processedMintQueue \in Seq(Mints)
  /\ rechecks \in [Mints -> Entries \cup {NoEntry}]
  /\ coolDownMints \subseteq Mints
  /\ scanChain \in Seq(Scans)
  /\ phase \in [Scans -> {"free", "waiting"} \cup Running]
  /\ item \in [Scans -> [Mints -> {"none", "due", "queued"} \cup Auditing]]
  /\ recheckEntry \in [Scans -> [Mints -> Entries \cup {NoEntry}]]
  /\ buys \in [Scans -> Nat] /\ reservedBuys \in [Scans -> Nat]

(* "the discovery and trending loops never scan concurrently"              *)
(* (bot.ts:337): one scan body exists at a time, and it is the head of the *)
(* chain.                                                                  *)
ScansExclusive ==
  \A s \in Scans : phase[s] \in Running =>
    /\ scanChain # << >> /\ Head(scanChain) = s
    /\ \A c \in Scans : phase[c] \in Running => c = s

(* A mint is never bought while it is held: upsertPosition replaces the    *)
(* entry of the mint, so a second buy would lose the cost basis of the     *)
(* first (scanner.service.ts:409-411).                                     *)
OneLotPerMint == \A m \in Mints : lots[m] <= 1

(* metrics.reservedBuys counts the final audits under way, on every path   *)
(* out of processItem, and the caps hold with these counted as buys: the   *)
(* reservation is taken in the same turn as the check, so audits that run  *)
(* beside each other cannot all pass a check for the last slot.            *)
ReservationsHeld ==
  \A s \in Scans :
    /\ reservedBuys[s] = Cardinality(InPool(s, TRUE))
    /\ Cardinality(Positions) + reservedBuys[s] <= MaxOpenPositions
    /\ buys[s] + reservedBuys[s] <= MaxBuysPerScan

(* A mint with a verdict has no pending recheck: nothing else would remove *)
(* it, and getDueCandidateRechecks would return it to every later scan.    *)
RechecksWithoutVerdict ==
  \A m \in Mints : m \in processedMints => rechecks[m] = NoEntry

(* A work item is worked on from the entry that is still the pending one,  *)
(* unless a cooldown that ended meanwhile removed it: no stage, attempt or *)
(* retry is lost by working from a copy taken before an await.             *)
EntriesCurrent ==
  \A s \in Scans, m \in Mints :
    recheckEntry[s][m] # NoEntry => rechecks[m] \in {recheckEntry[s][m], NoEntry}

(* The paper balance is checked before the quote is awaited and debited    *)
(* after it (buy.ts:196-205), so buys that run beside each other can spend *)
(* the same funds.  What they overdraw, the orders under way included, is  *)
(* bounded by the final audits that run in parallel: none with one.        *)
Ordered == {x \in Scans \X Mints : item[x[1]][x[2]] = "ordered"}
OverdraftBounded ==
  paperTrading => balance - Cardinality(Ordered) >= 1 - HeavyConcurrency

(* "Max concurrent positions sharing one launchpad" (.env.example:173):    *)
(* canBuy counts open positions and not the final audits under way, so the *)
(* cap is exceeded by at most the audits that run beside each other.       *)
LaunchpadOvershootBounded ==
  MaxPositionsPerLaunchpad > 0 =>
    \A l \in {LaunchpadOf[m] : m \in Mints} \ {NoLaunchpad} :
      Cardinality({m \in Positions : LaunchpadOf[m] = l})
        <= MaxPositionsPerLaunchpad + HeavyConcurrency - 1

(* Scans exclude each other, and what they work on is current.             *)
Consistent == TypeOK /\ ScansExclusive /\ RechecksWithoutVerdict /\ EntriesCurrent

(* The two limits that audits running beside each other can exceed.        *)
LimitsBounded == OverdraftBounded /\ LaunchpadOvershootBounded

(* Whatever an audit awaits, the promise of every scan settles, so that    *)
(* the busy flag of its loop is cleared and the loop can scan again        *)
(* (runScanExclusive, "silencing discovery + trending").                   *)
ScanSettles ==
  \A s \in Scans :
    (\E i \in DOMAIN scanChain : scanChain[i] = s)
      ~> ~(\E i \in DOMAIN scanChain : scanChain[i] = s)

=============================================================================
