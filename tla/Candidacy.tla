------------------------------ MODULE Candidacy ------------------------------
(***************************************************************************)
(* The candidacy of one mint: how scanForCandidates prices it              *)
(* (market-data.ts), what evaluateCandidate says of it (engine.service.ts, *)
(* scoring.ts, burst-engine.ts), which lookups it rests on                 *)
(* (audit.service.ts), and what becomes of the verdict.  ScanPipeline has  *)
(* many mints and abstract verdicts; here is one mint and its verdict.     *)
(*                                                                         *)
(* Prices and liquidity are small levels, scores points of five, the facts *)
(* of a mint the sets of codes its record in Tokens holds.  Scans do not   *)
(* overlap.  An action is the code from one await to the next.             *)
(***************************************************************************)
EXTENDS Integers, Sequences

CONSTANTS
    Cases,                           \* [token, config, course]: what the feeds and the chain
                                     \* say of the mint, the settings, how its market goes
    MinLiquidity, Drawdown,          \* minLiquidityUsd, maxLiquidityDrawdownPct
    MinScore, ScoreFloor,            \* minCandidateScore, minCandidateScoreFloor
    MaxRecheckAttempts, MaxIndexingLagRetries,
    MaxSamples                       \* sampleTimes of scheduleSurvivalDelay

VARIABLES
    case, at, age,                   \* the case explored; how far its course and its life are
    snapshot,                        \* marketSnapshots
    cooling,                         \* jupiterPriceCooldownUntil
    entry, due,                      \* pendingCandidateRechecks; its timer
    samples, sampling,               \* burstPriceSamples; timers not yet run
    prefetched, prefetching,         \* prefetchedMintSignals; a lookup under way
    scan, item, signals,             \* the scan, its work item, what it looked up
    verdict,                         \* bought, or processed and never looked at again
    window,                          \* history: the token the last survival wait began with
    hard                             \* history: the codes that ended it

Markets == [price : Nat, liquidity : Nat]
Settings == [burst : BOOLEAN, adaptive : BOOLEAN, rugcheck : BOOLEAN, bubblemaps : BOOLEAN]

\* The limits are sizes and counts, a market has a beginning, and what a feed
\* flags is not the age.
ASSUME CandidacyAssumption ==
    /\ {MinLiquidity, Drawdown, MinScore, ScoreFloor} \subseteq Nat
    /\ {MaxRecheckAttempts, MaxIndexingLagRetries, MaxSamples} \subseteq Nat
    /\ \A c \in Cases :
          /\ c.config \in Settings
          /\ c.course \in Seq(Markets) /\ c.course # <<>>
          /\ "too-new" \notin c.token.flags \cup c.token.soft

scanVars == <<scan, item, signals>>
endVars == <<verdict, hard, window>>
backVars == <<samples, sampling, prefetched, prefetching>>
worldVars == <<case, at, age>>
vars == <<worldVars, snapshot, cooling, entry, due, backVars, scanVars, endVars>>

token == case.token
config == case.config
market == case.course[at]            \* [price, liquidity]

NoEntry == [stage |-> "none", price |-> 0, liquidity |-> 0, base |-> 0, attempts |-> 0, lag |-> 0]
Unread == [price |-> 0, liquidity |-> 0]
NoSnapshot == [price |-> 0, liquidity |-> 0, launchpad |-> "null"]
NoSamples == [count |-> 0, top |-> 0, liquidity |-> 0]
Lookups == [known : BOOLEAN, holders : BOOLEAN, owners : BOOLEAN]
NoLookup == [known |-> FALSE, holders |-> FALSE, owners |-> FALSE]

TypeOK ==
    /\ case \in Cases /\ at \in DOMAIN case.course
    /\ age \in {"young", "ripe", "old"} /\ cooling \in BOOLEAN /\ due \in BOOLEAN
    /\ entry.stage \in {"none", "survival", "final", "waitlist"}
    /\ entry.attempts \in 0..MaxRecheckAttempts /\ entry.lag \in 0..MaxIndexingLagRetries
    /\ sampling \in 0..MaxSamples /\ samples.count \in 0..MaxSamples
    /\ prefetched \in Lookups /\ signals \in Lookups /\ prefetching \in BOOLEAN
    /\ scan \in {"idle", "pricing", "built", "signals", "deep", "buying"}
    /\ verdict \in {"open", "bought", "rejected"}
    /\ verdict # "open" => entry = NoEntry /\ scan = "idle"
    /\ entry.stage \in {"survival", "final"} => entry.base = window.price /\ window.price > 0

Init ==
    /\ case \in Cases /\ at = 1
    /\ age = "young" /\ snapshot = NoSnapshot /\ cooling = FALSE
    /\ entry = NoEntry /\ due = FALSE
    /\ samples = NoSamples /\ sampling = 0 /\ prefetched = NoLookup /\ prefetching = FALSE
    /\ scan = "idle" /\ item = Unread /\ signals = NoLookup
    /\ verdict = "open" /\ window = Unread /\ hard = {}

\* Tokens of the feeds carry Jupiter's data; a mint pushed by a stream is only
\* an id with a launchpad.
Dated == token.feed # "stream"
Trending == token.feed = "trending"

-----------------------------------------------------------------------------
(* The world.                                                              *)

MarketMoves == at + 1 \in DOMAIN case.course /\ at' = at + 1 /\ UNCHANGED <<age, case>>

Ages ==
    /\ age # "old"
    /\ age' = IF age = "young" THEN "ripe" ELSE "old"
    /\ UNCHANGED <<at, case>>

World ==
    /\ verdict = "open"
    /\ MarketMoves \/ Ages
    /\ UNCHANGED <<snapshot, cooling, entry, due, backVars, scanVars, endVars>>

TimerFires ==
    /\ entry # NoEntry /\ ~due
    /\ due' = TRUE
    /\ UNCHANGED <<worldVars, snapshot, cooling, entry, backVars, scanVars, endVars>>

CooldownEnds ==
    /\ cooling /\ cooling' = FALSE
    /\ UNCHANGED <<worldVars, snapshot, entry, due, backVars, scanVars, endVars>>

-----------------------------------------------------------------------------
(* Prices (market-data.ts).                                                *)

IsPumpMint == token.suffix \/ snapshot.launchpad = "pump.fun"

Snapshot(read, launchpad) ==
    [price |-> read.price, liquidity |-> read.liquidity, launchpad |-> launchpad]

\* What the curve says of a pump mint.
CurveReads == {Snapshot(market, "pump.fun")}

\* What Jupiter, which is asked for the others only, says: of some no liquidity.
JupiterReads ==
    IF cooling THEN {}
    ELSE {Snapshot([market EXCEPT !.liquidity = l], "null") : l \in {0, market.liquidity}}

\* Nothing, when a request fails or the account is not there yet.
PriceReads == {NoSnapshot} \cup IF IsPumpMint THEN CurveReads ELSE JupiterReads

\* A value that is not positive counts as missing.
Filled(new, old) == IF new > 0 THEN new ELSE old

Merged(read) ==
    IF read = NoSnapshot THEN snapshot
    ELSE [price |-> Filled(read.price, snapshot.price),
          liquidity |-> Filled(read.liquidity, snapshot.liquidity),
          launchpad |-> IF read.launchpad # "null" THEN read.launchpad
                        ELSE IF snapshot.launchpad # "null" THEN snapshot.launchpad ELSE "unknown"]

\* A fresh price over the frozen token of a recheck.
Overlay(s) ==
    IF s.price > 0 THEN [price |-> s.price, liquidity |-> Filled(s.liquidity, entry.liquidity)]
    ELSE [price |-> entry.price, liquidity |-> entry.liquidity]

\* What a feed says of the mint; Jupiter may have no price and liquidity yet.
FeedViews == IF Dated THEN {market, Unread} ELSE {Unread}

\* The feeds offer the mint: its snapshot is refreshed, and a work item made
\* unless a recheck is pending.
Offer ==
    /\ scan = "idle" /\ verdict = "open"
    /\ \E view \in FeedViews :
          LET new == IF Dated
                     THEN Snapshot(view, IF token.launchpad = "null" THEN "unknown"
                                         ELSE token.launchpad)
                     ELSE snapshot
          IN  /\ snapshot' = new
              /\ IF entry # NoEntry THEN UNCHANGED scanVars
                 ELSE /\ item' = view
                      /\ scan' = IF new.price = 0 \/ new.liquidity = 0 THEN "pricing" ELSE "built"
                      /\ UNCHANGED signals
    /\ UNCHANGED <<worldVars, cooling, entry, due, backVars, endVars>>

\* A due recheck is always priced again.
TakeDue ==
    /\ scan = "idle" /\ verdict = "open" /\ due
    /\ scan' = "pricing" /\ due' = FALSE
    /\ UNCHANGED <<worldVars, snapshot, cooling, entry, backVars, item, signals, endVars>>

Build(s) ==
    /\ snapshot' = s
    /\ item' = IF entry = NoEntry THEN item ELSE Overlay(s)
    /\ scan' = IF entry.stage = "final" THEN "signals" ELSE "built"

\* The prices come, or do not before the deadline of the scan.
Priced ==
    /\ scan = "pricing"
    /\ \E read \in PriceReads : Build(Merged(read)) /\ UNCHANGED cooling
    /\ UNCHANGED <<worldVars, entry, due, backVars, signals, endVars>>

RateLimited ==
    /\ scan = "pricing" /\ ~IsPumpMint /\ ~cooling
    /\ cooling' = TRUE
    /\ Build(snapshot)
    /\ UNCHANGED <<worldVars, entry, due, backVars, signals, endVars>>

-----------------------------------------------------------------------------
(* The audit (engine.service.ts, scoring.ts).                              *)

Fired(code, condition) == IF condition THEN {code} ELSE {}

\* Not born yet: rechecked as its curve fills.
Unborn == item.price = 0 /\ item.liquidity = 0 /\ ~token.buys
NonPump == token.launchpad \notin {"null", "pump.fun"}

\* What liquidity and prices are compared with: the first sample of the curve
\* in burst mode, else the token frozen in the recheck.
Sampled == config.burst /\ entry.stage \in {"survival", "final"} /\ samples.count > 0
StartLiquidity == IF Sampled THEN samples.liquidity ELSE entry.liquidity
Drained == StartLiquidity > 0 /\ StartLiquidity - item.liquidity > Drawdown
MaxGrowth == IF Trending THEN 3 ELSE 2

\* Mutant: the survival wait asks for no momentum.
Momentum_Never == {}
Momentum ==
    Fired("parabolic-growth", entry.base > 0 /\ item.price > MaxGrowth * entry.base)
    \cup Fired("low-breakout", entry.base > 0 /\ item.price < entry.base)

Appearance ==
    UNION {Fired("wrong-launchpad", token.launchpad = "other"),
           Fired("liquidity-draining", Drained),
           Fired("missing-price", item.price = 0),
           Fired("low-liquidity", item.liquidity < MinLiquidity),
           Fired("zero-buys", ~token.buys),
           Fired("too-new", Dated /\ age = "young"),
           Fired("too-old", Dated /\ age = "old")}

LightReasons == Momentum \cup Appearance \cup token.flags

\* The codes that earn a recheck.
Recheckable ==
    {"low-market-cap", "too-new", "ml-low-confidence"}
    \cup (IF Unborn \/ NonPump THEN {"missing-price", "low-liquidity"} ELSE {})
    \cup Fired("low-liquidity", item.liquidity = MinLiquidity - 1)
    \cup Fired("zero-buys", Unborn)
    \cup Fired("low-holders", token.holders = "borderline")

\* computeCandidateScore, in fives; the momentum score needs six prices, which
\* no candidate has.
Points(condition, n) == IF condition THEN n ELSE 0
Score ==
    10 + Points(token.launchpad = "pump.fun", 2)
       + Points(token.socials >= 3, 3) + Points(token.socials \in 1..2, 1)
       + Points(token.organic, 4) + Points(item.liquidity > 2 * MinLiquidity, 1)
       + Points(token.holders = "enough", 1) + Points(token.pressure, 1)
       - Points("jupiter-audit-suspicious" \in token.flags, 1)

\* computeEffectiveMinScore.  Adaptive, the gate is relaxed only, to a floor.
AdaptiveMinScore(gmi, starved) ==
    LET relaxed == MinScore - starved - Points(gmi = "dead", (MinScore - ScoreFloor) \div 2)
    IN  IF relaxed < ScoreFloor THEN ScoreFloor ELSE relaxed
EffectiveMinScore(gmi, starved) ==
    IF config.adaptive THEN AdaptiveMinScore(gmi, starved)
    ELSE MinScore + Points(gmi = "dead", 1) - Points(gmi = "hot", 1)

SoftReasons(min) ==
    token.soft
    \cup Fired("low-holders", token.holders # "enough")
    \cup Fired("entry-score-too-low", Score < min)
ScoreRecheckable(min) == Fired("entry-score-too-low", 5 * Score >= 4 * min)

\* The chain's flaws, each as far as the lookup that shows it came back; rug
\* and maps are the answers of RugCheck and BubbleMaps.
DeepReasons(s, rug, maps, wallets) ==
    UNION {Fired("authority", "authority" \in token.chain),
           Fired("fake-pump-token", token.launchpad = "pump.fun" /\ ~token.suffix),
           Fired("concentration", s.holders /\ "concentration" \in token.chain),
           Fired("bubblemaps-fail-safe", maps = "error" /\ s.holders
                                         /\ {"concentration", "borderline"} \cap token.chain # {}),
           Fired("bubblemaps-signal", maps = "ok" /\ "clusters" \in token.chain),
           Fired("rugcheck-signal", rug = "ok" /\ "danger" \in token.chain),
           Fired("malicious-owner", s.owners /\ wallets /\ "owner" \in token.chain)}

\* analyzeBurstCandidate.  The outflow check reads a liquidity the prices it
\* gets have lost on the way (getValidPriceHistory), and never fires.
BurstBlocks(choppy) ==
    /\ config.burst /\ entry.base > 0
    /\ \/ item.price <= entry.base
       \/ Sampled /\ item.price < samples.top
       \/ ~token.pressure
       \/ Drained
       \/ Sampled /\ samples.count >= MaxSamples /\ choppy

-----------------------------------------------------------------------------
(* Verdicts (scanner.service.ts).                                          *)

Track(v, codes) ==
    /\ verdict' = v /\ hard' = codes /\ UNCHANGED window
    /\ entry' = NoEntry /\ due' = FALSE
    /\ prefetched' = NoLookup /\ samples' = NoSamples
    /\ scan' = "idle" /\ item' = Unread /\ signals' = NoLookup
    /\ UNCHANGED <<sampling, prefetching>>

\* The scan ends; a recheck it leaves alone is due again in the next.
LeaveAsIs ==
    /\ scan' = "idle" /\ item' = Unread /\ signals' = NoLookup
    /\ due' = (entry # NoEntry)
    /\ UNCHANGED <<entry, backVars, endVars>>

Schedule(e) ==
    /\ entry' = e /\ due' = FALSE
    /\ scan' = "idle" /\ item' = Unread /\ signals' = NoLookup
    /\ UNCHANGED <<samples, prefetched, verdict, hard>>

\* Mutants: the attempts are not counted, or counted afresh.
Waitlisted_Free(reasons) ==
    [NoEntry EXCEPT !.stage = "waitlist", !.price = item.price, !.liquidity = item.liquidity,
                    !.attempts = entry.attempts + Points(reasons = {}, 1)]
Waitlisted_Afresh(reasons) ==
    [NoEntry EXCEPT !.stage = "waitlist", !.price = item.price, !.liquidity = item.liquidity,
                    !.attempts = Points(reasons # {"too-new"}, 1)]
Waitlisted(reasons) ==
    [NoEntry EXCEPT !.stage = "waitlist", !.price = item.price, !.liquidity = item.liquidity,
                    !.attempts = entry.attempts + Points(reasons # {"too-new"}, 1)]

Lasting(reasons, again) == reasons \ again

Reject(reasons, again) ==
    IF Lasting(reasons, again) # {}
    THEN Track("rejected", Lasting(reasons, again))
    ELSE /\ Schedule(Waitlisted(reasons))
         /\ UNCHANGED <<sampling, prefetching, window>>

\* scheduleSurvivalDelay: in burst mode the mint's signals and the curve are
\* read meanwhile.
BeginSurvival ==
    /\ Schedule([NoEntry EXCEPT !.stage = "survival", !.price = item.price,
                                !.liquidity = item.liquidity, !.base = item.price,
                                !.attempts = entry.attempts])
    /\ window' = item
    /\ prefetching' = (prefetching \/ config.burst)
    /\ sampling' = IF config.burst THEN MaxSamples ELSE sampling

\* Mutant: the price to compare with is read anew.
AtFinal_Rebased == [entry EXCEPT !.stage = "final", !.price = item.price, !.base = item.price,
                                 !.liquidity = item.liquidity, !.lag = 0]
AtFinal == [entry EXCEPT !.stage = "final", !.price = item.price,
                         !.liquidity = item.liquidity, !.lag = 0]

BeginFinal ==
    /\ Schedule(AtFinal)
    /\ UNCHANGED <<sampling, prefetching, window>>

\* The signals read ahead are used once; the others are read in a batch that
\* keeps a mint whose holders or owners it could not read.
BatchReads == {s \in Lookups : (s.owners => s.holders) /\ (s.holders => s.known)}

TakeSignals ==
    /\ scan = "signals" /\ scan' = "built"
    /\ IF prefetched.known
       THEN signals' = prefetched /\ prefetched' = NoLookup
       ELSE signals' \in BatchReads /\ UNCHANGED prefetched
    /\ UNCHANGED <<worldVars, snapshot, cooling, entry, due, samples, sampling, prefetching, item, endVars>>

\* processItem before the audit: the limits, the age, the attempts.
AtLimit == scan = "built" /\ LeaveAsIs
SpentCodes == Fired("too-old", Dated /\ age = "old")
              \cup Fired("max-rechecks", entry.attempts >= MaxRecheckAttempts)
Drop == scan = "built" /\ SpentCodes # {} /\ Track("rejected", SpentCodes)

\* The scoring model may block what the rules approved.
MlGate(blocked) == Fired("ml-low-confidence", blocked)

Approved(blocked, choppy, Proceed) ==
    IF MlGate(blocked) # {} THEN Reject(MlGate(blocked), Recheckable)
    ELSE IF BurstBlocks(choppy) THEN Track("rejected", {"burst-filter"})
    ELSE Proceed

AuditLight ==
    /\ scan = "built" /\ SpentCodes = {} /\ entry.stage # "final"
    /\ IF LightReasons # {} THEN Reject(LightReasons, Recheckable)
       ELSE \E blocked, choppy \in BOOLEAN :
               Approved(blocked, choppy,
                        IF entry.stage = "survival" THEN BeginFinal ELSE BeginSurvival)

FinalReasons(min) == IF LightReasons # {} THEN LightReasons ELSE SoftReasons(min)

AuditFinal ==
    /\ scan = "built" /\ SpentCodes = {} /\ entry.stage = "final"
    /\ \E gmi \in {"dead", "normal", "hot"}, starved \in 0..2 :
          LET min == EffectiveMinScore(gmi, starved) IN
          IF FinalReasons(min) # {}
          THEN Reject(FinalReasons(min), Recheckable \cup ScoreRecheckable(min))
          ELSE scan' = "deep" /\ UNCHANGED <<entry, due, backVars, item, signals, endVars>>

\* The audit goes as far as the next await.
Audit ==
    /\ AuditLight \/ AuditFinal
    /\ UNCHANGED <<worldVars, snapshot, cooling>>

LeaveOut ==
    /\ AtLimit \/ Drop
    /\ UNCHANGED <<worldVars, snapshot, cooling>>

DeepAudit(s, rug, maps, wallets, cooldown) ==
    LET reasons == DeepReasons(s, rug, maps, wallets)
                   \cup Fired("symbol-cooldown", cooldown) IN
    IF reasons # {} THEN Track("rejected", reasons)
    ELSE \E blocked, choppy \in BOOLEAN :
            Approved(blocked, choppy,
                     /\ scan' = "buying" /\ signals' = s
                     /\ UNCHANGED <<entry, due, backVars, item, endVars>>)

\* getMintSignals refuses a mint whose holders it could not read.
MintReads == {s \in BatchReads : s.holders}
RugReads == IF config.rugcheck THEN {"ok", "error"} ELSE {"off"}
\* No answer within two seconds counts as none asked for.
MapsReads == IF config.bubblemaps THEN {"ok", "error", "off"} ELSE {"off"}
\* A failed wallet lookup clears the wallet.
WalletReads == BOOLEAN

\* The lookups of the deep audit, made together.
DeepAnswered ==
    /\ scan = "deep"
    /\ \E s \in IF ~signals.known THEN MintReads ELSE {signals},
          rug \in RugReads, maps \in MapsReads, wallets \in WalletReads, cooldown \in BOOLEAN :
          DeepAudit(s, rug, maps, wallets, cooldown)
    /\ UNCHANGED <<worldVars, snapshot, cooling>>

-----------------------------------------------------------------------------
(* Errors, the purchase, and what runs beside the scan.                    *)

\* getMintSignals throws: the mint is not indexed yet, for a while.
IndexingLag ==
    /\ scan = "deep" /\ ~signals.known
    /\ IF entry.lag < MaxIndexingLagRetries
       THEN /\ Schedule([entry EXCEPT !.lag = @ + 1, !.price = item.price,
                                      !.liquidity = item.liquidity])
            /\ UNCHANGED <<sampling, prefetching, window>>
       ELSE Track("rejected", {"indexing-lag"})
    /\ UNCHANGED <<worldVars, snapshot, cooling>>

\* A transient error leaves the recheck as it is, any other drops the mint.
Fails ==
    /\ \/ scan = "deep" /\ ~signals.known
       \/ scan = "buying"
    /\ LeaveAsIs \/ Track("rejected", {"error"})
    /\ UNCHANGED <<worldVars, snapshot, cooling>>

Buy ==
    /\ scan = "buying"
    /\ Track("bought", {})
    /\ UNCHANGED <<worldVars, snapshot, cooling>>

PrefetchReturns ==
    /\ prefetching /\ prefetching' = FALSE
    /\ prefetched' \in MintReads \cup {prefetched}
    /\ UNCHANGED <<worldVars, snapshot, cooling, entry, due, samples, sampling, scanVars, endVars>>

\* One read of the curve for all the mints sampled within 50 ms.
SampleReads == {Unread} \cup IF IsPumpMint THEN {market} ELSE {}

\* A sample counts only for a mint that is still pending; those of an earlier
\* wait stay, the first one leads.
SampleReturns ==
    /\ sampling > 0 /\ sampling' = sampling - 1
    /\ \E read \in SampleReads :
          IF entry = NoEntry \/ read.price = 0 THEN UNCHANGED samples
          ELSE samples' = [count |-> IF samples.count < MaxSamples THEN samples.count + 1 ELSE MaxSamples,
                           top |-> IF read.price > samples.top THEN read.price ELSE samples.top,
                           liquidity |-> IF samples.count = 0 THEN read.liquidity
                                         ELSE samples.liquidity]
    /\ UNCHANGED <<worldVars, snapshot, cooling, entry, due, prefetched, prefetching, scanVars, endVars>>

Background == CooldownEnds \/ PrefetchReturns \/ SampleReturns
Answers == Priced \/ RateLimited \/ TakeSignals \/ DeepAnswered \/ IndexingLag \/ Fails \/ Buy
Next == World \/ TimerFires \/ Background \/ Offer \/ TakeDue \/ Answers \/ Audit \/ LeaveOut

\* Awaited answers come, timers fire and time passes; the feeds repeat a mint;
\* an item is not left out for the limits in every scan.
Spec ==
    /\ Init /\ [][Next]_vars
    /\ WF_vars(TimerFires) /\ WF_vars(World /\ Ages)
    /\ WF_vars(Offer /\ entry = NoEntry) /\ WF_vars(TakeDue) /\ WF_vars(Answers)
    /\ SF_vars(Audit \/ (Drop /\ LeaveOut))

-----------------------------------------------------------------------------
(* Properties.                                                             *)

\* Whatever is looked up, lost or repeated, the mint takes the way TwoWaits
\* promises (scheduleSurvivalDelay, scheduleFinalAudit, processItem).
Way == INSTANCE TwoWaits WITH
          stage <- entry.stage, attempts <- entry.attempts, lag <- entry.lag,
          young <- Dated /\ age = "young"
WaysKept == Way!Spec

LowestMinScore == IF config.adaptive THEN ScoreFloor ELSE MinScore - 1

\* What is bought earned it: since its survival wait began the price has not
\* fallen (in burst mode it rose), and no look at the pool lost more than the
\* limit to the one before, the looks an indexing lag repeated included; its
\* score passes the lowest gate; and no flaw that a lookup of the audit showed
\* was passed over (evaluateCandidate, scanForCandidates).
BuysEarned ==
    scan = "buying" =>
        /\ item.price >= window.price /\ item.liquidity >= MinLiquidity
        /\ IF config.burst THEN item.price > window.price /\ token.pressure
           ELSE window.liquidity - item.liquidity <= (2 + entry.lag) * Drawdown
        /\ Score >= LowestMinScore
        /\ token.flags \cup token.soft = {} /\ "authority" \notin token.chain
        /\ token.launchpad = "pump.fun" => token.suffix
        /\ signals.holders => "concentration" \notin token.chain

\* Whatever the scans, lookups and lags in between, a buy was earned.
CandidacySound == TypeOK /\ BuysEarned

\* Every mint is bought or dropped in the end: rechecks, lags and errors run
\* out, or it grows too old (processItem, handleProcessError).
Decided == <>(verdict # "open")

\* A mint found at its creation is not dropped for the price, liquidity and
\* buys it could not have had yet (engine.service.ts:296).
NewbornsWait ==
    token.feed = "stream" => hard \cap {"missing-price", "low-liquidity", "zero-buys"} = {}
=============================================================================
