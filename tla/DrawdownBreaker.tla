-------------------------- MODULE DrawdownBreaker --------------------------
(***************************************************************************)
(* The account-wide circuit breakers on new buys.  Three breakers share    *)
(* one pause, drawdownPauseUntil:                                          *)
(*                                                                         *)
(*   - the drawdown breaker (portfolio.service.ts, evaluateDrawdownBreaker),*)
(*     asked once per scan; it notes the time, awaits the balance, and then*)
(*     reads the pause again;                                              *)
(*   - the loss-streak and the expectancy breakers (trade-logger.ts,       *)
(*     recordTradeResult), run by whichever exit closes a position, at any *)
(*     time, so also during that await.                                    *)
(*                                                                         *)
(* Times are relative: pauseLeft is drawdownPauseUntil - Date.now(), and   *)
(* lag is how old the scan's `now` is.  A position costs one unit.         *)
(***************************************************************************)
EXTENDS Integers, Sequences, SequencesExt

CONSTANTS
    PaperTrading,
    InitialBalance, MaxBalance,   \* MaxBalance bounds the gains explored
    MaxOpen,                      \* open positions at most
    MaxDrawdownPct,               \* maxDailyDrawdownPct, in percent
    DrawdownCooldown, LossStreakCooldown,
    LossStreakThreshold,          \* 0: breaker disabled
    WindowSize,                   \* lossStreakWindowSize; 0: expectancy breaker disabled
    MaxLag                        \* bound on the time one balance read may take

None == -1000
PnL == {-1, 0, 1}

BreakerAssumption ==
    /\ PaperTrading \in BOOLEAN
    /\ {InitialBalance, MaxBalance, MaxOpen, MaxDrawdownPct, LossStreakThreshold,
        WindowSize, MaxLag} \subseteq Nat
    /\ {DrawdownCooldown, LossStreakCooldown} \subseteq Nat \ {0}
    /\ InitialBalance <= MaxBalance
    /\ None < -MaxLag - 1              \* no time left looks like null

VARIABLES
    circuitBreakerEnabled,  \* the setting, which never changes
    pauseLeft,              \* None when drawdownPauseUntil is null
    lossStreakPauseActive,
    consecutiveLosses,
    recentPnlWindow,
    balance,                \* SOL balance
    peak,                   \* peakSessionSolBalanceLamports
    pc,                     \* the scan's evaluation: idle or awaiting the balance
    lag,                    \* age of the `now` the evaluation carries
    allowed,                \* the last evaluation let the scan buy
    open,                   \* open positions
    tripped                 \* history: this pause saw a drawdown trip

vars == <<circuitBreakerEnabled, pauseLeft, lossStreakPauseActive, consecutiveLosses, recentPnlWindow,
          balance, peak, pc, lag, allowed, open, tripped>>

TypeOK ==
    /\ pauseLeft \in {None} \cup (-MaxLag - 1)..(DrawdownCooldown + LossStreakCooldown)
    /\ circuitBreakerEnabled \in BOOLEAN /\ lossStreakPauseActive \in BOOLEAN
    /\ consecutiveLosses \in Nat
    /\ LossStreakThreshold > 0 => consecutiveLosses < LossStreakThreshold
    /\ recentPnlWindow \in Seq(PnL) /\ Len(recentPnlWindow) <= WindowSize
    /\ balance \in 0..MaxBalance /\ peak \in 0..MaxBalance
    /\ pc \in {"idle", "reading"} /\ lag \in 0..MaxLag
    /\ {allowed, tripped} \subseteq BOOLEAN
    /\ open \in 0..MaxOpen

Init ==
    /\ circuitBreakerEnabled \in BOOLEAN
    /\ pauseLeft = None
    /\ lossStreakPauseActive = FALSE
    /\ consecutiveLosses = 0
    /\ recentPnlWindow = <<>>
    /\ balance = InitialBalance /\ peak = InitialBalance
    /\ pc = "idle" /\ lag = 0
    /\ allowed = FALSE
    /\ open = 0
    /\ tripped = FALSE

Higher(m, n) == IF m > n THEN m ELSE n

\* calculateDrawdown
Critical(high, current) == high > 0 /\ (high - current) * 100 >= high * MaxDrawdownPct

-----------------------------------------------------------------------------
(* evaluateDrawdownBreaker, called by the scan.                            *)

Blocked_Extends ==                     \* Mutant: a blocked scan renews the pause
    /\ pc = "idle" /\ pauseLeft > 0
    /\ allowed' = FALSE
    /\ pauseLeft' = DrawdownCooldown
    /\ UNCHANGED <<circuitBreakerEnabled, lossStreakPauseActive, consecutiveLosses,
                   recentPnlWindow, balance, peak, pc, lag, open, tripped>>

\* An active pause is honoured before anything else.
Blocked ==
    /\ pc = "idle" /\ pauseLeft > 0
    /\ allowed' = FALSE
    /\ UNCHANGED <<circuitBreakerEnabled, pauseLeft, lossStreakPauseActive,
                   consecutiveLosses, recentPnlWindow, balance, peak, pc, lag, open, tripped>>

\* With the drawdown breaker off a pause that is over, which a loss breaker
\* armed, is cleared, and the balance is not read.
PassDisabled ==
    /\ ~circuitBreakerEnabled
    /\ pc = "idle" /\ pauseLeft <= 0
    /\ allowed' = TRUE
    /\ pauseLeft' = None
    /\ lossStreakPauseActive' = (lossStreakPauseActive /\ pauseLeft = None)
    /\ tripped' = FALSE
    /\ UNCHANGED <<circuitBreakerEnabled, consecutiveLosses, recentPnlWindow,
                   balance, peak, pc, lag, open>>

\* Otherwise the balance is awaited.
ReadBalance ==
    /\ circuitBreakerEnabled
    /\ pc = "idle" /\ pauseLeft <= 0
    /\ pc' = "reading"
    /\ lag' = 0
    /\ allowed' = FALSE
    /\ UNCHANGED <<circuitBreakerEnabled, pauseLeft, lossStreakPauseActive,
                   consecutiveLosses, recentPnlWindow, balance, peak, open, tripped>>

Answer(pass) ==
    /\ pc = "reading"
    /\ pc' = "idle"
    /\ lag' = 0
    /\ allowed' = pass
    /\ UNCHANGED <<circuitBreakerEnabled, consecutiveLosses, recentPnlWindow, balance, open>>

\* A failed live RPC call skips the breaker for this scan.
SkipOnError ==
    /\ ~PaperTrading
    /\ Answer(TRUE)
    /\ UNCHANGED <<pauseLeft, lossStreakPauseActive, peak, tripped>>

Elapsed == pauseLeft # None /\ pauseLeft + lag <= 0

Rebaseline == IF lossStreakPauseActive THEN Higher(peak, balance) ELSE balance

\* The pause is over: resume, from a new peak unless it was a loss pause.
Resume ==
    /\ Elapsed
    /\ peak' = Rebaseline
    /\ pauseLeft' = None
    /\ lossStreakPauseActive' = FALSE
    /\ tripped' = FALSE
    /\ Answer(TRUE)

Trip ==
    /\ ~Elapsed
    /\ Critical(Higher(peak, balance), balance)
    /\ peak' = Higher(peak, balance)
    /\ pauseLeft' = DrawdownCooldown - lag
    /\ lossStreakPauseActive' = FALSE
    /\ tripped' = TRUE
    /\ Answer(FALSE)

Pass ==
    /\ ~Elapsed
    /\ ~Critical(Higher(peak, balance), balance)
    /\ peak' = Higher(peak, balance)
    /\ Answer(TRUE)
    /\ UNCHANGED <<pauseLeft, lossStreakPauseActive, tripped>>

-----------------------------------------------------------------------------
(* The trades.                                                             *)

\* A scan let through buys until the next one starts.
Buy ==
    /\ allowed /\ open < MaxOpen /\ balance > 0
    /\ balance' = balance - 1
    /\ open' = open + 1
    /\ UNCHANGED <<circuitBreakerEnabled, pauseLeft, lossStreakPauseActive,
                   consecutiveLosses, recentPnlWindow, peak, pc, lag, allowed, tripped>>

Sum(s) == FoldLeft(+, 0, s)

\* addRealizedPnl
Window(pnl) ==
    LET w == Append(recentPnlWindow, pnl)
    IN  IF Len(w) > WindowSize THEN Tail(w) ELSE w

ArmPause_Unmarked ==        \* Mutant: the pause is not marked as a loss pause
    pauseLeft' = LossStreakCooldown /\ lossStreakPauseActive' = FALSE

\* armPause, the same for both loss breakers
ArmPause == pauseLeft' = LossStreakCooldown /\ lossStreakPauseActive' = TRUE

\* recordTradeResult, with the proceeds credited just before.
CloseTrade(pnl) ==
    LET losses == IF pnl > 0 THEN 0 ELSE consecutiveLosses + 1
        streak == LossStreakThreshold > 0 /\ losses >= LossStreakThreshold
        net    == Sum(Window(pnl))
        bleed  == WindowSize > 0 /\ Len(Window(pnl)) >= WindowSize /\ net < 0
    IN  /\ open > 0 /\ balance + 1 + pnl <= MaxBalance
        /\ open' = open - 1
        /\ balance' = balance + 1 + pnl
        /\ peak' = IF PaperTrading THEN Higher(peak, balance') ELSE peak
        /\ consecutiveLosses' = IF streak THEN 0
                                ELSE IF LossStreakThreshold > 0 THEN losses ELSE 0
        /\ recentPnlWindow' = IF bleed \/ WindowSize = 0 THEN <<>> ELSE Window(pnl)
        /\ IF streak \/ bleed
           THEN ArmPause
           ELSE UNCHANGED <<pauseLeft, lossStreakPauseActive>>
        /\ UNCHANGED <<circuitBreakerEnabled, pc, lag, allowed, tripped>>

\* The process restarts: the pause and the counters are not saved, the peak
\* and the positions are.
Restart ==
    /\ pauseLeft' = None
    /\ lossStreakPauseActive' = FALSE
    /\ consecutiveLosses' = 0
    /\ recentPnlWindow' = <<>>
    /\ pc' = "idle" /\ lag' = 0
    /\ allowed' = FALSE
    /\ tripped' = FALSE
    /\ UNCHANGED <<circuitBreakerEnabled, balance, peak, open>>

Tick ==
    /\ pc = "reading" => lag < MaxLag
    /\ pauseLeft > -MaxLag - 1 \/ pc = "reading"
    /\ pauseLeft' = IF pauseLeft > -MaxLag - 1 THEN pauseLeft - 1 ELSE pauseLeft
    /\ lag' = IF pc = "reading" THEN lag + 1 ELSE lag
    /\ UNCHANGED <<circuitBreakerEnabled, lossStreakPauseActive, consecutiveLosses,
                   recentPnlWindow, balance, peak, pc, allowed, open, tripped>>

Answers == SkipOnError \/ Resume \/ Trip \/ Pass
Next ==
    \/ Blocked \/ PassDisabled \/ ReadBalance \/ Answers \/ Buy \/ Tick \/ Restart
    \/ \E pnl \in PnL : CloseTrade(pnl)

Spec == Init /\ [][Next]_vars

-----------------------------------------------------------------------------
(* Properties.                                                             *)

\* The high-water mark is lowered only at the end of a pause in which the
\* drawdown breaker tripped: a loss pause, which may end a few percent down,
\* never weakens the catastrophic breaker (comment in evaluateDrawdownBreaker).
PeakLoweredByTripOnly == [][peak' < peak => tripped]_vars

=============================================================================
