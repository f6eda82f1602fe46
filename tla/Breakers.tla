------------------------------ MODULE Breakers ------------------------------
(***************************************************************************)
(* Every gate on new buys together: the scans ask the mood gate            *)
(* (MoodBreaker) before they start and again before each buy, and the      *)
(* account-wide breaker (DrawdownBreaker) once the work items are known.   *)
(* Every exit reports its result to both.  The two clocks are unrelated:   *)
(* the durations are settings, and all orders of their ends are explored.  *)
(***************************************************************************)
EXTENDS Integers, Sequences

CONSTANTS
    PaperTrading, InitialBalance, MaxBalance, MaxOpen, MaxDrawdownPct,
    DrawdownCooldown, LossStreakCooldown, LossStreakThreshold, WindowSize, MaxLag,
    HistoryCap, WindowLarge, WindowSmall, CriticalWins, CautiousWins, PauseDuration,
    MaxRestarts              \* bound on the restarts of the process

VARIABLES
    open,                    \* open positions
    circuitBreakerEnabled, pauseLeft, lossStreakPauseActive, consecutiveLosses, recentPnlWindow,
    balance, peak, pc, lag, allowed, tripped,
    tradeHistory, moodLeft, moodPauseTradeCount, savedCount, mood, news,
    restarts

drawdownVars == <<circuitBreakerEnabled, pauseLeft, lossStreakPauseActive,
                  consecutiveLosses, recentPnlWindow, balance, peak, pc, lag, allowed, tripped>>
moodVars == <<tradeHistory, moodLeft, moodPauseTradeCount, savedCount, mood, news>>
breakersVars == <<open, drawdownVars, moodVars, restarts>>

D == INSTANCE DrawdownBreaker
M == INSTANCE MoodBreaker

ASSUME BreakersAssumption ==
    D!BreakerAssumption /\ M!MoodAssumption /\ MaxRestarts \in Nat

BreakersTyped == D!TypeOK /\ M!TypeOK /\ restarts \in 0..MaxRestarts

BreakersInit == D!Init /\ M!Init /\ restarts = 0

\* The loops ask the mood; a forced scan goes on although it is paused.
AskMood == M!GetMood /\ UNCHANGED <<drawdownVars, restarts>>
Scan == (D!Blocked \/ D!PassDisabled \/ D!ReadBalance) /\ UNCHANGED <<moodVars, restarts>>
Answer == D!Answers /\ UNCHANGED <<moodVars, restarts>>

\* buyCandidate, which asks the mood again.
BuyCandidate == D!Buy /\ M!Buy /\ UNCHANGED restarts

\* recordTradeResult.
CloseTrade(pnl) == D!CloseTrade(pnl) /\ M!CloseTrade(pnl > 0) /\ UNCHANGED restarts

Tick == \/ D!Tick /\ UNCHANGED <<moodVars, restarts>>
        \/ M!Tick /\ UNCHANGED <<drawdownVars, restarts>>

Restart == /\ restarts < MaxRestarts
           /\ restarts' = restarts + 1
           /\ D!Restart /\ M!Restart

BreakersNext == \/ AskMood \/ Scan \/ Answer \/ BuyCandidate \/ Tick \/ Restart
        \/ \E pnl \in D!PnL : CloseTrade(pnl)

\* The timers of the loops fire, a balance read ends, and time passes.
Fairness ==
    /\ WF_breakersVars(AskMood) /\ WF_breakersVars(Answer)
    /\ WF_breakersVars(Scan /\ mood # "paused")
    /\ WF_breakersVars(D!Tick /\ UNCHANGED <<moodVars, restarts>>)
    /\ WF_breakersVars(M!Tick /\ UNCHANGED <<drawdownVars, restarts>>)

BreakersSpec == BreakersInit /\ [][BreakersNext]_breakersVars /\ Fairness

-----------------------------------------------------------------------------
(* Properties.                                                             *)

\* A loss pause never lowers the peak the drawdown breaker compares with.
PeakLoweredByTripOnly == D!PeakLoweredByTripOnly

\* The mood pauses again only for a new outcome, across restarts.
PausesNeedNews == M!PausesNeedNews

\* No combination of the breakers locks the bot out for good: again and again
\* a scan is let through while the mood allows a buy.
BuyingResumes == []<>(allowed /\ mood # "paused")

=============================================================================
