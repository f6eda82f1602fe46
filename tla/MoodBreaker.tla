---------------------------- MODULE MoodBreaker ----------------------------
(***************************************************************************)
(* The mood gate on discovery and buys (exit-calculator.ts,                *)
(* getMoodAdjustments): a rolling win rate over the bounded trade history  *)
(* pauses the bot when critical, and an anti-lockup latch,                 *)
(* moodPauseTradeCount, lets it resume at reduced size when a pause ends   *)
(* with no new outcome.  The history, the pause and the latch are rows of  *)
(* the database; releasing the latch is the one change not written to it.  *)
(* Window sizes and thresholds are parameters, in trades and wins.         *)
(***************************************************************************)
EXTENDS Integers, Sequences, SequencesExt

CONSTANTS
    HistoryCap,           \* 50: state.store.ts, addTradeResult
    WindowLarge,          \* MOOD_THRESHOLDS.windowLarge
    WindowSmall,
    CriticalWins,         \* fewer wins than this in WindowLarge is critical
    CautiousWins,
    PauseDuration,
    MaxOpen

MoodAssumption ==
    /\ {HistoryCap, WindowLarge, WindowSmall, PauseDuration, MaxOpen} \subseteq Nat \ {0}
    /\ {CriticalWins, CautiousWins} \subseteq Nat
    /\ WindowLarge <= HistoryCap /\ WindowSmall <= HistoryCap

NoCount == -1

VARIABLES
    tradeHistory,
    moodLeft,             \* time until moodPauseUntil, 0 once it is past
    moodPauseTradeCount,  \* NoCount for null
    savedCount,           \* the row moodPauseTradeCount of the database
    mood,                 \* the last answer: paused, reduced or full
    open,                 \* open positions
    news                  \* history: an outcome was recorded since the last pause

vars == <<tradeHistory, moodLeft, moodPauseTradeCount, savedCount, mood, open, news>>

TypeOK ==
    /\ tradeHistory \in Seq(BOOLEAN) /\ Len(tradeHistory) <= HistoryCap
    /\ moodLeft \in 0..PauseDuration
    /\ {moodPauseTradeCount, savedCount} \subseteq {NoCount} \cup 0..HistoryCap
    /\ mood \in {"paused", "reduced", "full"}
    /\ open \in 0..MaxOpen
    /\ news \in BOOLEAN

Init ==
    /\ tradeHistory = <<>>
    /\ moodLeft = 0
    /\ moodPauseTradeCount = NoCount /\ savedCount = NoCount
    /\ mood = "full"
    /\ open = 0
    /\ news = FALSE

\* history.slice(-n)
LastTrades(n) == LET h == tradeHistory
             IN  IF Len(h) <= n THEN h ELSE SubSeq(h, Len(h) - n + 1, Len(h))
Wins(n) == Len(SelectSeq(LastTrades(n), LAMBDA win : win))
Below(window, wins) == Len(tradeHistory) >= window /\ Wins(window) < wins

Critical == Below(WindowLarge, CriticalWins)

NoNews_Strict == /\ moodPauseTradeCount # NoCount      \* Mutant: < for <=
                 /\ Len(tradeHistory) < moodPauseTradeCount

\* noNewTradesSincePause
NoNews == /\ moodPauseTradeCount # NoCount
          /\ Len(tradeHistory) <= moodPauseTradeCount

-----------------------------------------------------------------------------

StillPaused ==
    /\ moodLeft > 0
    /\ mood' = "paused"
    /\ UNCHANGED <<tradeHistory, moodLeft, moodPauseTradeCount, savedCount, open, news>>

ResumeReduced ==
    /\ moodLeft = 0 /\ Critical /\ NoNews
    /\ mood' = "reduced"
    /\ UNCHANGED <<tradeHistory, moodLeft, moodPauseTradeCount, savedCount, open, news>>

\* pauseMood
Pause ==
    /\ moodLeft = 0 /\ Critical /\ ~NoNews
    /\ moodLeft' = PauseDuration
    /\ moodPauseTradeCount' = Len(tradeHistory)
    /\ savedCount' = Len(tradeHistory)
    /\ mood' = "paused"
    /\ news' = FALSE
    /\ UNCHANGED <<tradeHistory, open>>

\* The win rate is no longer critical: the latch is released.
Trade ==
    /\ moodLeft = 0 /\ ~Critical
    /\ mood' = IF Below(WindowSmall, CautiousWins) THEN "reduced" ELSE "full"
    /\ moodPauseTradeCount' = NoCount
    /\ UNCHANGED <<tradeHistory, moodLeft, savedCount, open, news>>

GetMood == StillPaused \/ ResumeReduced \/ Pause \/ Trade

Buy ==
    /\ mood # "paused" /\ open < MaxOpen
    /\ open' = open + 1
    /\ UNCHANGED <<tradeHistory, moodLeft, moodPauseTradeCount, savedCount, mood, news>>

\* addTradeResult
Pushed(win) ==
    LET h == Append(tradeHistory, win)
    IN  IF Len(h) > HistoryCap THEN Tail(h) ELSE h

CloseTrade(win) ==
    /\ open > 0 /\ Len(tradeHistory) <= HistoryCap
    /\ open' = open - 1
    /\ tradeHistory' = Pushed(win)
    /\ news' = TRUE
    /\ UNCHANGED <<moodLeft, moodPauseTradeCount, savedCount, mood>>

Tick ==
    /\ moodLeft > 0
    /\ moodLeft' = moodLeft - 1
    /\ UNCHANGED <<tradeHistory, moodPauseTradeCount, savedCount, mood, open, news>>

(* The process restarts: loadFromDb reads the rows back. *)
Restart ==
    /\ moodPauseTradeCount' = savedCount
    /\ UNCHANGED <<tradeHistory, moodLeft, savedCount, mood, open, news>>

Next == GetMood \/ Buy \/ Tick \/ Restart \/ \E win \in BOOLEAN : CloseTrade(win)

Spec == Init /\ [][Next]_vars

-----------------------------------------------------------------------------
(* Properties.                                                             *)

\* A pause is followed by another one only for a new outcome.
PausesNeedNews == [][Pause /\ moodPauseTradeCount # NoCount => news]_vars

=============================================================================
