---------------------------- MODULE Gates_proofs ----------------------------
(***************************************************************************)
(* What stands between a mint and its purchase.  The breakers together,    *)
(* for every limit, window, cooldown and number of restarts: the values    *)
(* stay of their kind, a loss pause never lowers the peak, and the mood    *)
(* pauses again only for an outcome.  And, beside them, the candidacy, for *)
(* every mint, setting and course of its market: what is bought earned it, *)
(* after the two waits and within its attempts.                            *)
(***************************************************************************)
EXTENDS Breakers, Candidacy, TLAPS

-----------------------------------------------------------------------------
(* The breakers.                                                           *)

\* A pause that is not a loss pause was set by a drawdown trip.
PausesExplained == pauseLeft # D!None /\ ~lossStreakPauseActive => tripped

\* Before a new outcome, a latch covers the whole history, in memory and in
\* the database, from which a restart reads it back.
Covers(count) == count = M!NoCount \/ Len(tradeHistory) <= count
LatchesCover == ~news => Covers(moodPauseTradeCount) /\ Covers(savedCount)

BreakersInv == BreakersTyped /\ PausesExplained /\ LatchesCover

-----------------------------------------------------------------------------
(* The settings, and the sequences.                                        *)

LEMMA LimitsTyped ==
    /\ PaperTrading \in BOOLEAN /\ InitialBalance \in Nat /\ MaxBalance \in Nat
    /\ MaxOpen \in Nat \ {0} /\ MaxDrawdownPct \in Nat /\ LossStreakThreshold \in Nat
    /\ WindowSize \in Nat /\ MaxLag \in Nat
    /\ DrawdownCooldown \in Nat \ {0} /\ LossStreakCooldown \in Nat \ {0}
    /\ InitialBalance <= MaxBalance /\ D!None < -MaxLag - 1 /\ D!None \in Int
    /\ HistoryCap \in Nat \ {0} /\ PauseDuration \in Nat \ {0} /\ MaxRestarts \in Nat
BY BreakersAssumption DEF D!BreakerAssumption, M!MoodAssumption, D!None

\* Pushing one element and dropping the oldest beyond the limit keeps a
\* history within it.
LEMMA Bounded ==
    ASSUME NEW S, NEW s \in Seq(S), NEW x \in S, NEW n \in Nat, Len(s) <= n
    PROVE  LET t == IF Len(Append(s, x)) > n THEN Tail(Append(s, x)) ELSE Append(s, x)
           IN  t \in Seq(S) /\ Len(t) <= n
<1>1. Append(s, x) \in Seq(S) /\ Len(Append(s, x)) = Len(s) + 1 /\ Len(s) \in Nat
    OBVIOUS
<1>2. Append(s, x) # <<>>
    BY <1>1
<1>3. Tail(Append(s, x)) \in Seq(S) /\ Len(Tail(Append(s, x))) = Len(s)
    BY <1>1, <1>2
<1>4. QED BY <1>1, <1>3

LEMMA HigherTyped ==
    ASSUME NEW m \in 0..MaxBalance, NEW n \in 0..MaxBalance
    PROVE  D!Higher(m, n) \in 0..MaxBalance /\ D!Higher(m, n) >= m
BY LimitsTyped DEF D!Higher

-----------------------------------------------------------------------------
(* The drawdown and loss breakers.                                         *)

LEMMA DTyped ==
    ASSUME D!TypeOK
    PROVE  /\ pauseLeft \in Int /\ lossStreakPauseActive \in BOOLEAN /\ consecutiveLosses \in Nat
           /\ balance \in 0..MaxBalance /\ peak \in 0..MaxBalance /\ lag \in 0..MaxLag
           /\ open \in 0..MaxOpen /\ recentPnlWindow \in Seq(D!PnL)
           /\ Len(recentPnlWindow) <= WindowSize
BY LimitsTyped DEF D!TypeOK

LEMMA DAnswers ==
    ASSUME D!TypeOK, PausesExplained, D!Answers
    PROVE  D!TypeOK' /\ PausesExplained' /\ (peak' < peak => tripped)
<1>1. /\ pc' = "idle" /\ lag' = 0 /\ allowed' \in BOOLEAN
      /\ UNCHANGED <<circuitBreakerEnabled, consecutiveLosses, recentPnlWindow, balance, open>>
    BY DEF D!Answers, D!SkipOnError, D!Resume, D!Trip, D!Pass, D!Answer
<1>2. \/ UNCHANGED <<pauseLeft, lossStreakPauseActive, tripped>> /\ peak' \in {peak, D!Higher(peak, balance)}
      \/ /\ D!Elapsed /\ peak' = D!Rebaseline /\ pauseLeft' = D!None
         /\ lossStreakPauseActive' = FALSE /\ tripped' = FALSE
      \/ /\ peak' = D!Higher(peak, balance) /\ pauseLeft' = DrawdownCooldown - lag
         /\ lossStreakPauseActive' = FALSE /\ tripped' = TRUE
    BY DEF D!Answers, D!SkipOnError, D!Resume, D!Trip, D!Pass
<1>3. D!Higher(peak, balance) \in 0..MaxBalance /\ D!Higher(peak, balance) >= peak
    BY DTyped, HigherTyped
<1>4. DrawdownCooldown - lag \in (-MaxLag - 1)..(DrawdownCooldown + LossStreakCooldown)
    BY DTyped, LimitsTyped
<1>5. D!Rebaseline \in 0..MaxBalance /\ (lossStreakPauseActive => D!Rebaseline >= peak)
    BY <1>3, DTyped DEF D!Rebaseline
<1>6. pauseLeft' \in {D!None} \cup (-MaxLag - 1)..(DrawdownCooldown + LossStreakCooldown)
    BY <1>2, <1>4 DEF D!TypeOK
<1>7. peak' \in 0..MaxBalance
    BY <1>2, <1>3, <1>5, DTyped
<1>8. lossStreakPauseActive' \in BOOLEAN /\ tripped' \in BOOLEAN
    BY <1>2 DEF D!TypeOK
<1>9. D!TypeOK'
    BY <1>1, <1>6, <1>7, <1>8, LimitsTyped DEF D!TypeOK
<1>10. PausesExplained'
    BY <1>2 DEF PausesExplained
<1>11. peak' < peak => tripped
    <2>1. CASE peak' \in {peak, D!Higher(peak, balance)}
        BY <1>3, <2>1, DTyped
    <2>2. CASE D!Elapsed /\ peak' = D!Rebaseline
        <3>1. pauseLeft # D!None
            BY <2>2 DEF D!Elapsed
        <3>2. CASE lossStreakPauseActive
            BY <1>5, <1>7, <2>2, <3>2, DTyped
        <3>3. CASE ~lossStreakPauseActive
            BY <3>1, <3>3 DEF PausesExplained
        <3>4. QED BY <3>2, <3>3
    <2>3. QED BY <1>2, <2>1, <2>2
<1>12. QED BY <1>9, <1>10, <1>11

LEMMA DCloses ==
    ASSUME D!TypeOK, PausesExplained, NEW pnl \in D!PnL, D!CloseTrade(pnl)
    PROVE  D!TypeOK' /\ PausesExplained' /\ ~(peak' < peak)
<1> DEFINE losses == IF pnl > 0 THEN 0 ELSE consecutiveLosses + 1
           streak == LossStreakThreshold > 0 /\ losses >= LossStreakThreshold
           w == D!Window(pnl)
<1>1. /\ open > 0 /\ balance + 1 + pnl <= MaxBalance
      /\ open' = open - 1 /\ balance' = balance + 1 + pnl
      /\ peak' = IF PaperTrading THEN D!Higher(peak, balance') ELSE peak
      /\ consecutiveLosses' = IF streak THEN 0
                              ELSE IF LossStreakThreshold > 0 THEN losses ELSE 0
      /\ recentPnlWindow' = <<>> \/ (WindowSize # 0 /\ recentPnlWindow' = w)
      /\ \/ pauseLeft' = LossStreakCooldown /\ lossStreakPauseActive' = TRUE
         \/ UNCHANGED <<pauseLeft, lossStreakPauseActive>>
      /\ UNCHANGED <<circuitBreakerEnabled, pc, lag, allowed, tripped>>
    BY DEF D!CloseTrade, D!ArmPause
<1>2. pnl \in Int /\ pnl >= -1 /\ losses \in Nat /\ streak \in BOOLEAN
    BY DTyped DEF D!PnL
<1> HIDE DEF losses
<1>3. open' \in 0..MaxOpen /\ balance' \in 0..MaxBalance
    <2>1. open \in Int /\ open <= MaxOpen /\ balance \in Int /\ balance >= 0
        BY DTyped, LimitsTyped
    <2>2. MaxOpen \in Int /\ MaxBalance \in Int
        BY LimitsTyped
    <2>3. open' \in 0..MaxOpen
        BY <1>1, <2>1, <2>2
    <2>4. balance' \in 0..MaxBalance
        BY <1>1, <1>2, <2>1, <2>2
    <2>5. QED BY <2>3, <2>4
<1>4. peak' \in 0..MaxBalance /\ ~(peak' < peak)
    <2>1. peak \in 0..MaxBalance
        BY DTyped
    <2>2. D!Higher(peak, balance') \in 0..MaxBalance /\ D!Higher(peak, balance') >= peak
        BY <1>3, <2>1, HigherTyped
    <2>3. peak' \in {peak, D!Higher(peak, balance')}
        BY <1>1
    <2>4. MaxBalance \in Nat
        BY LimitsTyped
    <2>5. QED BY <2>1, <2>2, <2>3, <2>4
<1>5. /\ consecutiveLosses' \in Nat
      /\ LossStreakThreshold > 0 => consecutiveLosses' < LossStreakThreshold
    <2>1. LossStreakThreshold \in Nat
        BY LimitsTyped
    <2>2. CASE streak
        BY <1>1, <2>1, <2>2
    <2>3. CASE ~streak
        BY <1>1, <1>2, <2>1, <2>3
    <2>4. QED BY <2>2, <2>3
<1>6. recentPnlWindow' \in Seq(D!PnL) /\ Len(recentPnlWindow') <= WindowSize
    <2>1. w \in Seq(D!PnL) /\ Len(w) <= WindowSize
        BY Bounded, DTyped, LimitsTyped DEF D!Window
    <2> HIDE DEF w
    <2>2. CASE recentPnlWindow' = <<>>
        BY <2>2, LimitsTyped
    <2>3. QED BY <1>1, <2>1, <2>2
<1>7. pauseLeft' \in {D!None} \cup (-MaxLag - 1)..(DrawdownCooldown + LossStreakCooldown)
    <2>1. LossStreakCooldown \in (-MaxLag - 1)..(DrawdownCooldown + LossStreakCooldown)
        BY LimitsTyped
    <2>2. QED BY <1>1, <2>1 DEF D!TypeOK
<1>8. lossStreakPauseActive' \in BOOLEAN
    BY <1>1 DEF D!TypeOK
<1>9. D!TypeOK'
    BY <1>1, <1>3, <1>4, <1>5, <1>6, <1>7, <1>8 DEF D!TypeOK
<1>10. PausesExplained'
    BY <1>1 DEF PausesExplained
<1>11. QED BY <1>4, <1>9, <1>10

\* A step that only starts or ends an evaluation.
LEMMA AnswerKept ==
    ASSUME D!TypeOK, PausesExplained,
           lag' \in 0..MaxLag, pc' \in {"idle", "reading"}, allowed' \in BOOLEAN,
           UNCHANGED <<circuitBreakerEnabled, pauseLeft, lossStreakPauseActive,
                       consecutiveLosses, recentPnlWindow, balance, peak, open, tripped>>
    PROVE  D!TypeOK' /\ PausesExplained' /\ ~(peak' < peak)
<1>1. D!TypeOK'
    BY DEF D!TypeOK
<1>2. PausesExplained'
    BY DEF PausesExplained
<1>3. ~(peak' < peak)
    BY DTyped
<1>4. QED BY <1>1, <1>2, <1>3

LEMMA DOthers ==
    ASSUME D!TypeOK, PausesExplained,
           \/ D!Blocked \/ D!PassDisabled \/ D!ReadBalance
           \/ D!Buy \/ D!Tick \/ D!Restart \/ UNCHANGED D!vars
    PROVE  D!TypeOK' /\ PausesExplained' /\ ~(peak' < peak)
<1>1. CASE D!Blocked
    <2>1. lag' \in 0..MaxLag /\ pc' \in {"idle", "reading"} /\ allowed' \in BOOLEAN
          /\ UNCHANGED <<circuitBreakerEnabled, pauseLeft, lossStreakPauseActive,
                         consecutiveLosses, recentPnlWindow, balance, peak, open, tripped>>
        BY <1>1, DTyped DEF D!Blocked, D!TypeOK
    <2>2. QED BY <2>1, AnswerKept
<1>2. CASE D!ReadBalance
    <2>1. lag' \in 0..MaxLag /\ pc' \in {"idle", "reading"} /\ allowed' \in BOOLEAN
          /\ UNCHANGED <<circuitBreakerEnabled, pauseLeft, lossStreakPauseActive,
                         consecutiveLosses, recentPnlWindow, balance, peak, open, tripped>>
        <3>1. 0 \in 0..MaxLag
            BY LimitsTyped
        <3>2. QED BY <1>2, <3>1 DEF D!ReadBalance, D!TypeOK
    <2>2. QED BY <2>1, AnswerKept
<1>3. CASE D!Buy
    <2>1. open' \in 0..MaxOpen /\ balance' \in 0..MaxBalance
        BY <1>3, DTyped, LimitsTyped DEF D!Buy
    <2>2. QED BY <1>3, <2>1, DTyped, LimitsTyped DEF D!Buy, D!TypeOK, PausesExplained
<1>4. CASE D!Tick
    <2>1. pauseLeft' \in {D!None} \cup (-MaxLag - 1)..(DrawdownCooldown + LossStreakCooldown)
        <3>1. CASE pauseLeft > -MaxLag - 1
            BY <1>4, <3>1, DTyped, LimitsTyped DEF D!Tick, D!TypeOK
        <3>2. CASE ~(pauseLeft > -MaxLag - 1)
            BY <1>4, <3>2 DEF D!Tick, D!TypeOK
        <3>3. QED BY <3>1, <3>2
    <2>2. lag' \in 0..MaxLag
        BY <1>4, DTyped, LimitsTyped DEF D!Tick
    <2>3. D!TypeOK' /\ ~(peak' < peak)
        BY <1>4, <2>1, <2>2, DTyped DEF D!Tick, D!TypeOK
    <2>4. pauseLeft' # D!None => pauseLeft # D!None
        BY <1>4, DTyped, LimitsTyped DEF D!Tick
    <2>5. PausesExplained'
        BY <1>4, <2>4 DEF D!Tick, PausesExplained
    <2>6. QED BY <2>3, <2>5
<1>5. CASE D!Restart
    <2>1. <<>> \in Seq(D!PnL) /\ Len(<<>>) <= WindowSize
        BY LimitsTyped
    <2>2. 0 \in 0..MaxLag /\ 0 \in Nat /\ (LossStreakThreshold > 0 => 0 < LossStreakThreshold)
        BY LimitsTyped
    <2>3. D!TypeOK'
        BY <1>5, <2>1, <2>2 DEF D!Restart, D!TypeOK
    <2>4. PausesExplained' /\ ~(peak' < peak)
        BY <1>5, DTyped DEF D!Restart, PausesExplained
    <2>5. QED BY <2>3, <2>4
<1>6. CASE D!PassDisabled
    <2>1. lossStreakPauseActive' \in BOOLEAN /\ tripped' \in BOOLEAN /\ allowed' \in BOOLEAN
        BY <1>6 DEF D!PassDisabled
    <2>2. /\ pauseLeft' = D!None
          /\ UNCHANGED <<circuitBreakerEnabled, consecutiveLosses, recentPnlWindow,
                         balance, peak, pc, lag, open>>
        BY <1>6 DEF D!PassDisabled
    <2>3. D!TypeOK'
        BY <2>1, <2>2 DEF D!TypeOK
    <2>4. PausesExplained' /\ ~(peak' < peak)
        BY <2>2, DTyped DEF PausesExplained
    <2>5. QED BY <2>3, <2>4
<1>7. CASE UNCHANGED D!vars
    BY <1>7, DTyped DEF D!vars, D!TypeOK, PausesExplained
<1>8. QED BY <1>1, <1>2, <1>3, <1>4, <1>5, <1>6, <1>7

-----------------------------------------------------------------------------
(* The mood gate.                                                          *)

LEMMA MTyped ==
    ASSUME M!TypeOK
    PROVE  /\ tradeHistory \in Seq(BOOLEAN) /\ Len(tradeHistory) \in 0..HistoryCap
           /\ moodLeft \in 0..PauseDuration
           /\ moodPauseTradeCount \in {M!NoCount} \cup 0..HistoryCap
           /\ savedCount \in {M!NoCount} \cup 0..HistoryCap
           /\ open \in 0..MaxOpen
BY LimitsTyped DEF M!TypeOK

\* A latch that covers the history forbids the next pause.
LEMMA PauseIsNews ==
    ASSUME LatchesCover, M!Pause, moodPauseTradeCount # M!NoCount
    PROVE  news
BY DEF M!Pause, M!NoNews, LatchesCover, Covers

LEMMA MAnswers ==
    ASSUME M!TypeOK, LatchesCover, M!GetMood
    PROVE  M!TypeOK' /\ LatchesCover'
<1>1. CASE M!StillPaused
    BY <1>1 DEF M!StillPaused, M!TypeOK, LatchesCover, Covers
<1>2. CASE M!ResumeReduced
    BY <1>2 DEF M!ResumeReduced, M!TypeOK, LatchesCover, Covers
<1>3. CASE M!Pause
    <2>1. Len(tradeHistory) \in 0..HistoryCap /\ PauseDuration \in 0..PauseDuration
        BY MTyped, LimitsTyped
    <2>2. M!TypeOK'
        BY <1>3, <2>1 DEF M!Pause, M!TypeOK
    <2>3. LatchesCover'
        BY <1>3, <2>1, LimitsTyped DEF M!Pause, LatchesCover, Covers
    <2>4. QED BY <2>2, <2>3
<1>4. CASE M!Trade
    <2>1. mood' \in {"reduced", "full"} /\ moodPauseTradeCount' = M!NoCount
          /\ UNCHANGED <<tradeHistory, moodLeft, savedCount, open, news>>
        BY <1>4 DEF M!Trade
    <2>2. QED BY <2>1 DEF M!TypeOK, LatchesCover, Covers
<1>5. QED BY <1>1, <1>2, <1>3, <1>4 DEF M!GetMood

LEMMA MOthers ==
    ASSUME M!TypeOK, LatchesCover,
           M!Buy \/ M!Tick \/ M!Restart \/ (\E win \in BOOLEAN : M!CloseTrade(win))
             \/ UNCHANGED M!vars
    PROVE  M!TypeOK' /\ LatchesCover'
<1>1. CASE M!Buy
    BY <1>1, MTyped, LimitsTyped DEF M!Buy, M!TypeOK, LatchesCover, Covers
<1>2. CASE M!Tick
    <2>1. moodLeft' \in 0..PauseDuration
        BY <1>2, MTyped, LimitsTyped DEF M!Tick
    <2>2. QED BY <1>2, <2>1 DEF M!Tick, M!TypeOK, LatchesCover, Covers
<1>3. CASE M!Restart
    BY <1>3 DEF M!Restart, M!TypeOK, LatchesCover, Covers
<1>4. ASSUME NEW win \in BOOLEAN, M!CloseTrade(win)
      PROVE  M!TypeOK' /\ LatchesCover'
    <2>1. tradeHistory' = M!Pushed(win) /\ news' = TRUE /\ open' = open - 1 /\ open > 0
          /\ UNCHANGED <<moodLeft, moodPauseTradeCount, savedCount, mood>>
        BY <1>4 DEF M!CloseTrade
    <2>2. tradeHistory' \in Seq(BOOLEAN) /\ Len(tradeHistory') <= HistoryCap
        <3>1. HistoryCap \in Nat /\ tradeHistory \in Seq(BOOLEAN) /\ Len(tradeHistory) <= HistoryCap
            BY MTyped, LimitsTyped
        <3>2. M!Pushed(win) \in Seq(BOOLEAN) /\ Len(M!Pushed(win)) <= HistoryCap
            BY <3>1, Bounded, Zenon DEF M!Pushed
        <3>3. QED BY <2>1, <3>2
    <2>3. open' \in 0..MaxOpen
        BY <2>1, MTyped, LimitsTyped
    <2>4. QED BY <2>1, <2>2, <2>3 DEF M!TypeOK, LatchesCover
<1>5. CASE UNCHANGED M!vars
    BY <1>5 DEF M!vars, M!TypeOK, LatchesCover, Covers
<1>6. QED BY <1>1, <1>2, <1>3, <1>4, <1>5

-----------------------------------------------------------------------------
(* The breakers together: an action of the composition moves each of the   *)
(* two, or leaves it alone.                                                *)

\* What a step does to the account-wide breakers, and to the mood.
Drawdowns == \/ D!Blocked \/ D!PassDisabled \/ D!ReadBalance \/ D!Answers
             \/ D!Buy \/ D!Tick \/ D!Restart
             \/ (\E pnl \in D!PnL : D!CloseTrade(pnl)) \/ UNCHANGED D!vars
Moods == \/ M!GetMood \/ M!Buy \/ M!Tick \/ M!Restart
         \/ (\E win \in BOOLEAN : M!CloseTrade(win)) \/ UNCHANGED M!vars

LEMMA StepMovesBoth ==
    ASSUME BreakersInv, [BreakersNext]_breakersVars
    PROVE  Drawdowns /\ Moods /\ restarts' \in 0..MaxRestarts
<1>1. restarts \in 0..MaxRestarts /\ MaxRestarts \in Nat
    BY LimitsTyped DEF BreakersInv, BreakersTyped
<1>2. CASE AskMood
    <2>1. UNCHANGED open
        BY <1>2 DEF AskMood, M!GetMood, M!StillPaused, M!ResumeReduced, M!Pause, M!Trade
    <2>2. UNCHANGED D!vars
        BY <1>2, <2>1 DEF AskMood, D!vars, drawdownVars
    <2>3. QED BY <1>1, <1>2, <2>2 DEF AskMood, Drawdowns, Moods
<1>3. CASE Scan
    <2>1. UNCHANGED open
        BY <1>3 DEF Scan, D!Blocked, D!PassDisabled, D!ReadBalance
    <2>2. UNCHANGED M!vars
        BY <1>3, <2>1 DEF Scan, M!vars, moodVars
    <2>3. QED BY <1>1, <1>3, <2>2 DEF Scan, Drawdowns, Moods
<1>4. CASE Answer
    <2>1. UNCHANGED open
        BY <1>4 DEF Answer, D!Answers, D!SkipOnError, D!Resume, D!Trip, D!Pass, D!Answer
    <2>2. UNCHANGED M!vars
        BY <1>4, <2>1 DEF Answer, M!vars, moodVars
    <2>3. QED BY <1>1, <1>4, <2>2 DEF Answer, Drawdowns, Moods
<1>5. CASE BuyCandidate
    BY <1>1, <1>5 DEF BuyCandidate, Drawdowns, Moods
<1>6. CASE Tick
    <2>1. CASE D!Tick /\ UNCHANGED <<moodVars, restarts>>
        <3>1. UNCHANGED M!vars
            BY <2>1 DEF D!Tick, M!vars, moodVars
        <3>2. QED BY <1>1, <2>1, <3>1 DEF Drawdowns, Moods
    <2>2. CASE M!Tick /\ UNCHANGED <<drawdownVars, restarts>>
        <3>1. UNCHANGED D!vars
            BY <2>2 DEF M!Tick, D!vars, drawdownVars
        <3>2. QED BY <1>1, <2>2, <3>1 DEF Drawdowns, Moods
    <2>3. QED BY <1>6, <2>1, <2>2 DEF Tick
<1>7. CASE Restart
    BY <1>1, <1>7 DEF Restart, Drawdowns, Moods
<1>8. ASSUME NEW pnl \in D!PnL, CloseTrade(pnl)
      PROVE  Drawdowns /\ Moods /\ restarts' \in 0..MaxRestarts
    <2>1. (pnl > 0) \in BOOLEAN
        OBVIOUS
    <2>2. QED BY <1>1, <1>8, <2>1 DEF CloseTrade, Drawdowns, Moods
<1>9. CASE UNCHANGED breakersVars
    <2>1. UNCHANGED D!vars /\ UNCHANGED M!vars /\ UNCHANGED restarts
        BY <1>9 DEF breakersVars, drawdownVars, moodVars, D!vars, M!vars
    <2>2. QED BY <1>1, <2>1 DEF Drawdowns, Moods
<1>10. QED BY <1>2, <1>3, <1>4, <1>5, <1>6, <1>7, <1>8, <1>9 DEF BreakersNext

LEMMA StepKeepsDrawdowns ==
    ASSUME D!TypeOK, PausesExplained, Drawdowns
    PROVE  D!TypeOK' /\ PausesExplained' /\ (peak' < peak => tripped)
<1>1. CASE D!Answers
    BY <1>1, DAnswers
<1>2. ASSUME NEW pnl \in D!PnL, D!CloseTrade(pnl)
      PROVE  D!TypeOK' /\ PausesExplained' /\ (peak' < peak => tripped)
    BY <1>2, DCloses
<1>3. CASE \/ D!Blocked \/ D!PassDisabled \/ D!ReadBalance
           \/ D!Buy \/ D!Tick \/ D!Restart \/ UNCHANGED D!vars
    BY <1>3, DOthers
<1>4. QED BY <1>1, <1>2, <1>3 DEF Drawdowns

LEMMA StepKeepsMoods ==
    ASSUME M!TypeOK, LatchesCover, Moods
    PROVE  M!TypeOK' /\ LatchesCover'
<1>1. CASE M!GetMood
    BY <1>1, MAnswers
<1>2. CASE \/ M!Buy \/ M!Tick \/ M!Restart \/ UNCHANGED M!vars
           \/ \E win \in BOOLEAN : M!CloseTrade(win)
    BY <1>2, MOthers
<1>3. QED BY <1>1, <1>2 DEF Moods

LEMMA InitIInv == BreakersInit => BreakersInv
<1> SUFFICES ASSUME BreakersInit PROVE BreakersInv
    OBVIOUS
<1>1. D!TypeOK
    <2>1. <<>> \in Seq(D!PnL) /\ Len(<<>>) <= WindowSize
        BY LimitsTyped
    <2>2. /\ 0 \in 0..MaxLag /\ 0 \in 0..MaxOpen /\ InitialBalance \in 0..MaxBalance
          /\ LossStreakThreshold > 0 => 0 < LossStreakThreshold
        BY LimitsTyped
    <2>3. QED BY <2>1, <2>2 DEF BreakersInit, D!Init, D!TypeOK
<1>2. M!TypeOK
    <2>1. <<>> \in Seq(BOOLEAN) /\ Len(<<>>) <= HistoryCap
        BY LimitsTyped
    <2>2. 0 \in 0..PauseDuration /\ 0 \in 0..MaxOpen
        BY LimitsTyped
    <2>3. QED BY <2>1, <2>2 DEF BreakersInit, M!Init, M!TypeOK
<1>3. PausesExplained
    BY DEF BreakersInit, D!Init, PausesExplained
<1>4. LatchesCover
    BY DEF BreakersInit, M!Init, LatchesCover, Covers
<1>5. restarts \in 0..MaxRestarts
    BY LimitsTyped DEF BreakersInit
<1>6. QED BY <1>1, <1>2, <1>3, <1>4, <1>5 DEF BreakersInv, BreakersTyped

LEMMA StepIInv == BreakersInv /\ [BreakersNext]_breakersVars => BreakersInv'
<1> SUFFICES ASSUME BreakersInv, [BreakersNext]_breakersVars PROVE BreakersInv'
    OBVIOUS
<1>1. Drawdowns /\ Moods /\ restarts' \in 0..MaxRestarts
    BY StepMovesBoth
<1>2. D!TypeOK' /\ PausesExplained'
    BY <1>1, StepKeepsDrawdowns DEF BreakersInv, BreakersTyped
<1>3. M!TypeOK' /\ LatchesCover'
    BY <1>1, StepKeepsMoods DEF BreakersInv, BreakersTyped
<1>4. QED BY <1>1, <1>2, <1>3 DEF BreakersInv, BreakersTyped

LEMMA IInvAlways == BreakersSpec => []BreakersInv
BY InitIInv, StepIInv, PTL DEF BreakersSpec

-----------------------------------------------------------------------------
(* The theorems.                                                           *)

\* The windows, counters and clocks of evaluateDrawdownBreaker,
\* recordTradeResult and getMoodAdjustments stay within their limits.
THEOREM BreakersAreTyped == BreakersSpec => []BreakersTyped
<1>1. BreakersInv => BreakersTyped
    BY DEF BreakersInv
<1>2. QED BY <1>1, IInvAlways, PTL

\* A loss pause, whenever it is armed, never lowers the peak that the drawdown
\* breaker compares with: only the end of a pause that saw a trip does.
THEOREM LossPausesKeepThePeak == BreakersSpec => PeakLoweredByTripOnly
<1>1. BreakersInv /\ [BreakersNext]_breakersVars => [peak' < peak => tripped]_(D!vars)
    <2> SUFFICES ASSUME BreakersInv, [BreakersNext]_breakersVars PROVE peak' < peak => tripped
        OBVIOUS
    <2>1. QED BY StepMovesBoth, StepKeepsDrawdowns DEF BreakersInv, BreakersTyped
<1>2. QED BY <1>1, IInvAlways, PTL DEF BreakersSpec, PeakLoweredByTripOnly, D!PeakLoweredByTripOnly

\* After a mood pause the next one needs a new outcome, restarts included:
\* the bot cannot pause for ever on one losing run.
THEOREM MoodPausesNeedNews == BreakersSpec => PausesNeedNews
<1>1. BreakersInv => [M!Pause /\ moodPauseTradeCount # M!NoCount => news]_(M!vars)
    BY PauseIsNews DEF BreakersInv
<1>2. QED BY <1>1, IInvAlways, PTL DEF PausesNeedNews, M!PausesNeedNews

-----------------------------------------------------------------------------
(* The candidacy of a mint.                                                *)

\* What is read, remembered and compared are numbers.
Entries == [stage : {"none", "survival", "final", "waitlist"},
            price : Nat, liquidity : Nat, base : Nat,
            attempts : 0..MaxRecheckAttempts, lag : 0..MaxIndexingLagRetries]
ValuesTyped ==
    /\ TypeOK
    /\ item \in Markets /\ window \in Markets /\ entry \in Entries
    /\ snapshot.price \in Nat /\ snapshot.liquidity \in Nat

\* The first and the second wait keep the pool they began with, and the look
\* that ended each wait lost no more than the limit; lags repeat the second.
LooksBounded ==
    /\ entry.stage # "final" => entry.lag = 0
    /\ entry.stage = "survival" => entry.liquidity = window.liquidity
    /\ entry.stage = "final" /\ ~config.burst =>
          window.liquidity - entry.liquidity <= (1 + entry.lag) * Drawdown

\* What a work item that passed the final audit has shown.
AuditPassed ==
    scan \in {"deep", "buying"} =>
        /\ entry.stage = "final" /\ entry.attempts < MaxRecheckAttempts
        /\ item.price >= window.price /\ item.liquidity >= MinLiquidity
        /\ ~config.burst =>
              window.liquidity - item.liquidity <= (2 + entry.lag) * Drawdown
        /\ Score >= LowestMinScore
        /\ token.flags \cup token.soft = {}

CandidateInv == ValuesTyped /\ LooksBounded /\ AuditPassed /\ BuysEarned

LEMMA Numbers ==
    ASSUME ValuesTyped
    PROVE  /\ MinLiquidity \in Nat /\ Drawdown \in Nat /\ MinScore \in Nat /\ ScoreFloor \in Nat
           /\ MaxRecheckAttempts \in Nat /\ MaxIndexingLagRetries \in Nat /\ MaxSamples \in Nat
           /\ config.burst \in BOOLEAN /\ market \in Markets
           /\ "too-new" \notin token.flags \cup token.soft
<1>1. case \in Cases /\ at \in DOMAIN case.course
    BY DEF ValuesTyped, TypeOK
<1>2. case.config \in Settings /\ case.course \in Seq(Markets)
      /\ "too-new" \notin case.token.flags \cup case.token.soft
    BY <1>1, CandidacyAssumption DEF ValuesTyped
<1>3. case.course[at] \in Markets
    BY <1>1, <1>2
<1>4. QED
    BY <1>2, <1>3, CandidacyAssumption DEF ValuesTyped, Settings, config, market, token

LEMMA ScoreIsInt == Score \in Int
BY DEF Score, Points

\* The bound of the looks grows with each of them.
LEMMA OneMoreLook ==
    ASSUME NEW n \in Nat, Drawdown \in Nat
    PROVE  /\ (1 + n) * Drawdown \in Nat
           /\ (2 + n) * Drawdown = (1 + n) * Drawdown + Drawdown
           /\ (1 + (n + 1)) * Drawdown = (2 + n) * Drawdown
OBVIOUS

-----------------------------------------------------------------------------
(* What each end of a step keeps.                                          *)

\* A mint that is not passed on by the audit: what was said of it stays true.
LEMMA EarlyKeeps ==
    ASSUME CandidateInv, UNCHANGED <<case, entry, window, verdict>>,
           \/ UNCHANGED scan /\ UNCHANGED item /\ UNCHANGED signals
           \/ /\ scan' \in {"idle", "pricing", "built", "signals"}
              /\ verdict = "open" \/ scan' = "idle"
              /\ item' \in Markets /\ signals' \in Lookups,
           at' \in DOMAIN case.course, age' \in {"young", "ripe", "old"},
           cooling' \in BOOLEAN, due' \in BOOLEAN,
           sampling' \in 0..MaxSamples, samples'.count \in 0..MaxSamples,
           prefetched' \in Lookups, prefetching' \in BOOLEAN,
           snapshot'.price \in Nat, snapshot'.liquidity \in Nat
    PROVE  CandidateInv'
<1>1. ValuesTyped'
    <2>1. TypeOK'
        BY DEF CandidateInv, ValuesTyped, TypeOK, NoEntry
    <2>2. item' \in Markets
        BY DEF CandidateInv, ValuesTyped
    <2>3. QED BY <2>1, <2>2, CandidacyAssumption DEF CandidateInv, ValuesTyped, Markets, Settings, Entries
<1>2. LooksBounded'
    BY DEF CandidateInv, LooksBounded, config
<1>3. AuditPassed' /\ BuysEarned'
    <2>1. CASE UNCHANGED scan /\ UNCHANGED item /\ UNCHANGED signals
        <3>1. Score' = Score /\ LowestMinScore' = LowestMinScore
            BY <2>1 DEF Score, Points, token, LowestMinScore, config
        <3>2. QED
            BY <2>1, <3>1 DEF CandidateInv, AuditPassed, BuysEarned, token, config
    <2>2. CASE scan' \in {"idle", "pricing", "built", "signals"}
        BY <2>2 DEF AuditPassed, BuysEarned
    <2>3. QED BY <2>1, <2>2
<1>4. QED BY <1>1, <1>2, <1>3 DEF CandidateInv

\* A recheck is entered.
LEMMA ScheduleKeeps ==
    ASSUME CandidateInv, NEW e \in Entries, Schedule(e), verdict = "open",
           UNCHANGED <<case, at, age, snapshot, cooling>>,
           sampling' \in 0..MaxSamples, prefetching' \in BOOLEAN, window' \in Markets,
           e.stage \in {"survival", "final"} => e.base = window'.price /\ window'.price > 0,
           e.stage # "final" => e.lag = 0,
           e.stage = "survival" => e.liquidity = window'.liquidity,
           e.stage = "final" /\ ~config.burst =>
              window'.liquidity - e.liquidity <= (1 + e.lag) * Drawdown
    PROVE  CandidateInv'
<1>1. /\ entry' = e /\ due' = FALSE /\ scan' = "idle" /\ signals' = NoLookup
      /\ item' = Unread /\ UNCHANGED <<samples, prefetched, verdict, hard>>
    BY DEF Schedule
<1>2. Unread \in Markets /\ NoLookup \in Lookups
    BY DEF Unread, Markets, NoLookup, Lookups
<1>3. TypeOK'
    BY <1>1, <1>2 DEF CandidateInv, ValuesTyped, TypeOK, Entries
<1>4. ValuesTyped'
    BY <1>1, <1>2, <1>3, CandidacyAssumption
       DEF CandidateInv, ValuesTyped, Markets, Settings, Entries
<1>5. LooksBounded'
    BY <1>1 DEF LooksBounded, config
<1>6. AuditPassed' /\ BuysEarned'
    BY <1>1 DEF AuditPassed, BuysEarned
<1>7. QED BY <1>4, <1>5, <1>6 DEF CandidateInv

\* The mint is judged.
LEMMA TrackKeeps ==
    ASSUME CandidateInv, NEW v \in {"bought", "rejected"}, NEW codes, Track(v, codes),
           UNCHANGED <<case, at, age, snapshot, cooling>>
    PROVE  CandidateInv'
<1>1. /\ entry' = NoEntry /\ due' = FALSE /\ scan' = "idle" /\ signals' = NoLookup
      /\ item' = Unread /\ samples' = NoSamples /\ prefetched' = NoLookup
      /\ verdict' = v /\ UNCHANGED <<sampling, prefetching, window>>
    BY DEF Track
<1>2. Unread \in Markets /\ NoLookup \in Lookups /\ NoEntry \in Entries
      /\ NoSamples.count \in 0..MaxSamples
    BY Numbers DEF Unread, Markets, NoLookup, Lookups, NoEntry, Entries, NoSamples,
          CandidateInv
<1>3. TypeOK'
    BY <1>1, <1>2 DEF CandidateInv, ValuesTyped, TypeOK, Entries, NoEntry
<1>4. ValuesTyped'
    BY <1>1, <1>2, <1>3, CandidacyAssumption
       DEF CandidateInv, ValuesTyped, Markets, Settings, Entries
<1>5. LooksBounded'
    BY <1>1 DEF LooksBounded, NoEntry
<1>6. AuditPassed' /\ BuysEarned'
    BY <1>1 DEF AuditPassed, BuysEarned
<1>7. QED BY <1>4, <1>5, <1>6 DEF CandidateInv

LEMMA LeaveKeeps ==
    ASSUME CandidateInv, LeaveAsIs, UNCHANGED <<case, at, age, snapshot, cooling>>
    PROVE  CandidateInv'
<1>1. /\ scan' = "idle" /\ item' = Unread /\ signals' = NoLookup /\ due' \in BOOLEAN
      /\ UNCHANGED <<entry, samples, sampling, prefetched, prefetching, verdict, window>>
    BY DEF LeaveAsIs, backVars, endVars
<1>2. Unread \in Markets /\ NoLookup \in Lookups
    BY DEF Unread, Markets, NoLookup, Lookups
<1>3. QED
    BY <1>1, <1>2, EarlyKeeps DEF CandidateInv, ValuesTyped, TypeOK

-----------------------------------------------------------------------------
(* The steps of a candidacy.                                               *)

LEMMA WorldKeeps ==
    ASSUME CandidateInv, World \/ TimerFires \/ Background
    PROVE  CandidateInv'
<1>1. /\ UNCHANGED <<case, entry, window, verdict, scan, item, signals, snapshot>>
      /\ at' \in DOMAIN case.course /\ age' \in {"young", "ripe", "old"}
      /\ cooling' \in BOOLEAN /\ due' \in BOOLEAN
      /\ sampling' \in 0..MaxSamples /\ samples'.count \in 0..MaxSamples
      /\ prefetched' \in Lookups /\ prefetching' \in BOOLEAN
    <2> USE DEF CandidateInv, ValuesTyped, TypeOK, worldVars, backVars, scanVars, endVars
    <2>1. CASE World
        BY <2>1 DEF World, MarketMoves, Ages
    <2>2. CASE TimerFires
        BY <2>2 DEF TimerFires
    <2>3. CASE CooldownEnds
        BY <2>3 DEF CooldownEnds
    <2>4. CASE PrefetchReturns
        BY <2>4 DEF PrefetchReturns, MintReads, BatchReads
    <2>5. CASE SampleReturns
        <3>1. samples'.count \in 0..MaxSamples
            BY <2>5, Numbers DEF SampleReturns
        <3>2. sampling' \in 0..MaxSamples
            BY <2>5, Numbers DEF SampleReturns
        <3>3. QED BY <2>5, <3>1, <3>2 DEF SampleReturns
    <2>6. QED BY <2>1, <2>2, <2>3, <2>4, <2>5 DEF Background
<1>2. snapshot'.price \in Nat /\ snapshot'.liquidity \in Nat
    BY <1>1 DEF CandidateInv, ValuesTyped
<1>3. QED BY <1>1, <1>2, EarlyKeeps

LEMMA OfferKeeps ==
    ASSUME CandidateInv, Offer \/ TakeDue \/ TakeSignals
    PROVE  CandidateInv'
<1>1. market \in Markets /\ Unread \in Markets
    BY Numbers DEF CandidateInv, Unread, Markets
<1>2. /\ UNCHANGED <<case, at, age, cooling, entry, window, verdict, samples, sampling, prefetching>>
      /\ due' \in BOOLEAN /\ prefetched' \in Lookups
      /\ snapshot'.price \in Nat /\ snapshot'.liquidity \in Nat
      /\ \/ UNCHANGED scan /\ UNCHANGED item /\ UNCHANGED signals
         \/ /\ scan' \in {"idle", "pricing", "built", "signals"} /\ verdict = "open"
            /\ item' \in Markets /\ signals' \in Lookups
    <2> USE DEF CandidateInv, ValuesTyped, TypeOK, worldVars, backVars, scanVars, endVars
    <2>1. CASE Offer
        <3>1. PICK view \in FeedViews :
                 /\ snapshot' = IF Dated
                                THEN Snapshot(view, IF token.launchpad = "null" THEN "unknown"
                                                      ELSE token.launchpad)
                                ELSE snapshot
                 /\ \/ UNCHANGED <<scan, item, signals>>
                    \/ /\ item' = view /\ scan' \in {"pricing", "built"}
                       /\ UNCHANGED signals
            BY <2>1 DEF Offer
        <3>2. view \in Markets
            BY <1>1 DEF FeedViews
        <3>3. snapshot'.price \in Nat /\ snapshot'.liquidity \in Nat
            BY <3>1, <3>2 DEF Snapshot, Markets
        <3>4. QED BY <2>1, <3>1, <3>2, <3>3 DEF Offer
    <2>2. CASE TakeDue
        BY <2>2 DEF TakeDue
    <2>3. CASE TakeSignals
        <3>1. NoLookup \in Lookups
            BY DEF NoLookup, Lookups
        <3>2. QED BY <2>3, <3>1 DEF TakeSignals, BatchReads
    <2>4. QED BY <2>1, <2>2, <2>3
<1>3. QED
    BY <1>2, EarlyKeeps DEF CandidateInv, ValuesTyped, TypeOK

LEMMA BuildKeeps ==
    ASSUME CandidateInv, scan = "pricing", NEW s, Build(s), cooling' \in BOOLEAN,
           s.price \in Nat, s.liquidity \in Nat,
           UNCHANGED <<case, at, age, entry, due, samples, sampling, prefetched, prefetching,
                       signals, verdict, window>>
    PROVE  CandidateInv'
<1>1. entry.price \in Nat /\ entry.liquidity \in Nat
    BY DEF CandidateInv, ValuesTyped, Entries
<1>2. Overlay(s) \in Markets
    BY <1>1 DEF Overlay, Filled, Markets
<1>3. /\ item' \in Markets /\ scan' \in {"signals", "built"}
      /\ snapshot'.price \in Nat /\ snapshot'.liquidity \in Nat
    BY <1>2 DEF Build, CandidateInv, ValuesTyped
<1>4. verdict = "open"
    BY DEF CandidateInv, ValuesTyped, TypeOK
<1>5. QED
    BY <1>3, <1>4, EarlyKeeps DEF CandidateInv, ValuesTyped, TypeOK

LEMMA PricesKeep ==
    ASSUME CandidateInv, Priced \/ RateLimited
    PROVE  CandidateInv'
<1>1. UNCHANGED <<case, at, age, entry, due, samples, sampling, prefetched, prefetching,
                  signals, verdict, window>>
    BY DEF Priced, RateLimited, worldVars, backVars, endVars
<1>2. CASE Priced
    <2>1. PICK read \in PriceReads : Build(Merged(read))
        BY <1>2 DEF Priced
    <2>2. market.price \in Nat /\ market.liquidity \in Nat
        BY Numbers DEF CandidateInv, Markets
    <2>3. read.price \in Nat /\ read.liquidity \in Nat
        <3>1. CASE read = NoSnapshot
            BY <3>1 DEF NoSnapshot
        <3>2. CASE read \in CurveReads
            BY <2>2, <3>2 DEF CurveReads, Snapshot
        <3>3. CASE read \in JupiterReads
            <4>1. PICK l \in {0, market.liquidity} :
                     read = Snapshot([market EXCEPT !.liquidity = l], "null")
                BY <3>3 DEF JupiterReads
            <4>2. [market EXCEPT !.liquidity = l].price \in Nat
                  /\ [market EXCEPT !.liquidity = l].liquidity \in Nat
                BY <2>2, Numbers DEF CandidateInv, Markets
            <4>3. QED BY <4>1, <4>2 DEF Snapshot
        <3>4. QED BY <2>1, <3>1, <3>2, <3>3 DEF PriceReads
    <2>4. Merged(read).price \in Nat /\ Merged(read).liquidity \in Nat
        BY <2>3 DEF Merged, Filled, CandidateInv, ValuesTyped
    <2>5. QED BY <1>1, <1>2, <2>1, <2>4, BuildKeeps DEF Priced, CandidateInv, ValuesTyped, TypeOK
<1>3. CASE RateLimited
    BY <1>1, <1>3, BuildKeeps DEF RateLimited, CandidateInv, ValuesTyped
<1>4. QED BY <1>2, <1>3

-----------------------------------------------------------------------------
(* The audit.                                                              *)

LEMMA FieldsTyped ==
    ASSUME CandidateInv
    PROVE  /\ item.price \in Nat /\ item.liquidity \in Nat
           /\ entry \in Entries /\ entry.attempts \in 0..MaxRecheckAttempts
           /\ MaxRecheckAttempts \in Nat /\ MaxIndexingLagRetries \in Nat
<1>1. item \in Markets /\ entry \in Entries
    BY DEF CandidateInv, ValuesTyped
<1>2. MaxRecheckAttempts \in Nat /\ MaxIndexingLagRetries \in Nat
    BY Numbers DEF CandidateInv
<1>3. QED BY <1>1, <1>2 DEF Markets, Entries

LEMMA NoEntryTyped ==
    ASSUME CandidateInv
    PROVE  NoEntry \in Entries /\ NoEntry.lag = 0
BY FieldsTyped DEF NoEntry, Entries

\* A recheck that is entered.
LEMMA WaitlistedTyped ==
    ASSUME CandidateInv, entry.attempts < MaxRecheckAttempts, NEW reasons
    PROVE  LET e == Waitlisted(reasons)
           IN  /\ e \in Entries /\ e.stage = "waitlist" /\ e.lag = 0
               /\ \/ e.attempts = entry.attempts + 1
                  \/ e.attempts = entry.attempts /\ reasons = {"too-new"}
<1>1. /\ item.price \in Nat /\ item.liquidity \in Nat /\ NoEntry \in Entries
      /\ NoEntry.lag = 0
    BY FieldsTyped, NoEntryTyped
<1>2. PICK n \in {0, 1} : /\ n = Points(reasons # {"too-new"}, 1)
                          /\ n = 1 \/ reasons = {"too-new"}
    BY DEF Points
<1>3. entry.attempts + n \in 0..MaxRecheckAttempts /\ entry.attempts \in Nat
    BY <1>2, FieldsTyped
<1>4. Waitlisted(reasons) = [NoEntry EXCEPT !.stage = "waitlist", !.price = item.price,
                                  !.liquidity = item.liquidity, !.attempts = entry.attempts + n]
    BY <1>2 DEF Waitlisted
<1>5. Waitlisted(reasons) \in Entries
    BY <1>1, <1>3, <1>4 DEF Entries
<1>6. /\ Waitlisted(reasons).stage = "waitlist" /\ Waitlisted(reasons).lag = 0
      /\ Waitlisted(reasons).attempts = entry.attempts + n
    BY <1>1, <1>4 DEF Entries
<1>7. QED BY <1>2, <1>3, <1>5, <1>6

LEMMA SurvivalTyped ==
    ASSUME CandidateInv
    PROVE  LET e == [NoEntry EXCEPT !.stage = "survival", !.price = item.price,
                                      !.liquidity = item.liquidity, !.base = item.price,
                                      !.attempts = entry.attempts]
           IN  /\ e \in Entries /\ e.stage = "survival" /\ e.base = item.price
               /\ e.liquidity = item.liquidity /\ e.lag = 0 /\ e.attempts = entry.attempts
<1>1. /\ item.price \in Nat /\ item.liquidity \in Nat /\ NoEntry \in Entries
      /\ NoEntry.lag = 0 /\ entry.attempts \in 0..MaxRecheckAttempts
    BY FieldsTyped, NoEntryTyped
<1>2. [NoEntry EXCEPT !.stage = "survival", !.price = item.price, !.liquidity = item.liquidity,
                        !.base = item.price, !.attempts = entry.attempts] \in Entries
    BY <1>1 DEF Entries
<1>3. QED BY <1>1, <1>2 DEF Entries

LEMMA AtFinalTyped ==
    ASSUME CandidateInv
    PROVE  /\ AtFinal \in Entries /\ AtFinal.stage = "final" /\ AtFinal.lag = 0
           /\ AtFinal.base = entry.base /\ AtFinal.liquidity = item.liquidity
           /\ AtFinal.attempts = entry.attempts
<1>1. /\ item.price \in Nat /\ item.liquidity \in Nat /\ entry \in Entries
      /\ 0 \in 0..MaxIndexingLagRetries
    BY FieldsTyped
<1>2. AtFinal \in Entries
    BY <1>1 DEF AtFinal, Entries
<1>3. QED BY <1>1, <1>2 DEF AtFinal, Entries

LEMMA LaggingTyped ==
    ASSUME CandidateInv, entry.lag < MaxIndexingLagRetries
    PROVE  LET e == [entry EXCEPT !.lag = @ + 1, !.price = item.price,
                                  !.liquidity = item.liquidity]
           IN  /\ e \in Entries /\ e.stage = entry.stage /\ e.base = entry.base
               /\ e.liquidity = item.liquidity /\ e.lag = entry.lag + 1
               /\ e.attempts = entry.attempts
<1>1. item.price \in Nat /\ item.liquidity \in Nat /\ entry \in Entries
    BY FieldsTyped
<1>2. entry.lag + 1 \in 0..MaxIndexingLagRetries
    BY FieldsTyped DEF Entries
<1>3. [entry EXCEPT !.lag = @ + 1, !.price = item.price, !.liquidity = item.liquidity] \in Entries
    BY <1>1, <1>2 DEF Entries
<1>4. QED BY <1>1, <1>3 DEF Entries

LEMMA RejectKeeps ==
    ASSUME CandidateInv, NEW reasons, NEW again, Reject(reasons, again), verdict = "open",
           entry.attempts < MaxRecheckAttempts, UNCHANGED <<case, at, age, snapshot, cooling>>
    PROVE  CandidateInv'
<1>1. CASE Lasting(reasons, again) # {}
    BY <1>1, TrackKeeps DEF Reject
<1>2. CASE Lasting(reasons, again) = {}
    <2>1. Schedule(Waitlisted(reasons)) /\ UNCHANGED <<sampling, prefetching, window>>
        BY <1>2 DEF Reject
    <2>2. /\ Waitlisted(reasons) \in Entries
          /\ Waitlisted(reasons).stage = "waitlist" /\ Waitlisted(reasons).lag = 0
        BY WaitlistedTyped
    <2>3. QED
        BY <2>1, <2>2, ScheduleKeeps DEF CandidateInv, ValuesTyped, TypeOK
<1>3. QED BY <1>1, <1>2

\* What the gates of every audit have shown when none fired.
LEMMA LightPassed ==
    ASSUME ValuesTyped, LightReasons = {}
    PROVE  /\ item.price > 0 /\ item.liquidity >= MinLiquidity /\ ~Drained
           /\ entry.base > 0 => item.price >= entry.base
           /\ token.flags = {}
<1>1. Momentum = {} /\ Appearance = {} /\ token.flags = {}
    BY DEF LightReasons
<1>2. ~(entry.base > 0 /\ item.price < entry.base)
    BY <1>1 DEF Momentum, Fired
<1>3. ~Drained /\ item.price # 0 /\ ~(item.liquidity < MinLiquidity)
    BY <1>1 DEF Appearance, Fired
<1>4. QED
    BY <1>1, <1>2, <1>3, Numbers DEF ValuesTyped, Markets, Entries

\* Outside of burst mode the pool is compared with the recheck's last look.
LEMMA LookKept ==
    ASSUME ValuesTyped, ~Drained, ~config.burst
    PROVE  entry.liquidity = 0 \/ entry.liquidity - item.liquidity <= Drawdown
BY Numbers DEF Drained, StartLiquidity, Sampled, ValuesTyped, Entries, Markets

LEMMA LightKeeps ==
    ASSUME CandidateInv, AuditLight, UNCHANGED <<case, at, age, snapshot, cooling>>
    PROVE  CandidateInv'
<1>1. verdict = "open" /\ entry.attempts < MaxRecheckAttempts
    BY Numbers DEF AuditLight, SpentCodes, Fired, CandidateInv, ValuesTyped, TypeOK, Entries
<1>2. CASE \E reasons : Reject(reasons, Recheckable)
    BY <1>1, <1>2, RejectKeeps
<1>3. CASE Track("rejected", {"burst-filter"})
    BY <1>3, TrackKeeps
<1>4. CASE LightReasons = {} /\ entry.stage = "survival" /\ BeginFinal
    <2>1. Schedule(AtFinal) /\ UNCHANGED <<sampling, prefetching, window>>
        BY <1>4 DEF BeginFinal
    <2>2. /\ AtFinal \in Entries /\ AtFinal.stage = "final" /\ AtFinal.lag = 0
          /\ AtFinal.base = entry.base /\ AtFinal.liquidity = item.liquidity
        BY AtFinalTyped
    <2>3. ~config.burst => window.liquidity - item.liquidity <= (1 + 0) * Drawdown
        BY <1>4, LightPassed, LookKept, Numbers
           DEF CandidateInv, ValuesTyped, LooksBounded, Markets, Entries
    <2>4. entry.base = window.price /\ window.price > 0
        BY <1>4 DEF CandidateInv, ValuesTyped, TypeOK
    <2>5. QED
        BY <1>1, <2>1, <2>2, <2>3, <2>4, ScheduleKeeps DEF CandidateInv, ValuesTyped, TypeOK
<1>5. CASE LightReasons = {} /\ entry.stage # "survival" /\ BeginSurvival
    <2> DEFINE e == [NoEntry EXCEPT !.stage = "survival", !.price = item.price,
                                      !.liquidity = item.liquidity, !.base = item.price,
                                      !.attempts = entry.attempts]
    <2>1. /\ Schedule(e) /\ window' = item
          /\ prefetching' = (prefetching \/ config.burst)
          /\ sampling' = IF config.burst THEN MaxSamples ELSE sampling
        BY <1>5 DEF BeginSurvival
    <2>2. /\ e \in Entries /\ e.stage = "survival" /\ e.lag = 0
          /\ e.base = item.price /\ e.liquidity = item.liquidity
        BY SurvivalTyped
    <2>3. item.price > 0
        BY <1>5, LightPassed DEF CandidateInv
    <2>4. sampling' \in 0..MaxSamples /\ prefetching' \in BOOLEAN /\ window' \in Markets
        BY <2>1, Numbers DEF CandidateInv, ValuesTyped, TypeOK
    <2> HIDE DEF e
    <2>5. QED
        BY <1>1, <2>1, <2>2, <2>3, <2>4, ScheduleKeeps
<1>6. QED
    BY <1>2, <1>3, <1>4, <1>5 DEF AuditLight, Approved

\* Whatever the market of all mints is like, the gate is at least the lowest.
LEMMA GateAtLeastLowest ==
    ASSUME ValuesTyped, NEW gmi \in {"dead", "normal", "hot"}, NEW starved \in 0..2
    PROVE  /\ EffectiveMinScore(gmi, starved) \in Int
           /\ EffectiveMinScore(gmi, starved) >= LowestMinScore
<1>1. MinScore \in Nat /\ ScoreFloor \in Nat
    BY Numbers
<1>2. (MinScore - ScoreFloor) \div 2 \in Int
    BY <1>1
<1>3. /\ AdaptiveMinScore(gmi, starved) \in Int
      /\ AdaptiveMinScore(gmi, starved) >= ScoreFloor
    BY <1>1, <1>2 DEF AdaptiveMinScore, Points
<1>4. QED
    BY <1>1, <1>3 DEF EffectiveMinScore, LowestMinScore, Points

\* The last look is one more than those before it.
LEMMA LastLook ==
    ASSUME CandidateInv, entry.stage = "final", LightReasons = {}
    PROVE  /\ item.price >= window.price /\ item.liquidity >= MinLiquidity
           /\ ~config.burst =>
                 window.liquidity - item.liquidity <= (2 + entry.lag) * Drawdown
<1>1. /\ entry.lag \in Nat /\ entry.liquidity \in Nat /\ entry.base \in Nat
      /\ item.liquidity \in Nat /\ window.liquidity \in Nat /\ Drawdown \in Nat
    BY FieldsTyped, Numbers DEF Entries, CandidateInv, ValuesTyped, Markets
<1>2. entry.base = window.price /\ window.price > 0
    BY DEF CandidateInv, ValuesTyped, TypeOK
<1>3. item.price >= window.price /\ item.liquidity >= MinLiquidity /\ ~Drained
    BY <1>2, LightPassed DEF CandidateInv
<1>4. ASSUME ~config.burst
      PROVE  window.liquidity - item.liquidity <= (2 + entry.lag) * Drawdown
    <2>1. entry.liquidity = 0 \/ entry.liquidity - item.liquidity <= Drawdown
        BY <1>3, <1>4, LookKept DEF CandidateInv
    <2>2. window.liquidity - entry.liquidity <= (1 + entry.lag) * Drawdown
        BY <1>4 DEF CandidateInv, LooksBounded
    <2>3. /\ (1 + entry.lag) * Drawdown \in Nat
          /\ (2 + entry.lag) * Drawdown = (1 + entry.lag) * Drawdown + Drawdown
        BY <1>1, OneMoreLook
    <2> DEFINE b == (1 + entry.lag) * Drawdown
    <2> HIDE DEF b
    <2>4. window.liquidity - item.liquidity <= b + Drawdown
        BY <1>1, <2>1, <2>2, <2>3 DEF b
    <2>5. QED BY <2>3, <2>4 DEF b
<1>5. QED BY <1>3, <1>4

\* The mint goes on in the scan without being touched.
LEMMA GoesOnTyped ==
    ASSUME ValuesTyped, scan # "idle", scan' \in {"deep", "buying"}, signals' \in Lookups,
           UNCHANGED <<case, at, age, snapshot, cooling, entry, due, samples, sampling,
                       prefetched, prefetching, item, verdict, window>>
    PROVE  ValuesTyped' /\ verdict = "open"
<1>1. verdict = "open"
    BY DEF ValuesTyped, TypeOK
<1>2. TypeOK'
    BY <1>1 DEF ValuesTyped, TypeOK
<1>3. QED
    BY <1>1, <1>2, CandidacyAssumption DEF ValuesTyped, Markets, Settings, Entries

LEMMA FinalKeeps ==
    ASSUME CandidateInv, AuditFinal, UNCHANGED <<case, at, age, snapshot, cooling>>
    PROVE  CandidateInv'
<1>1. verdict = "open" /\ entry.attempts < MaxRecheckAttempts
    BY Numbers DEF AuditFinal, SpentCodes, Fired, CandidateInv, ValuesTyped, TypeOK, Entries
<1>2. PICK gmi \in {"dead", "normal", "hot"}, starved \in 0..2 :
         LET min == EffectiveMinScore(gmi, starved) IN
         IF FinalReasons(min) # {}
         THEN Reject(FinalReasons(min), Recheckable \cup ScoreRecheckable(min))
         ELSE /\ scan' = "deep"
              /\ UNCHANGED <<entry, due, backVars, item, signals, endVars>>
    BY DEF AuditFinal
<1> DEFINE min == EffectiveMinScore(gmi, starved)
<1>3. CASE Reject(FinalReasons(min), Recheckable \cup ScoreRecheckable(min))
    BY <1>1, <1>3, RejectKeeps
<1>4. CASE FinalReasons(min) = {} /\ scan' = "deep"
           /\ UNCHANGED <<entry, due, backVars, item, signals, endVars>>
    <2>1. UNCHANGED <<entry, due, samples, sampling, prefetched, prefetching, item, signals,
                      verdict, window>>
        BY <1>4 DEF backVars, endVars
    <2>2. LightReasons = {} /\ SoftReasons(min) = {}
        BY <1>4 DEF FinalReasons
    <2>3. token.flags = {} /\ token.soft = {} /\ ~(Score < min)
        BY <2>2, LightPassed DEF SoftReasons, Fired, CandidateInv
    <2>4. min \in Int /\ min >= LowestMinScore
        BY <1>2, GateAtLeastLowest DEF CandidateInv
    <2>5. LowestMinScore \in Int
        BY Numbers DEF CandidateInv, LowestMinScore
    <2>6. Score >= LowestMinScore
        BY <2>3, <2>4, <2>5, ScoreIsInt
    <2>7. entry.stage = "final"
        BY DEF AuditFinal
    <2>8. ValuesTyped'
        BY <1>4, <2>1, GoesOnTyped DEF AuditFinal, CandidateInv, ValuesTyped, TypeOK
    <2>9. LooksBounded'
        BY <2>1 DEF CandidateInv, LooksBounded, config
    <2>10. Score' = Score /\ LowestMinScore' = LowestMinScore
        BY <2>1 DEF Score, Points, token, LowestMinScore, config
    <2>11. AuditPassed'
        BY <1>1, <2>1, <2>2, <2>3, <2>6, <2>7, <2>10, LastLook DEF AuditPassed, token, config
    <2>12. BuysEarned'
        BY <1>4 DEF BuysEarned
    <2>13. QED BY <2>8, <2>9, <2>11, <2>12 DEF CandidateInv
<1>5. QED BY <1>2, <1>3, <1>4

\* What the deep audit has shown when it found nothing.
LEMMA DeepPassed ==
    ASSUME NEW s, NEW rug, NEW maps, NEW wallets, DeepReasons(s, rug, maps, wallets) = {}
    PROVE  /\ "authority" \notin token.chain
           /\ token.launchpad = "pump.fun" => token.suffix
           /\ s.holders => "concentration" \notin token.chain
BY DEF DeepReasons, Fired

\* A burst buy rose since the wait began.
LEMMA BurstPassed ==
    ASSUME CandidateInv, entry.stage = "final", config.burst,
           NEW choppy \in BOOLEAN, ~BurstBlocks(choppy)
    PROVE  item.price > window.price /\ token.pressure
<1>1. entry.base = window.price /\ entry.base > 0
    BY DEF CandidateInv, ValuesTyped, TypeOK
<1>2. ~(item.price <= entry.base) /\ token.pressure
    BY <1>1 DEF BurstBlocks
<1>3. QED
    BY <1>1, <1>2, FieldsTyped DEF Entries

LEMMA DeepKeeps ==
    ASSUME CandidateInv, DeepAnswered
    PROVE  CandidateInv'
<1>1. /\ scan = "deep" /\ UNCHANGED <<case, at, age, snapshot, cooling>>
      /\ entry.stage = "final" /\ entry.attempts < MaxRecheckAttempts /\ verdict = "open"
    BY DEF DeepAnswered, worldVars, CandidateInv, AuditPassed, ValuesTyped, TypeOK
<1>2. PICK s \in Lookups, rug \in RugReads, maps \in MapsReads, wallets \in WalletReads,
           cooldown \in BOOLEAN : DeepAudit(s, rug, maps, wallets, cooldown)
    <2>1. MintReads \subseteq Lookups /\ signals \in Lookups
        BY DEF MintReads, BatchReads, CandidateInv, ValuesTyped, TypeOK
    <2>2. QED BY <2>1 DEF DeepAnswered
<1>3. CASE \E codes : Track("rejected", codes)
    BY <1>1, <1>3, TrackKeeps
<1>4. CASE \E blocked : Reject(MlGate(blocked), Recheckable)
    BY <1>1, <1>4, RejectKeeps
<1>5. ASSUME NEW choppy \in BOOLEAN, DeepReasons(s, rug, maps, wallets) = {},
             ~BurstBlocks(choppy), scan' = "buying", signals' = s,
             UNCHANGED <<entry, due, backVars, item, endVars>>
      PROVE  CandidateInv'
    <2>1. UNCHANGED <<entry, due, samples, sampling, prefetched, prefetching, item, verdict,
                      window>>
        BY <1>5 DEF backVars, endVars
    <2>2. ValuesTyped'
        BY <1>1, <1>2, <1>5, <2>1, GoesOnTyped DEF CandidateInv
    <2>3. LooksBounded'
        BY <1>1, <2>1 DEF CandidateInv, LooksBounded, config
    <2>4. Score' = Score /\ LowestMinScore' = LowestMinScore
        BY <1>1, <2>1 DEF Score, Points, token, LowestMinScore, config
    <2>5. AuditPassed'
        BY <1>1, <2>1, <2>4 DEF CandidateInv, AuditPassed, token, config
    <2>6. /\ "authority" \notin token.chain
          /\ token.launchpad = "pump.fun" => token.suffix
          /\ s.holders => "concentration" \notin token.chain
        BY <1>5, DeepPassed
    <2>7. config.burst => item.price > window.price /\ token.pressure
        BY <1>1, <1>5, BurstPassed
    <2>8. AuditPassed
        BY DEF CandidateInv
    <2>9. BuysEarned'
        BY <1>1, <1>5, <2>1, <2>4, <2>6, <2>7, <2>8 DEF AuditPassed, BuysEarned, token, config
    <2>10. QED BY <2>2, <2>3, <2>5, <2>9 DEF CandidateInv
<1>6. QED
    <2>1. \/ \E codes : Track("rejected", codes)
          \/ /\ DeepReasons(s, rug, maps, wallets) = {}
             /\ \E blocked, choppy \in BOOLEAN :
                   Approved(blocked, choppy,
                        /\ scan' = "buying" /\ signals' = s
                        /\ UNCHANGED <<entry, due, backVars, item, endVars>>)
        BY <1>2 DEF DeepAudit
    <2>2. QED BY <1>3, <1>4, <1>5, <2>1 DEF Approved

LEMMA LagKeeps ==
    ASSUME CandidateInv, IndexingLag
    PROVE  CandidateInv'
<1>1. /\ scan = "deep" /\ UNCHANGED <<case, at, age, snapshot, cooling>>
      /\ entry.stage = "final" /\ verdict = "open"
    BY DEF IndexingLag, worldVars, CandidateInv, AuditPassed, ValuesTyped, TypeOK
<1> DEFINE e == [entry EXCEPT !.lag = @ + 1, !.price = item.price, !.liquidity = item.liquidity]
<1>2. CASE Track("rejected", {"indexing-lag"})
    BY <1>1, <1>2, TrackKeeps
<1>3. CASE entry.lag < MaxIndexingLagRetries /\ Schedule(e)
           /\ UNCHANGED <<sampling, prefetching, window>>
    <2>1. /\ e \in Entries /\ e.stage = "final" /\ e.base = entry.base
          /\ e.liquidity = item.liquidity /\ e.lag = entry.lag + 1
        BY <1>1, <1>3, LaggingTyped
    <2>2. (1 + (entry.lag + 1)) * Drawdown = (2 + entry.lag) * Drawdown
        BY OneMoreLook, FieldsTyped, Numbers DEF Entries, CandidateInv
    <2>3. ~config.burst => window.liquidity - e.liquidity <= (1 + e.lag) * Drawdown
        BY <1>1, <2>1, <2>2 DEF CandidateInv, AuditPassed
    <2>4. entry.base = window.price /\ window.price > 0
        BY <1>1 DEF CandidateInv, ValuesTyped, TypeOK
    <2> HIDE DEF e
    <2>5. QED
        BY <1>1, <1>3, <2>1, <2>3, <2>4, ScheduleKeeps DEF CandidateInv, ValuesTyped, TypeOK
<1>4. QED BY <1>2, <1>3 DEF IndexingLag

LEMMA EndsKeep ==
    ASSUME CandidateInv, Fails \/ Buy \/ LeaveOut
    PROVE  CandidateInv'
<1>1. UNCHANGED <<case, at, age, snapshot, cooling>>
    BY DEF Fails, Buy, LeaveOut, worldVars
<1>2. \/ LeaveAsIs \/ \E codes : Track("rejected", codes)
      \/ \E codes : Track("bought", codes)
    BY DEF Fails, Buy, LeaveOut, AtLimit, Drop
<1>3. QED BY <1>1, <1>2, LeaveKeeps, TrackKeeps

LEMMA CandidacyStarts ==
    ASSUME Init
    PROVE  CandidateInv
<1>1. case \in Cases /\ case.course \in Seq(Markets) /\ case.course # <<>>
    BY CandidacyAssumption DEF Init
<1>2. 1 \in DOMAIN case.course
    BY <1>1
<1>3. {MaxRecheckAttempts, MaxIndexingLagRetries, MaxSamples} \subseteq Nat
    BY CandidacyAssumption
<1>4. NoEntry \in Entries
    BY <1>3 DEF NoEntry, Entries
<1>5. TypeOK
    <2>1. 0 \in 0..MaxRecheckAttempts /\ 0 \in 0..MaxIndexingLagRetries /\ 0 \in 0..MaxSamples
        BY <1>3
    <2>2. /\ NoEntry.stage = "none" /\ NoEntry.attempts = 0 /\ NoEntry.lag = 0
          /\ NoSamples.count = 0 /\ NoLookup \in Lookups
        BY DEF NoEntry, NoSamples, NoLookup, Lookups
    <2>3. QED BY <1>1, <1>2, <2>1, <2>2 DEF Init, TypeOK
<1>6. ValuesTyped
    BY <1>4, <1>5 DEF Init, ValuesTyped, Unread, NoSnapshot, Markets
<1>7. QED
    BY <1>6 DEF CandidateInv, Init, LooksBounded, AuditPassed, BuysEarned, NoEntry

LEMMA CandidacyKeeps ==
    ASSUME CandidateInv, [Next]_vars
    PROVE  CandidateInv'
<1>1. CASE UNCHANGED vars
    <2>1. /\ UNCHANGED <<case, at, age, snapshot, cooling, entry, due, samples, sampling,
                         prefetched, prefetching, scan, item, signals, verdict, window>>
        BY <1>1 DEF vars, worldVars, backVars, scanVars, endVars
    <2>2. QED
        BY <2>1, EarlyKeeps DEF CandidateInv, ValuesTyped, TypeOK
<1>2. CASE Next
    <2>1. CASE World \/ TimerFires \/ Background
        BY <2>1, WorldKeeps
    <2>2. CASE Offer \/ TakeDue \/ TakeSignals
        BY <2>2, OfferKeeps
    <2>3. CASE Priced \/ RateLimited
        BY <2>3, PricesKeep
    <2>4. CASE Audit
        BY <2>4, LightKeeps, FinalKeeps DEF Audit, worldVars
    <2>5. CASE DeepAnswered
        BY <2>5, DeepKeeps
    <2>6. CASE IndexingLag
        BY <2>6, LagKeeps
    <2>7. CASE Fails \/ Buy \/ LeaveOut
        BY <2>7, EndsKeep
    <2>8. QED
        BY <1>2, <2>1, <2>2, <2>3, <2>4, <2>5, <2>6, <2>7 DEF Next, Answers
<1>3. QED BY <1>1, <1>2

\* Whatever the mint, the settings and the course of its market, what is bought
\* earned it over all its rechecks (evaluateCandidate, scanForCandidates).
THEOREM CandidacyIsSound == Spec => []CandidacySound
<1>1. Init => CandidateInv
    BY CandidacyStarts
<1>2. CandidateInv /\ [Next]_vars => CandidateInv'
    BY CandidacyKeeps
<1>3. CandidateInv => CandidacySound
    BY DEF CandidateInv, ValuesTyped, CandidacySound
<1>4. QED BY <1>1, <1>2, <1>3, PTL DEF Spec

-----------------------------------------------------------------------------
(* The way of a mint.                                                      *)

LEMMA StaysOnWay ==
    ASSUME UNCHANGED <<case, age, entry, verdict>>
    PROVE  UNCHANGED Way!vars
BY DEF Way!vars, Dated, token

LEMMA AgesOnWay ==
    ASSUME World
    PROVE  [Way!Next]_(Way!vars)
<1>1. UNCHANGED <<case, entry, verdict>>
    BY DEF World, MarketMoves, Ages, endVars
<1>2. CASE UNCHANGED age
    BY <1>1, <1>2, StaysOnWay
<1>3. CASE Ages
    <2>1. age' # "young"
        BY <1>3 DEF Ages
    <2>2. Way!Grow
        BY <1>1, <2>1 DEF Way!Grow
    <2>3. QED BY <2>2 DEF Way!Next
<1>4. QED BY <1>2, <1>3 DEF World, MarketMoves

LEMMA ForgottenOnWay ==
    ASSUME UNCHANGED <<case, age>>, NEW v, NEW codes, Track(v, codes)
    PROVE  Way!Forgotten /\ verdict' = v
<1>1. verdict' = v /\ entry' = NoEntry
    BY DEF Track
<1>2. QED
    BY <1>1 DEF NoEntry, Way!Forgotten, Dated, token

LEMMA DroppedOnWay ==
    ASSUME verdict = "open", UNCHANGED <<case, age>>, NEW codes, Track("rejected", codes)
    PROVE  Way!Next
BY ForgottenOnWay DEF Way!Drop, Way!Next

LEMMA RejectedOnWay ==
    ASSUME CandidateInv, Way!Running, UNCHANGED <<case, age>>, NEW reasons, NEW again,
           Reject(reasons, again),
           reasons = {"too-new"} => Dated /\ age = "young"
    PROVE  Way!Next
<1>1. verdict = "open" /\ entry.attempts < MaxRecheckAttempts
    BY DEF Way!Running
<1>2. CASE Lasting(reasons, again) # {}
    BY <1>1, <1>2, DroppedOnWay DEF Reject
<1>3. CASE Lasting(reasons, again) = {}
    <2>1. entry' = Waitlisted(reasons) /\ UNCHANGED verdict
        BY <1>3 DEF Reject, Schedule
    <2>2. /\ entry'.stage = "waitlist" /\ entry'.lag = 0
          /\ \/ entry'.attempts = entry.attempts + 1
             \/ entry'.attempts = entry.attempts /\ Dated /\ age = "young"
        BY <1>1, <2>1, WaitlistedTyped
    <2>3. Way!PutOff
        BY <2>1, <2>2 DEF Way!PutOff, Dated, token
    <2>4. QED BY <2>3 DEF Way!Next
<1>4. QED BY <1>2, <1>3

\* No gate but the age's says that a mint is too new.
LEMMA TooNewIsYoung ==
    ASSUME ValuesTyped, "too-new" \in LightReasons
    PROVE  Dated /\ age = "young"
<1>1. "too-new" \notin token.flags /\ "too-new" \notin Momentum
    BY Numbers DEF Momentum, Fired
<1>2. "too-new" \in Appearance
    BY <1>1 DEF LightReasons
<1>3. QED BY <1>2 DEF Appearance, Fired

LEMMA LightOnWay ==
    ASSUME CandidateInv, AuditLight, UNCHANGED <<case, at, age, snapshot, cooling>>
    PROVE  Way!Next
<1>1. Way!Running
    BY Numbers
       DEF AuditLight, SpentCodes, Fired, CandidateInv, ValuesTyped, TypeOK, Entries,
           Way!Running
<1>2. CASE Reject(LightReasons, Recheckable)
    <2>1. LightReasons = {"too-new"} => Dated /\ age = "young"
        BY TooNewIsYoung DEF CandidateInv
    <2>2. QED BY <1>1, <1>2, <2>1, RejectedOnWay
<1>3. ASSUME NEW blocked \in BOOLEAN, MlGate(blocked) # {},
             Reject(MlGate(blocked), Recheckable)
      PROVE  Way!Next
    <2>1. "too-new" \notin MlGate(blocked)
        BY DEF MlGate, Fired
    <2>2. QED BY <1>1, <1>3, <2>1, RejectedOnWay
<1>4. CASE Track("rejected", {"burst-filter"})
    BY <1>1, <1>4, DroppedOnWay DEF Way!Running
<1>5. CASE entry.stage = "survival" /\ BeginFinal
    <2>1. entry' = AtFinal /\ UNCHANGED verdict
        BY <1>5 DEF BeginFinal, Schedule
    <2>2. entry'.stage = "final" /\ entry'.lag = 0 /\ entry'.attempts = entry.attempts
        BY <2>1, AtFinalTyped
    <2>3. entry.lag = 0
        BY <1>5 DEF CandidateInv, LooksBounded
    <2>4. Way!Confirm
        BY <1>1, <1>5, <2>1, <2>2, <2>3 DEF Way!Confirm, Dated, token
    <2>5. QED BY <2>4 DEF Way!Next
<1>6. CASE entry.stage # "survival" /\ BeginSurvival
    <2>1. /\ entry' = [NoEntry EXCEPT !.stage = "survival", !.price = item.price,
                                        !.liquidity = item.liquidity, !.base = item.price,
                                        !.attempts = entry.attempts]
          /\ UNCHANGED verdict
        BY <1>6 DEF BeginSurvival, Schedule
    <2>2. entry'.stage = "survival" /\ entry'.lag = 0 /\ entry'.attempts = entry.attempts
        BY <2>1, SurvivalTyped
    <2>3. entry.stage \in {"none", "waitlist"} /\ entry.lag = 0
        BY <1>6 DEF AuditLight, CandidateInv, LooksBounded, ValuesTyped, TypeOK
    <2>4. Way!Survive
        BY <1>1, <2>1, <2>2, <2>3 DEF Way!Survive, Dated, token
    <2>5. QED BY <2>4 DEF Way!Next
<1>7. QED
    BY <1>2, <1>3, <1>4, <1>5, <1>6 DEF AuditLight, Approved

LEMMA FinalOnWay ==
    ASSUME CandidateInv, AuditFinal, UNCHANGED <<case, at, age, snapshot, cooling>>
    PROVE  [Way!Next]_(Way!vars)
<1>1. Way!Running
    BY Numbers
       DEF AuditFinal, SpentCodes, Fired, CandidateInv, ValuesTyped, TypeOK, Entries,
           Way!Running
<1>2. PICK min : \/ Reject(FinalReasons(min), Recheckable \cup ScoreRecheckable(min))
                 \/ UNCHANGED <<entry, verdict>>
    BY DEF AuditFinal, endVars
<1>3. CASE Reject(FinalReasons(min), Recheckable \cup ScoreRecheckable(min))
    <2>1. "too-new" \notin SoftReasons(min)
        BY Numbers DEF SoftReasons, Fired, CandidateInv
    <2>2. FinalReasons(min) = {"too-new"} => Dated /\ age = "young"
        BY <2>1, TooNewIsYoung DEF FinalReasons, CandidateInv
    <2>3. QED BY <1>1, <1>3, <2>2, RejectedOnWay
<1>4. CASE UNCHANGED <<entry, verdict>>
    BY <1>4, StaysOnWay
<1>5. QED BY <1>2, <1>3, <1>4

LEMMA DeepOnWay ==
    ASSUME CandidateInv, DeepAnswered \/ IndexingLag
    PROVE  [Way!Next]_(Way!vars)
<1>1. /\ UNCHANGED <<case, age>> /\ verdict = "open"
      /\ entry.stage = "final" /\ entry.attempts < MaxRecheckAttempts
    BY DEF DeepAnswered, IndexingLag, worldVars, CandidateInv, AuditPassed, ValuesTyped,
           TypeOK
<1>2. Way!Running
    BY <1>1 DEF Way!Running
<1>3. CASE \E codes : Track("rejected", codes)
    BY <1>1, <1>3, DroppedOnWay
<1>4. CASE DeepAnswered
    <2>1. \/ \E codes : Track("rejected", codes)
          \/ \E blocked \in BOOLEAN : MlGate(blocked) # {}
                                     /\ Reject(MlGate(blocked), Recheckable)
          \/ UNCHANGED <<entry, verdict>>
        BY <1>4 DEF DeepAnswered, DeepAudit, Approved, endVars
    <2>2. ASSUME NEW blocked \in BOOLEAN, MlGate(blocked) # {},
                 Reject(MlGate(blocked), Recheckable)
          PROVE  Way!Next
        <3>1. "too-new" \notin MlGate(blocked)
            BY DEF MlGate, Fired
        <3>2. QED BY <1>1, <1>2, <2>2, <3>1, RejectedOnWay
    <2>3. CASE UNCHANGED <<entry, verdict>>
        BY <1>1, <2>3, StaysOnWay
    <2>4. QED BY <1>3, <2>1, <2>2, <2>3
<1>5. CASE IndexingLag
    <2> DEFINE e == [entry EXCEPT !.lag = @ + 1, !.price = item.price, !.liquidity = item.liquidity]
    <2>1. CASE entry.lag < MaxIndexingLagRetries /\ Schedule(e)
        <3>1. entry' = e /\ UNCHANGED verdict
            BY <2>1 DEF Schedule
        <3>2. /\ e.stage = entry.stage /\ e.lag = entry.lag + 1
              /\ e.attempts = entry.attempts
            BY <2>1, LaggingTyped
        <3> HIDE DEF e
        <3>3. Way!RepeatFinal
            BY <1>1, <1>2, <2>1, <3>1, <3>2 DEF Way!RepeatFinal, Dated, token
        <3>4. QED BY <3>3 DEF Way!Next
    <2>2. QED BY <1>3, <1>5, <2>1 DEF IndexingLag
<1>6. QED BY <1>4, <1>5

LEMMA EndsOnWay ==
    ASSUME CandidateInv, Fails \/ Buy \/ LeaveOut
    PROVE  [Way!Next]_(Way!vars)
<1>1. UNCHANGED <<case, age>> /\ verdict = "open"
    BY DEF Fails, Buy, LeaveOut, AtLimit, Drop, worldVars, CandidateInv, ValuesTyped,
           TypeOK
<1>2. CASE LeaveAsIs
    BY <1>1, <1>2, StaysOnWay DEF LeaveAsIs, endVars
<1>3. CASE \E codes : Track("rejected", codes)
    BY <1>1, <1>3, DroppedOnWay
<1>4. CASE Buy
    <2>1. Way!Running /\ entry.stage = "final"
        BY <1>1, <1>4 DEF Buy, CandidateInv, AuditPassed, Way!Running
    <2>2. QED BY <1>1, <1>4, <2>1, ForgottenOnWay DEF Buy, Way!Buy, Way!Next
<1>5. QED
    BY <1>2, <1>3, <1>4 DEF Fails, LeaveOut, AtLimit, Drop

LEMMA StepsOnWay ==
    ASSUME CandidateInv, [Next]_vars
    PROVE  [Way!Next]_(Way!vars)
<1>1. CASE UNCHANGED vars
    BY <1>1, StaysOnWay DEF vars, worldVars, endVars
<1>2. CASE Next
    <2>1. CASE World
        BY <2>1, AgesOnWay
    <2>2. CASE TimerFires \/ Background \/ Offer \/ TakeDue \/ TakeSignals
               \/ Priced \/ RateLimited
        <3>1. UNCHANGED <<case, age, entry, verdict>>
            BY <2>2
               DEF TimerFires, Background, CooldownEnds, PrefetchReturns, SampleReturns,
                   Offer, TakeDue, TakeSignals, Priced, RateLimited, worldVars, endVars
        <3>2. QED BY <3>1, StaysOnWay
    <2>3. CASE Audit
        BY <2>3, LightOnWay, FinalOnWay DEF Audit, worldVars
    <2>4. CASE DeepAnswered \/ IndexingLag
        BY <2>4, DeepOnWay
    <2>5. CASE Fails \/ Buy \/ LeaveOut
        BY <2>5, EndsOnWay
    <2>6. QED
        BY <1>2, <2>1, <2>2, <2>3, <2>4, <2>5 DEF Next, Answers
<1>3. QED BY <1>1, <1>2

\* Candidacy implements TwoWaits: no lookup that fails, comes late or is
\* repeated takes a mint off its way (processItem, scheduleSurvivalDelay,
\* scheduleFinalAudit, scheduleIndexingLagRetry).
THEOREM CandidacyKeepsTheWay == Spec => WaysKept
<1>1. Init => CandidateInv
    BY CandidacyStarts
<1>2. CandidateInv /\ [Next]_vars => CandidateInv'
    BY CandidacyKeeps
<1>3. Init => Way!Init
    BY DEF Init, Way!Init, NoEntry, Dated
<1>4. CandidateInv /\ [Next]_vars => [Way!Next]_(Way!vars)
    BY StepsOnWay
<1>5. QED BY <1>1, <1>2, <1>3, <1>4, PTL DEF Spec, WaysKept, Way!Spec

=============================================================================
