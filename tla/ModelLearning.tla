---------------------------- MODULE ModelLearning ----------------------------
(***************************************************************************)
(* What ml-service.ts decides from the outcomes of trades: the gate with   *)
(* its block-rate breaker, and the tuners of the exit and entry parameters *)
(* (param-optimizer.ts, rl-exit-optimizer.ts).  Scores, gradients and      *)
(* replays are what the market makes them: any outcome may come of them.   *)
(***************************************************************************)
EXTENDS Integers, Sequences, FiniteSets, SequencesExt

CONSTANTS
    Window,                          \* CIRCUIT_BREAKER_WINDOW
    SampleWindow,                    \* the rows a cycle reads: getTrainingSamples(500)
    MinSamples, MinGhosts, MinTrades, MinRl, MinTuner,  \* what each of them needs to run
    MinReal, LookBack,               \* mlGateMinRealTrades; the trades read per real one
    Bases, BaseScore,                \* configured takeProfitMultiples and minCandidateScore
    Low, High, Gap,                  \* bounds of the first two rungs; how far apart they are put
    ScoreLow, ScoreHigh,             \* bounds of the score
    DefaultRung,                     \* what extractCurrentParams reads for a second rung not there
    MaxPosted                        \* bound: outcomes on their way to the tables

\* Both bounds of the second rung are above those of the first (PARAM_SPECS).
\* Nothing is asked of what the user configured but one rung (config.ts:704-710).
LearningAssumption ==
    /\ {Window, SampleWindow, MinSamples, MinReal, LookBack, MaxPosted} \subseteq Nat
    /\ {BaseScore, ScoreLow, ScoreHigh, DefaultRung} \subseteq Int /\ ScoreLow <= ScoreHigh
    /\ {Low, High} \subseteq Int \X Int /\ Gap \in Nat \ {0}
    /\ Low[1] <= High[1] /\ Low[2] <= High[2]
    /\ Low[1] + Gap <= Low[2] /\ High[1] + Gap <= High[2]
    /\ \A l \in Bases : l \in Seq(Int) /\ Len(l) >= 1

VARIABLES
    native,                          \* the Rust addon loaded: it trains, and runs the RL policy
    trades,                          \* the recent closed trades, oldest first: is it a real one
    realEver,                        \* real ones ever written, up to MinReal
    samples,                         \* training samples, up to SampleWindow
    posted,                          \* outcomes the persistence worker has yet to write: likewise
    trained,                         \* some model is
    window, active,                  \* CircuitBreaker
    gating, refused,                 \* gatingActive; the last score refused its candidate
    base,                            \* the ladder of the configuration
    ladder, minScore                 \* config.takeProfitMultiples, config.minCandidateScore

tables == <<trades, realEver, samples, posted>>
breaker == <<window, active>>
config == <<ladder, minScore>>
vars == <<native, tables, trained, breaker, gating, refused, base, config>>

TypeOK ==
    /\ native \in BOOLEAN /\ trained \in BOOLEAN
    /\ trades \in Seq(BOOLEAN) /\ Len(trades) <= LookBack * MinReal
    /\ realEver \in 0..MinReal /\ samples \in 0..SampleWindow
    /\ posted \in Seq(BOOLEAN) /\ Len(posted) <= MaxPosted
    /\ window \in Seq(BOOLEAN) /\ Len(window) <= Window /\ active \in BOOLEAN
    /\ gating \in BOOLEAN /\ refused \in BOOLEAN
    /\ base \in Bases /\ ladder \in Seq(Int) /\ Len(ladder) >= 1
    /\ minScore \in {BaseScore} \cup ScoreLow..ScoreHigh

Init ==
    /\ native \in BOOLEAN /\ trained \in BOOLEAN
    /\ trades = <<>> /\ realEver = 0 /\ posted = <<>> /\ samples = 0
    /\ window = <<>> /\ active = FALSE
    /\ gating = FALSE /\ refused = FALSE
    /\ base \in Bases /\ ladder = base /\ minScore = BaseScore

-----------------------------------------------------------------------------
(* The gate: EnsembleModel.predict under MlService.getScore.               *)

\* record: trips above two fifths, resets below one, and in between stays.
Blocks(w) == Cardinality({i \in DOMAIN w : w[i]})
Trips(w) ==
    IF Len(w) < Window THEN FALSE
    ELSE IF 10 * Blocks(w) > 4 * Window THEN TRUE
    ELSE IF 10 * Blocks(w) < 2 * Window THEN FALSE ELSE active
Slide(blocked) ==
    LET longer == Append(window, blocked) IN
    IF Len(longer) > Window THEN Tail(longer) ELSE longer

\* A tripped breaker counts nothing as blocked, so the window clears.
Blocked_Raw(low) == low              \* mutant: recorded as if the gate were on
Blocked(low) == low /\ ~active

\* The advisory gate records what it would have blocked.
GetScore ==
    \E low \in BOOLEAN :
        /\ trained
        /\ window' = Slide(Blocked(low)) /\ active' = Trips(window')
        /\ refused' = (gating /\ Blocked(low))
        /\ UNCHANGED <<native, tables, trained, gating, base, config>>

\* _checkGating: enough real trades among the recent ones.
RealTrades_Any == Len(trades)        \* mutant: ghosts count
RealTrades == Cardinality({i \in DOMAIN trades : trades[i]})
CheckGating == gating' = (gating \/ RealTrades >= MinReal)

-----------------------------------------------------------------------------
(* The tuners.                                                             *)

\* applyGradientStep: a step within the bounds, or none for want of a gradient.
Clamp(n, lo, hi) == IF n < lo THEN lo ELSE IF n > hi THEN hi ELSE n
Moved(n, lo, hi) == {n} \cup {Clamp(n + step, lo, hi) : step \in {-1, 0, 1}}

\* runEntryTunerNow: the score is raised for real trades only.
MayRaise == RealTrades >= MinReal
RunEntryTuner(n) ==
    \E next \in Moved(minScore, ScoreLow, ScoreHigh) :
        minScore' = IF n < MinTuner \/ (next > minScore /\ ~MayRaise) THEN minScore ELSE next

\* The first two rungs of the ladder, the others as they are.
WithRungs(lower, upper) == <<lower, upper>> \o SubSeq(ladder, 3, Len(ladder))

\* applyGradientStep on the ladder: the first rung is put below the second, if
\* there is one, then the second above the first.
HasSecond == Len(ladder) >= 2
Lowered(t0) == IF t0 # ladder[1] /\ HasSecond /\ t0 >= ladder[2] THEN ladder[2] - Gap ELSE t0
Second == IF HasSecond THEN ladder[2] ELSE Low[2]
Stepped(t0, t1) ==
    LET lower == Lowered(t0) IN
    IF t1 = Second THEN [ladder EXCEPT ![1] = lower]
    ELSE WithRungs(lower, IF t1 <= lower THEN lower + Gap ELSE t1)

\* restoreParams: what extractCurrentParams had read is written back.
Restored == WithRungs(ladder[1], IF HasSecond THEN ladder[2] ELSE DefaultRung)

\* _applyGuardedExitStep: a step the replay finds worse is rejected.
AcceptStep ==
    \E t0 \in Moved(ladder[1], Low[1], High[1]), t1 \in Moved(Second, Low[2], High[2]) :
        ladder' = Stepped(t0, t1)
RejectStep == ladder' = Restored
ExitStep == AcceptStep \/ RejectStep

\* RlExitOptimizer.apply: any action in its bounds, the second rung after the first.
RlActions == (Low[1]..High[1]) \X (Low[2]..High[2])
Ordered_Trusting(a) == a             \* mutant: as the policy says
Ordered(a) == IF a[2] > a[1] THEN a ELSE <<a[1], a[1] + Gap>>
RlStep == \E a \in RlActions : ladder' = WithRungs(Ordered(a)[1], Ordered(a)[2])

RlGoverns(n) == native /\ n >= MinRl
EnoughData(n) == Len(trades) >= MinTrades \/ n >= MinGhosts
TuneExits(n) ==
    IF RlGoverns(n) THEN RlStep
    ELSE IF EnoughData(n) THEN ExitStep ELSE UNCHANGED ladder

\* runParamOptimizerNow returns when there is a policy, whether it did anything or not.
RunParamOptimizerNow(n) ==
    IF native THEN IF RlGoverns(n) THEN RlStep ELSE UNCHANGED ladder ELSE TuneExits(n)

-----------------------------------------------------------------------------
(* Outcomes: a ghost or a real position closes.                            *)

\* The close posts its sample and its trade, and tunes on what was written before.
Closes ==
    \E real, target \in BOOLEAN :
        /\ Len(posted) < MaxPosted
        /\ posted' = Append(posted, real)
        /\ IF target THEN RunParamOptimizerNow(samples) ELSE UNCHANGED ladder
        /\ RunEntryTuner(samples)
        /\ UNCHANGED <<native, realEver, trades, samples, trained, breaker, gating, refused, base>>

Written ==
    /\ posted # <<>>
    /\ LET real == Head(posted)
           longer == Append(trades, real)
       IN /\ trades' = IF Len(longer) > LookBack * MinReal THEN Tail(longer) ELSE longer
          /\ realEver' = IF real /\ realEver < MinReal THEN realEver + 1 ELSE realEver
    /\ samples' = IF samples < SampleWindow THEN samples + 1 ELSE samples
    /\ posted' = Tail(posted)
    /\ UNCHANGED <<native, trained, breaker, gating, refused, base, config>>

-----------------------------------------------------------------------------
(* The retraining, as the gate and the tuners see it (ModelTraining has    *)
(* what it does to the models).                                            *)

HeldOut(n) == IF n \div 5 > 1 THEN n \div 5 ELSE 1
Trains(n) == native /\ n - HeldOut(n) >= MinSamples

\* The cycle ends: the breaker is reset if there were samples, the gate is looked
\* at again, and both tuners run.  It read its n samples when it began, and they
\* have not become fewer.
Retrain ==
    \E n \in 0..samples :
        /\ trained' = (trained \/ Trains(n))
        /\ IF n > 0 THEN window' = <<>> /\ active' = FALSE ELSE UNCHANGED breaker
        /\ CheckGating /\ TuneExits(n) /\ RunEntryTuner(n)
        /\ UNCHANGED <<native, tables, refused, base>>

\* A training rejects, the first one or a later one of the cycle.
RetrainFails ==
    /\ \E n \in 0..samples : Trains(n)
    /\ trained' \in {trained, TRUE}
    /\ UNCHANGED <<native, tables, breaker, gating, refused, base, config>>

-----------------------------------------------------------------------------
(* A restart: the parameters start from the configuration again, and the   *)
(* models from what was saved.                                             *)

Restart ==
    /\ posted' = <<>> /\ UNCHANGED <<native, trades, realEver, samples, base>>
    /\ trained' \in {trained, FALSE}
    /\ window' = <<>> /\ active' = FALSE
    /\ gating' = (RealTrades >= MinReal) /\ refused' = FALSE
    /\ ladder' = base /\ minScore' = BaseScore

Next ==
    \/ GetScore \/ Closes \/ Written \/ Retrain \/ RetrainFails \/ Restart

\* Candidates keep coming.
Fairness == WF_vars(GetScore)
Spec == Init /\ [][Next]_vars
FairSpec == Spec /\ Fairness

-----------------------------------------------------------------------------
(* Properties.                                                             *)

\* Neither a refusal of the gate nor a stricter score rests on ghosts alone:
\* that many real trades have closed before (_checkGating, runEntryTunerNow).
RealFirst == refused \/ minScore > BaseScore => realEver = MinReal

\* Whatever steps, rejections and policies follow each other, two rungs that were
\* configured in order stay in order, and within the bounds of the tuners if they
\* were within them (applyGradientStep, restoreParams, RlExitOptimizer.apply).
InOrder(l) == Len(l) >= 2 /\ l[1] < l[2]
InBounds(l) == \A i \in {1, 2} : Low[i] <= l[i] /\ l[i] <= High[i]
RungsOrdered ==
    /\ InOrder(base) => InOrder(ladder)
    /\ InOrder(base) /\ InBounds(base) => InBounds(ladder)

\* A tripped breaker pauses the gate for a while, not for good (CircuitBreaker).
BreakerRecovers == active ~> ~active

=============================================================================
