----------------------------- MODULE MCLearning -----------------------------
(***************************************************************************)
(* The bot's process, and what it learns while it runs: the ghosts, and    *)
(* the models, the gate and the tuners their ends feed.  They share no     *)
(* state of these models, so a behaviour exercises one; the gate and the   *)
(* tuners meet in the tables only, and a behaviour exercises either, the   *)
(* parameters as they are or no score asked for.                           *)
(***************************************************************************)
EXTENDS Lifecycle, Sequences, FiniteSets

CONSTANTS Parts,                     \* the parts a run exercises
          Coins, MaxPrice, EntryPrices, Scores, MinGhostScore, QueueCap, MaxPositions,
          MaxHold, StaleGrace, StopLoss, Trail, Ladders,
          Window, SampleWindow, MinSamples, MinGhosts, MinTrades, MinRl, MinTuner, MinReal,
          LookBack, Bases, BaseScore, Low, High, Gap, ScoreLow, ScoreHigh, DefaultRung,
          MaxPosted, MaxTrainings

VARIABLES
    queue, ghosts, tps, closed, beat,
    native, trades, realEver, samples, posted, trained, window, active, gating, refused,
    base, ladder, minScore,
    addon, rows, models, saved, saving, settled, training, batch, version, lame, torn,
    part                             \* the part exercised

Ghost == INSTANCE GhostTrader
Learn == INSTANCE ModelLearning
Train == INSTANCE ModelTraining

ASSUME LearningAssumptions ==
    Ghost!GhostAssumption /\ Learn!LearningAssumption /\ Train!TrainingAssumption

ghostVars == <<queue, ghosts, tps, closed, beat>>
learnVars == <<native, trades, realEver, samples, posted, trained, window, active, gating,
               refused, base, ladder, minScore>>
trainVars == <<addon, rows, models, saved, saving, settled, training, batch, version,
               lame, torn>>
allVars == <<part, vars, ghostVars, learnVars, trainVars>>

\* A part that is not exercised stays in one initial state.
RunInit ==
    /\ part \in Parts
    /\ Init /\ Ghost!Init /\ Learn!Init /\ Train!Init
    /\ part # "life" => json
    /\ part # "ghosts" => tps = CHOOSE l \in Ladders : TRUE
    /\ part \notin {"gate", "tuners"} => native /\ trained
    /\ part # "tuners" => base = CHOOSE l \in Bases : TRUE
    /\ part # "training" => addon

LifeStep == part = "life" /\ Next /\ UNCHANGED <<part, ghostVars, learnVars, trainVars>>
GhostStep == part = "ghosts" /\ Ghost!Next /\ UNCHANGED <<part, vars, learnVars, trainVars>>
LearnStep ==
    /\ Learn!Next /\ UNCHANGED <<part, vars, ghostVars, trainVars>>
    /\ \/ part = "gate" /\ UNCHANGED <<ladder, minScore>>
       \/ part = "tuners" /\ UNCHANGED <<trained, window>>
TrainStep == part = "training" /\ Train!Next /\ UNCHANGED <<part, vars, ghostVars, learnVars>>

\* The watchdogs and the ghosts' tick are timers, and candidates keep coming.
RunNext == LifeStep \/ GhostStep \/ LearnStep \/ TrainStep

RunSpec ==
    /\ RunInit /\ [][RunNext]_allVars
    /\ WF_vars(part = "life" /\ HardExit) /\ WF_vars(part = "life" /\ ForceKill)
    /\ WF_beat(part = "ghosts" /\ Ghost!Ticks)
    /\ WF_learnVars(part = "gate" /\ Learn!GetScore)

-----------------------------------------------------------------------------
(* Properties.                                                             *)

\* What the model learns from and decides with is what happened: ghosts are
\* credited with their peak, models have the statistics of their weights,
\* nothing gets stricter on ghosts alone, and the ladder stays a ladder.
LearningSound ==
    /\ Ghost!TypeOK /\ Ghost!PeakCredited
    /\ Learn!TypeOK /\ Learn!RealFirst /\ Learn!RungsOrdered
    /\ Train!TypeOK /\ Train!ModelsWhole

\* A stop of the bot or of its supervisor ends, every ghost becomes a sample, and
\* no gate stays paused.
NothingHangs ==
    /\ part = "life" => ShutdownEnds
    /\ part = "ghosts" => Ghost!GhostsEnd
    /\ part = "gate" => Learn!BreakerRecovers

-----------------------------------------------------------------------------
(* Values of the constants.                                                *)

SmallLadders == {<<120>>, <<150, 300, 200>>}
LowestRungs == <<1, 2>>
HighestRungs == <<2, 4>>
SmallBases == {<<1>>, <<1, 3>>, <<3, 2, 5>>, <<3, 4>>}

=============================================================================
