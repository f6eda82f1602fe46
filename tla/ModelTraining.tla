---------------------------- MODULE ModelTraining ----------------------------
(***************************************************************************)
(* The scoring models of ml-service.ts: the cycle that trains them on the  *)
(* last samples (EnsembleModel.train, ScoringModel.train), the key by key  *)
(* save of what it made (saveWeights), and the load at a start             *)
(* (loadWeights).  Weights and statistics are the number of the training   *)
(* they come from: 0 is the initial ones, -1 a key that is not there.      *)
(***************************************************************************)
EXTENDS Integers, Sequences, FiniteSets

CONSTANTS
    SampleWindow,                    \* the rows a cycle reads: getTrainingSamples(500)
    MinSamples,                      \* what a model needs to be trained
    MaxTrainings                     \* bound: trainings begun

TrainingAssumption == {SampleWindow, MinSamples, MaxTrainings} \subseteq Nat

\* The general model, and one of the models per DEX.
Buckets == <<"default", "pumpfun">>
Names == {"default", "pumpfun"}
Fields == {"weights", "stats"}
Keys == <<<<"default", "weights">>, <<"default", "stats">>,
          <<"pumpfun", "weights">>, <<"pumpfun", "stats">>>>

VARIABLES
    addon,                           \* the Rust addon loaded: it can train
    rows,                            \* the last training samples: TRUE is one of that DEX
    models, saved,                   \* bucket -> weights and statistics, in memory and in ens:*
    saving, settled,                 \* the save under way, and how many of its keys are settled
    training, batch, version,        \* the bucket in training, the rows of the cycle, trainings
    lame,                            \* buckets whose last training failed, or loaded so
    torn                             \* buckets of which the last save may not be whole

memory == <<addon, models, training, batch, version, lame>>
saves == <<saved, saving, settled, torn>>
vars == <<memory, saves, rows>>

Pair == [Fields -> -1..MaxTrainings]
Fresh == [f \in Fields |-> 0]
Absent == [f \in Fields |-> -1]

TypeOK ==
    /\ addon \in BOOLEAN
    /\ rows \in Seq(BOOLEAN) /\ Len(rows) <= SampleWindow
    /\ batch \in Seq(BOOLEAN) /\ Len(batch) <= SampleWindow
    /\ {models, saved, saving} \subseteq [Names -> Pair]
    /\ settled \in 0..Len(Keys) /\ training \in 0..Len(Buckets) /\ version \in 0..MaxTrainings
    /\ lame \subseteq Names /\ torn \subseteq Names

Init ==
    /\ addon \in BOOLEAN /\ rows = <<>> /\ batch = <<>>
    /\ models = [b \in Names |-> Fresh] /\ saved = [b \in Names |-> Absent]
    /\ saving = saved /\ settled = Len(Keys)
    /\ training = 0 /\ version = 0 /\ lame = {} /\ torn = {}

-----------------------------------------------------------------------------
(* The cycle: _retrain.                                                    *)

\* A close has added a sample; the oldest falls out of what a cycle reads.
Sampled ==
    \E pump \in BOOLEAN :
        LET longer == Append(rows, pump) IN
        /\ rows' = IF Len(longer) > SampleWindow THEN Tail(longer) ELSE longer
        /\ UNCHANGED <<memory, saves>>

\* A bucket is trained on its subset; a fifth of it, at least one, is held out.
Count(b, s) == IF b = "default" THEN Len(s) ELSE Cardinality({i \in DOMAIN s : s[i]})
HeldOut(n) == IF n \div 5 > 1 THEN n \div 5 ELSE 1
Enough(n) == n - HeldOut(n) >= MinSamples
NextBucket(from, s) ==
    LET able == {i \in (from + 1)..Len(Buckets) : addon /\ Enough(Count(Buckets[i], s))} IN
    IF able = {} THEN 0 ELSE CHOOSE i \in able : \A j \in able : i <= j

\* train has the new statistics, and awaits the native training under them.
Refit(current, i) ==
    /\ version < MaxTrainings /\ version' = version + 1
    /\ training' = i
    /\ models' = [current EXCEPT ![Buckets[i]]["stats"] = version']
    /\ UNCHANGED saves

\* After the last bucket every model is saved, those skipped and those of a
\* failed cycle before included.  The save before has settled: a cycle takes less
\* than the interval.
Save(current, failed) ==
    /\ settled = Len(Keys) /\ settled' = 0
    /\ saving' = current /\ torn' = failed
    /\ training' = 0 /\ models' = current
    /\ UNCHANGED <<saved, version>>

Continue(current, failed, next) ==
    /\ lame' = failed
    /\ IF next = 0 THEN Save(current, failed) ELSE Refit(current, next)

Retrain ==
    /\ training = 0 /\ rows # <<>> /\ batch' = rows
    /\ Continue(models, lame, NextBucket(0, rows))
    /\ UNCHANGED <<addon, rows>>

\* The weights arrive: the model is what the statistics are for.
TrainingEnds ==
    /\ training # 0
    /\ LET b == Buckets[training]
           trained == [models EXCEPT ![b]["weights"] = models[b]["stats"]]
       IN Continue(trained, lame \ {b}, NextBucket(training, batch))
    /\ UNCHANGED <<addon, rows, batch>>

\* The training rejects: the cycle ends where it is, and saves nothing.
Abandon_Saving ==                    \* mutant: saved all the same
    saving' = models /\ settled' = 0 /\ UNCHANGED <<saved, torn>>
Abandon == UNCHANGED saves
TrainingFails ==
    /\ training # 0 /\ training' = 0
    /\ lame' = lame \cup {Buckets[training]} /\ Abandon
    /\ UNCHANGED <<addon, rows, models, batch, version>>

-----------------------------------------------------------------------------
(* The save, and the next start.                                           *)

\* The persistence worker writes the next key, or drops it.
KeyWritten ==
    /\ settled < Len(Keys) /\ settled' = settled + 1
    /\ LET b == Keys[settled'][1]  f == Keys[settled'][2] IN
       saved' = [saved EXCEPT ![b][f] = saving[b][f]]
    /\ UNCHANGED <<memory, rows, saving, torn>>
KeyDropped ==
    /\ settled < Len(Keys) /\ settled' = settled + 1
    /\ torn' = torn \cup {Keys[settled'][1]}
    /\ UNCHANGED <<memory, rows, saving, saved>>

\* A model whose keys are not all there stays as it was constructed.
Load(s) == IF \E f \in Fields : s[f] = -1 THEN Fresh ELSE s

\* The process ends anywhere, and what it had posted may be lost.
Restart ==
    /\ models' = [b \in Names |-> Load(saved[b])]
    /\ settled' = Len(Keys) /\ torn' = torn \cup {Keys[k][1] : k \in (settled + 1)..Len(Keys)}
    /\ lame' = torn'
    /\ training' = 0 /\ batch' = <<>> /\ addon' \in BOOLEAN
    /\ UNCHANGED <<rows, saved, saving, version>>

Next ==
    \/ Sampled \/ Retrain \/ TrainingEnds \/ TrainingFails
    \/ KeyWritten \/ KeyDropped \/ Restart
Spec == Init /\ [][Next]_vars

-----------------------------------------------------------------------------
(* Properties.                                                             *)

Whole(m) == m["weights"] = m["stats"]

\* Which models may score under statistics their weights were not trained with:
\* in memory the one in training, and one whose last training failed; in the
\* database one whose last save was of such a model, lost a write or was cut, and
\* while a save is under way.  A skipped bucket, a later failure elsewhere, a
\* restart adds none, and a training that ends heals its model (ScoringModel.train,
\* saveWeights, loadWeights).
ModelsWhole ==
    /\ \A i \in 1..Len(Buckets) :
           Whole(models[Buckets[i]]) \/ Buckets[i] \in lame \/ training = i
    /\ \A b \in Names : Whole(Load(saved[b])) \/ b \in torn \/ settled < Len(Keys)

=============================================================================
