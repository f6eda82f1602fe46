---------------------------- MODULE MCScanPipeline ----------------------------
(* Model values for ScanPipeline.                                          *)
EXTENDS ScanPipeline, TLC

CONSTANTS m1, m2, m3,   \* mints
          s1, s2, s3    \* scans

(* Every mint comes from one launchpad.                                    *)
OneLaunchpad == [m \in Mints |-> "pump.fun"]

(* On paper without the sector cap, live with it.                          *)
PaperUncapped == [paperTrading |-> TRUE, maxPositionsPerLaunchpad |-> 0]
LiveCapped == [paperTrading |-> FALSE, maxPositionsPerLaunchpad |-> 1]
Both == {PaperUncapped, LiveCapped}
OnPaper == {PaperUncapped}

(* Mints and scans are interchangeable in the runs without liveness.       *)
Symmetry == Permutations(Mints) \cup Permutations(Scans)

=============================================================================
