---------------------------- MODULE MCSwingLoops ----------------------------
(* Model values for checking SwingLoops.                                   *)
EXTENDS SwingLoops

CONSTANTS m1, m2, m3

\* The slow loop alone, both loops on paper and live, and the loops beside the
\* scanner's buys on one paper wallet.
Alone == [paperTrading |-> TRUE, fastPolling |-> FALSE, parallelBuys |-> 0]
Overlapping == [Alone EXCEPT !.fastPolling = TRUE]
Live == [Overlapping EXCEPT !.paperTrading = FALSE]
Scanned == [Alone EXCEPT !.parallelBuys = 2]
Crowded == [Overlapping EXCEPT !.parallelBuys = 1]

AllConfigs == {Alone, Overlapping, Live, Scanned, Crowded}

=============================================================================
