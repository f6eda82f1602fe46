--------------------------- MODULE MCPositionExit ---------------------------
(* Model values for checking PositionExit.                                 *)
EXTENDS PositionExit, TLC

CONSTANT base

Live == [amount |-> 2, moonBag |-> 0, takeProfits |-> 2,
         paperTrading |-> FALSE, closePositionsOnShutdown |-> FALSE]
Paper == [amount |-> 4, moonBag |-> 1, takeProfits |-> 2,
          paperTrading |-> TRUE, closePositionsOnShutdown |-> FALSE]

\* Live with a ladder of two rungs, and with a shutdown that sells; on paper a
\* ladder above a runner, with and without such a shutdown.
AllConfigs == {Live, Paper,
               [Live EXCEPT !.amount = 1, !.closePositionsOnShutdown = TRUE],
               [Paper EXCEPT !.amount = 2, !.closePositionsOnShutdown = TRUE]}

=============================================================================
