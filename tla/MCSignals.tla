----------------------------- MODULE MCSignals -----------------------------
(***************************************************************************)
(* From a log to a scan, and the chain of the scans: the signals that are  *)
(* collected and offered to the discovery loop, and beside them the scans  *)
(* of both loops under the watchdog.  A behaviour exercises one of the two.*)
(***************************************************************************)
EXTENDS ScanPipeline

CONSTANTS Parts,                     \* the parts a run exercises
          LoggedMints, Unnamed

VARIABLES
    pendingMints, pendingSignatures, debounce, flush, taken, answer, batch, recent,
    processed, discovery, trending, loopChain, stopped, offers, overlapped,
    part                             \* the part exercised

Signals == INSTANCE Discovery WITH Mints <- LoggedMints, scanChain <- loopChain

ASSUME SignalsAssumption == Signals!DiscoveryAssumption

signalVars == <<pendingMints, pendingSignatures, debounce, flush, taken, answer, batch,
                recent, processed, discovery, trending, loopChain, stopped, offers,
                overlapped>>
allVars == <<part, vars, signalVars>>

RunInit ==
    /\ part \in Parts
    /\ Init /\ Signals!Init
    /\ part # "scans" => \A m \in Mints : lots[m] = 0 /\ rechecks[m] = NoEntry

SignalsStep == part = "signals" /\ Signals!Next /\ UNCHANGED <<part, vars>>
ScansStep == part = "scans" /\ Next /\ UNCHANGED <<part, signalVars>>
RunNext == SignalsStep \/ ScansStep

\* Timers fire while the bot runs; rpcCall and the feed time out, the watchdog
\* settles every scan.  No signal has to come, and no answer awaited by a scan
\* body does.
RunFairness ==
    /\ \A m \in Unnamed : WF_signalVars(part = "signals" /\ Signals!Fetched(m))
    /\ WF_signalVars(part = "signals" /\ Signals!TrendingFeed)
    /\ WF_signalVars(part = "signals" /\ Signals!ScanSettles)
    /\ WF_signalVars(part = "signals" /\ Signals!DebounceFires)
    /\ WF_signalVars(part = "signals" /\ Signals!FetchesDone)
    /\ \A s \in Scans :
          /\ WF_vars(part = "scans" /\ BeginScan(s))
          /\ WF_vars(part = "scans" /\ Watchdog(s))

RunSpec == RunInit /\ [][RunNext]_allVars /\ RunFairness

-----------------------------------------------------------------------------
(* Properties.                                                             *)

\* What the sockets log reaches the loop once, and nothing waits unwatched.
SignalsSound == Signals!TypeOK /\ Signals!OfferedOnce /\ Signals!SignalsWatched

\* Whatever hangs, flushes and loops return and every scan of the chain settles.
LoopsGoOn ==
    /\ part = "signals" => Signals!LoopsReturn
    /\ part = "scans" => ScanSettles

-----------------------------------------------------------------------------
(* Values of the constants.                                                *)

OneLaunchpad == [m \in Mints |-> "pump.fun"]
OnPaper == {[paperTrading |-> TRUE, maxPositionsPerLaunchpad |-> 0]}

=============================================================================
