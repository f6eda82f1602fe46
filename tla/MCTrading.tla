------------------------------ MODULE MCTrading ------------------------------
(***************************************************************************)
(* The parts a live trade goes through, side by side: the swap itself, the *)
(* pool of RPC endpoints under it and the bucket that paces each of them,  *)
(* and the values fetched for it.  They share no state, so a behaviour     *)
(* exercises one of them.                                                  *)
(***************************************************************************)
EXTENDS TokenBucket, FiniteSets

CONSTANTS Parts,                     \* the parts a run exercises
          MaxCalls, MaxSlippageRetry, MaxBundles,
          Pool, Flaky, RpcCallers, MaxAttempts, Turns,
          Askers

VARIABLES
    useJito, inlineSwapSimulation, pc, call, slippages, bundles, order, managed, tx, callOf,
    timedOut, position, cooling,
    phase, attempt, at, several, index, errorCount, recent, window,
    age, inflight, asks, fetches, panic, priceCooling, awaits, fatal,
    part                             \* the part exercised

Swap == INSTANCE SwapExecution
Rpc == INSTANCE RpcPool WITH Callers <- RpcCallers
Values == INSTANCE SharedFetches WITH cooling <- priceCooling

ASSUME TradingAssumption ==
    Swap!SwapAssumption /\ Rpc!RpcPoolAssumption /\ Values!SharedFetchesAssumption

swapVars == <<useJito, inlineSwapSimulation, pc, call, slippages, bundles, order, managed, tx,
              callOf, timedOut, position, cooling>>
rpcVars == <<phase, attempt, at, several, index, errorCount, recent, window>>
valueVars == <<age, inflight, asks, fetches, panic, priceCooling, awaits, fatal>>
allVars == <<part, vars, swapVars, rpcVars, valueVars>>

TradingInit ==
    /\ part \in Parts
    /\ Init /\ Swap!Init /\ Rpc!Init /\ Values!Init
    /\ part # "swap" => ~useJito /\ ~inlineSwapSimulation

BucketStep == part = "bucket" /\ Next /\ UNCHANGED <<part, swapVars, rpcVars, valueVars>>
SwapStep == part = "swap" /\ Swap!Next /\ UNCHANGED <<part, vars, rpcVars, valueVars>>
RpcStep == part = "rpc" /\ Rpc!Next /\ UNCHANGED <<part, vars, swapVars, valueVars>>
ValueStep == part = "values" /\ Values!Next /\ UNCHANGED <<part, vars, swapVars, rpcVars>>

TradingNext == BucketStep \/ SwapStep \/ RpcStep \/ ValueStep

\* Every await of these ends: the requests have timeouts, the sleeps are timers,
\* and the bucket lets its waiters through.
TradingSpec ==
    /\ TradingInit /\ [][TradingNext]_allVars
    /\ WF_vars(part = "bucket" /\ IntervalPasses)
    /\ WF_vars(part = "bucket" /\ TimerFires /\ unclaimed > 0)
    /\ WF_swapVars(part = "swap" /\ Swap!Buying)
    /\ \A c \in RpcCallers : WF_rpcVars(part = "rpc" /\ Rpc!Calling(c))
    /\ \A c \in Values!Callers : WF_valueVars(part = "values" /\ ~fatal /\ Values!Answers(c))

-----------------------------------------------------------------------------
(* Properties.                                                             *)

\* No retry of any path of executeSwap buys twice, and what executeLiveBuy
\* records was bought.
SwapsSound == Swap!TypeOK /\ Swap!OneSwapPerBuy /\ Swap!PositionBacked

\* The callers find what they share as it is: a dead endpoint is left alone
\* (RpcPool), and a fetch under way is the only one (SharedFetches).
SharedStateSound ==
    /\ Rpc!TypeOK /\ Rpc!DeadEndpointBenched
    /\ Values!TypeOK /\ Values!OneFetchAtATime

\* Every waiting request, trade, call and question comes to its end.
TradesEnd ==
    /\ part = "bucket" => QueuesDrain
    /\ part = "swap" => Swap!BuysReturn
    /\ part = "rpc" => Rpc!CallsEnd
    /\ part = "values" => Values!CallersAnswered

=============================================================================
