---------------------------- MODULE SwapExecution ----------------------------
(***************************************************************************)
(* A live buy of one mint: executeLiveBuy (buy.ts) around                  *)
(* executeSwapOrderWithSmartRetry (swap-executor.ts), which sends an order *)
(* through an RPC node, Jupiter or a Jito bundle.  The chain settles a     *)
(* transaction when it likes, and no answer tells for certain that it will *)
(* not.  Amounts are lots: every swap that lands adds one to the wallet.   *)
(***************************************************************************)
EXTENDS Naturals, FiniteSets

CONSTANTS MaxCalls,                  \* bound on buys of the mint
          MaxSlippageRetry,          \* maxAutoSlippageRetry
          MaxBundles                 \* jitoBundleRetryAttempts

SwapAssumption == {MaxCalls, MaxSlippageRetry, MaxBundles} \subseteq Nat

Orders == 1..(MaxCalls * (MaxSlippageRetry + 1))

VARIABLES
    useJito, inlineSwapSimulation,   \* configuration
    pc,                              \* where the call under way stands
    call, slippages, bundles,        \* calls begun; retries and bundles of this one
    order, managed,                  \* the order in hand (0: none), and whether Jupiter executes it
    tx,                              \* order -> what the chain made of its transaction
    callOf,                          \* order -> the call that fetched it
    timedOut,                        \* the swap was taken for confirmed without news of it
    position,                        \* lots recorded in the store
    cooling                          \* coolDownMints has the mint

config == <<useJito, inlineSwapSimulation>>
vars == <<useJito, inlineSwapSimulation, pc, call, slippages, bundles, order, managed, tx,
          callOf, timedOut, position, cooling>>

TypeOK ==
    /\ useJito \in BOOLEAN /\ inlineSwapSimulation \in BOOLEAN
    /\ pc \in {"idle", "reading", "routing", "simulating", "sending", "confirming",
               "executing", "answering", "bundling", "bundled", "polling", "lookup"}
    /\ call \in 0..MaxCalls
    /\ slippages \in 0..MaxSlippageRetry /\ bundles \in 0..MaxBundles
    /\ order \in {0} \cup Orders /\ managed \in BOOLEAN
    /\ tx \in [Orders -> {"unsent", "pending", "landed", "failed", "expired"}]
    /\ callOf \in [Orders -> 0..MaxCalls]
    /\ timedOut \in BOOLEAN /\ position \in 0..Cardinality(Orders) /\ cooling \in BOOLEAN

Init ==
    /\ useJito \in BOOLEAN /\ inlineSwapSimulation \in BOOLEAN
    /\ pc = "idle" /\ call = 0 /\ slippages = 0 /\ bundles = 0 /\ order = 0 /\ managed = FALSE
    /\ tx = [o \in Orders |-> "unsent"] /\ callOf = [o \in Orders |-> 0]
    /\ timedOut = FALSE /\ position = 0 /\ cooling = FALSE

Landed == {o \in Orders : tx[o] = "landed"}
Held == Cardinality(Landed)

\* getWalletTokenBalance: another node of the pool may not have seen the last
\* swaps yet.
Readings == 0..Held

-----------------------------------------------------------------------------
(* The chain.                                                              *)

Unsettled(o) == tx[o] = "pending"

Settle(o) ==
    /\ Unsettled(o)
    \* A bundle that fails leaves no trace, and its transaction can be sent again.
    /\ \E fate \in {"landed", "expired"} \cup (IF useJito THEN {"unsent"} ELSE {"failed"}) :
          tx' = [tx EXCEPT ![o] = fate]
    /\ UNCHANGED <<config, pc, call, slippages, bundles, order, managed, callOf, timedOut,
                   position, cooling>>

\* What a submission does, received or not.
Submitted == IF tx[order] = "unsent" THEN {tx, [tx EXCEPT ![order] = "pending"]} ELSE {tx}
Received == IF tx[order] = "unsent" THEN [tx EXCEPT ![order] = "pending"] ELSE tx

-----------------------------------------------------------------------------
(* The buy up to its order.                                                *)

\* buyCandidate reports a failed buy and returns null.
Abandon == pc' = "idle"

BuyCandidate ==
    /\ pc = "idle" /\ position = 0 /\ ~cooling /\ call < MaxCalls
    /\ call' = call + 1 /\ slippages' = 0 /\ timedOut' = FALSE
    /\ pc' = "reading"
    /\ UNCHANGED <<config, bundles, order, managed, tx, callOf, position, cooling>>

\* Tokens in the wallet already become the position, without a swap.
ReadBefore ==
    /\ pc = "reading"
    /\ \/ \E n \in Readings \ {0} : position' = n /\ pc' = "idle"
       \/ UNCHANGED position /\ pc' = "routing"
       \/ UNCHANGED position /\ Abandon
    /\ UNCHANGED <<config, call, slippages, bundles, order, managed, tx, callOf, timedOut,
                   cooling>>

\* Which way executeSwapOrder takes.
Dispatched(byJupiter) ==
    IF useJito THEN "bundling"
    ELSE IF byJupiter THEN "executing"
    ELSE IF inlineSwapSimulation THEN "simulating" ELSE "sending"

\* A local route when there is one, else Jupiter, whose order carries a request
\* id; an error of either ends the buy, one of slippage too.
FetchSwapOrder ==
    /\ pc = "routing"
    /\ \/ /\ order' = order + 1
          /\ callOf' = [callOf EXCEPT ![order + 1] = call]
          /\ managed' \in BOOLEAN
          /\ pc' = Dispatched(managed')
          /\ bundles' = 0
       \/ Abandon /\ UNCHANGED <<bundles, order, managed, callOf>>
    /\ UNCHANGED <<config, call, slippages, tx, timedOut, position, cooling>>

\* The error is one of slippage: another order, with more of it allowed.
RetrySlippage ==
    IF slippages < MaxSlippageRetry
    THEN slippages' = slippages + 1 /\ pc' = "routing"
    ELSE UNCHANGED slippages /\ Abandon

-----------------------------------------------------------------------------
(* Through an RPC node.                                                    *)

Simulate ==
    /\ pc = "simulating"
    /\ \/ pc' = "sending" /\ UNCHANGED slippages
       \/ RetrySlippage
       \/ Abandon /\ UNCHANGED slippages
    /\ UNCHANGED <<config, call, bundles, order, managed, tx, callOf, timedOut, position,
                   cooling>>

\* rpcCall repeats a submission that timed out, on another node.  Its preflight,
\* on unless the swap was simulated, can then report slippage of a transaction
\* that the first node has passed on.
Send ==
    /\ pc = "sending"
    /\ \/ tx' = Received /\ pc' = "confirming" /\ UNCHANGED slippages
       \/ tx' \in Submitted /\ Abandon /\ UNCHANGED slippages
       \/ ~inlineSwapSimulation /\ tx' \in Submitted /\ RetrySlippage
    /\ UNCHANGED <<config, call, bundles, order, managed, callOf, timedOut, position, cooling>>

\* After 30 s, or when the stream ends, the signature counts as confirmed.
Confirm ==
    /\ pc = "confirming"
    /\ \/ tx[order] = "landed" /\ pc' = "polling" /\ UNCHANGED <<slippages, timedOut>>
       \/ tx[order] = "failed" /\ RetrySlippage /\ UNCHANGED timedOut
       \/ Abandon /\ UNCHANGED <<slippages, timedOut>>
       \/ timedOut' = TRUE /\ pc' = "polling" /\ UNCHANGED slippages
    /\ UNCHANGED <<config, call, bundles, order, managed, tx, callOf, position, cooling>>

-----------------------------------------------------------------------------
(* Through Jupiter.                                                        *)

\* The same signed transaction is posted again when a request fails.
ExecuteManaged ==
    /\ pc = "executing"
    /\ tx' \in Submitted
    /\ pc' = "answering"
    /\ UNCHANGED <<config, call, slippages, bundles, order, managed, callOf, timedOut, position,
                   cooling>>

ManagedAnswer ==
    /\ pc = "answering"
    /\ \/ tx[order] = "landed" /\ pc' = "polling" /\ UNCHANGED slippages
       \/ tx[order] = "failed" /\ RetrySlippage
       \/ Abandon /\ UNCHANGED slippages
    /\ UNCHANGED <<config, call, bundles, order, managed, tx, callOf, timedOut, position,
                   cooling>>

-----------------------------------------------------------------------------
(* Through a Jito bundle: the transaction of the order and one that tips.  *)

\* Mutant: every attempt takes a fresh order.
NextBundle_Reordered == pc' = "routing"
\* Mutant: attempts are not counted.
Counted_Never(n) == n
NextBundle == pc' = "bundling"
Counted(n) == n + 1

\* The first attempt simulates.  A submission that fails is the next attempt's
\* business, whether or not the block engine got it.
SendBundle ==
    /\ pc = "bundling" /\ bundles < MaxBundles
    /\ bundles' = Counted(bundles)
    /\ \/ tx' = Received /\ pc' = "bundled" /\ UNCHANGED slippages
       \/ tx' \in Submitted /\ NextBundle /\ UNCHANGED slippages
       \/ Abandon /\ UNCHANGED <<tx, slippages>>           \* getBlockhash, or the simulation
       \/ inlineSwapSimulation /\ bundles = 0 /\ RetrySlippage /\ UNCHANGED tx
    /\ UNCHANGED <<config, call, order, managed, callOf, timedOut, position, cooling>>

\* Mutant: a bundle without a status counts as landed.
Expired_Confirmed == pc' = "polling"
Expired == NextBundle

ConfirmBundle ==
    /\ pc = "bundled"
    /\ \/ tx[order] = "landed" /\ pc' = "polling"
       \/ Expired
    /\ UNCHANGED <<config, call, slippages, bundles, order, managed, tx, callOf, timedOut,
                   position, cooling>>

BundlesExhausted ==
    /\ pc = "bundling" /\ bundles = MaxBundles
    /\ Abandon
    /\ UNCHANGED <<config, call, slippages, bundles, order, managed, tx, callOf, timedOut,
                   position, cooling>>

-----------------------------------------------------------------------------
(* From the signature to the position.                                     *)

\* Six reads of the balance; one that fails ends the buy although it was done.
PollBalance ==
    /\ pc = "polling"
    /\ \/ \E n \in Readings \ {0} : position' = n /\ pc' = "idle"
       \/ UNCHANGED position /\ pc' = "lookup"
       \/ UNCHANGED position /\ Abandon
    /\ UNCHANGED <<config, call, slippages, bundles, order, managed, tx, callOf, timedOut,
                   cooling>>

\* The balances in the transaction, else the amount the order promised, else
\* nothing: then the mint cools down.
LookUpTransaction ==
    /\ pc = "lookup"
    /\ pc' = "idle"
    /\ \/ position' = 1 /\ UNCHANGED cooling
       \/ cooling' = TRUE /\ UNCHANGED position
    /\ UNCHANGED <<config, call, slippages, bundles, order, managed, tx, callOf, timedOut>>

\* Two minutes: longer than a transaction stays valid.
CoolDownEnds ==
    /\ cooling /\ \A o \in Orders : ~Unsettled(o)
    /\ cooling' = FALSE
    /\ UNCHANGED <<config, pc, call, slippages, bundles, order, managed, tx, callOf, timedOut,
                   position>>

-----------------------------------------------------------------------------
Buying ==
    \/ ReadBefore \/ FetchSwapOrder
    \/ Simulate \/ Send \/ Confirm
    \/ ExecuteManaged \/ ManagedAnswer
    \/ SendBundle \/ ConfirmBundle \/ BundlesExhausted
    \/ PollBalance \/ LookUpTransaction

Next == BuyCandidate \/ Buying \/ CoolDownEnds \/ \E o \in Orders : Settle(o)

Spec == Init /\ [][Next]_vars

-----------------------------------------------------------------------------
(* Properties.                                                             *)

\* Whatever is retried, at most one swap of a buy lands.  Without the inline
\* simulation a repeated submission can report slippage of a transaction that
\* still lands, and the buy is made twice.
OneSwapPerBuy ==
    useJito \/ inlineSwapSimulation =>
        \A c \in 1..call : Cardinality({o \in Landed : callOf[o] = c}) <= 1

\* A recorded position is in the wallet, unless the RPC path took a timeout for
\* a confirmation and the amount was the one the order had promised.
PositionBacked == ~timedOut => position <= Held

\* Every buy returns.
BuysReturn == pc # "idle" ~> pc = "idle"

=============================================================================
