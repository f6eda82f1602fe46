----------------------------- MODULE SwingLoops -----------------------------
(***************************************************************************)
(* The swing bot: two timer-driven loops over one watchlist.               *)
(*                                                                         *)
(*   slow  runSwingLoop: refresh the watchlist, poll every price, evict,   *)
(*         evaluate, buy;                                                  *)
(*   fast  runFastSwingPoll: poll and evaluate only the items that are in  *)
(*         fast-poll mode.                                                 *)
(*                                                                         *)
(* The fast loop does not start while the slow one runs; nothing keeps the *)
(* slow one from starting while the fast one runs.  Everything between two *)
(* awaits is one step: resuming from an await also picks the next item to  *)
(* buy (Proceed), for evaluateSwingCandidate awaits nothing.               *)
(*                                                                         *)
(* A swing entry costs one unit of the balance.  A Map visits its entries  *)
(* in insertion order; the model lets the loop visit them in any order.    *)
(***************************************************************************)
EXTENDS Integers, FiniteSets

CONSTANTS
    Mints,
    MaxOpenPositions,     \* swingMaxOpenPositions
    Configs,              \* settings explored; one is chosen at the start
    InitialBalance,
    WatchlistSize,        \* MAX_WATCHLIST_SIZE
    Followed,             \* mints whose swap-log listeners are modelled: nothing
                          \* else depends on them, one mint stands for all
    MaxLookups            \* bound on the pool lookups in flight for one mint

Loops == {"slow", "fast"}
NoMint == "none"

ASSUME SwingAssumption ==
    /\ IsFiniteSet(Mints) /\ Followed \subseteq Mints /\ NoMint \notin Mints
    /\ {MaxOpenPositions, InitialBalance, WatchlistSize, MaxLookups} \subseteq Nat
    /\ \A c \in Configs :
         {c.paperTrading, c.fastPolling} \subseteq BOOLEAN /\ c.parallelBuys \in Nat

VARIABLES
    config,         \* the settings, which never change
    watchlist,      \* mints of swingWatchlist
    fastItems,      \* those of them whose fastPollUntil lies ahead
    positions,      \* mint -> profile of its open position, or "none"
    lots,           \* mint -> purchases of it the wallet still holds
    balance,        \* paper balance
    sniping,        \* buys of the scanner that passed the check of the balance
                    \* and await their quote or swap
    pc,             \* loop -> the await it is suspended in
    polled,         \* loop -> eligibleMints of its price request
    visited,        \* loop -> items its for-loop is past
    openSwing,      \* loop -> its local count of open swing positions
    buying,         \* loop -> the mint of the buy it awaits
    lookups,        \* mint -> subscribe() calls awaiting a pool lookup
    controllers,    \* mints of SwingTapeManager.controllers
    listeners       \* mint -> listen loops not aborted

watch == <<watchlist, fastItems>>
book == <<positions, lots, balance, sniping>>
loop == <<pc, polled, visited, openSwing, buying>>
tape == <<lookups, controllers, listeners>>
vars == <<watch, book, loop, tape, config>>

PaperTrading == config.paperTrading
FastPolling == config.fastPolling     \* price paths that arm the fast poll occur
ParallelBuys == config.parallelBuys   \* final audits of the scanner, each with a
                                      \* buy of its own: scanParallelismHeavy

TypeOK ==
    /\ config \in Configs
    /\ watchlist \subseteq Mints /\ Cardinality(watchlist) <= WatchlistSize
    /\ fastItems \subseteq watchlist
    /\ positions \in [Mints -> {"none", "swing", "sniper"}]
    /\ lots \in [Mints -> Nat]
    /\ \A m \in Mints : lots[m] = 0 <=> positions[m] = "none"
    /\ balance \in Int
    /\ sniping \in 0..ParallelBuys
    /\ pc \in [Loops -> {"idle", "refresh", "poll", "buy"}]
    /\ pc["fast"] # "refresh"
    /\ polled \in [Loops -> SUBSET Mints]
    /\ visited \in [Loops -> SUBSET Mints]
    /\ openSwing \in [Loops -> 0..MaxOpenPositions]
    /\ buying \in [Loops -> Mints \cup {NoMint}]
    /\ \A l \in Loops : pc[l] = "buy" <=> buying[l] # NoMint
    /\ lookups \in [Followed -> 0..MaxLookups]
    /\ controllers \subseteq Followed
    /\ listeners \in [Followed -> Nat]

Init ==
    /\ config \in Configs
    /\ watchlist = {} /\ fastItems = {}
    /\ positions = [m \in Mints |-> "none"]
    /\ lots = [m \in Mints |-> 0]
    /\ balance = InitialBalance
    /\ sniping = 0
    /\ pc = [l \in Loops |-> "idle"]
    /\ polled = [l \in Loops |-> {}]
    /\ visited = [l \in Loops |-> {}]
    /\ openSwing = [l \in Loops |-> 0]
    /\ buying = [l \in Loops |-> NoMint]
    /\ lookups = [m \in Followed |-> 0]
    /\ controllers = {}
    /\ listeners = [m \in Followed |-> 0]

-----------------------------------------------------------------------------
(* Pieces of a loop's turn.                                                *)

SwingPositions == {m \in Mints : positions[m] = "swing"}

\* Mutant: the cap is not consulted.
Full_Never(opened) == FALSE
Full(opened) == opened >= MaxOpenPositions

\* Mutant: the paper buy does not look at the balance.
Affords_Always(funds) == TRUE
Affords(funds) == PaperTrading => funds >= 1

\* The finally block of either loop.
Idle(l) ==
    /\ pc' = [pc EXCEPT ![l] = "idle"]
    /\ openSwing' = [openSwing EXCEPT ![l] = 0]
    /\ buying' = [buying EXCEPT ![l] = NoMint]

\* What the for-loops are past once `gone` left the Map: an item deleted and
\* added again is a new entry.
Past(gone) == [k \in Loops |-> visited[k] \ gone]

\* Mutant: a Map entry that is set anew during the visit is visited again.
Proceed_Revisits(l, items, opened, seen, funds) ==
    \/ /\ Idle(l)
       /\ visited' = [seen EXCEPT ![l] = {}]
    \/ /\ ~Full(opened) /\ Affords(funds)
       /\ \E m \in items :
              /\ visited' = [seen EXCEPT ![l] = @ \cup {m}]
              /\ buying' = [buying EXCEPT ![l] = m]
       /\ pc' = [pc EXCEPT ![l] = "buy"]
       /\ openSwing' = [openSwing EXCEPT ![l] = opened]

\* The rest of the for-loop up to the next purchase, when the items to visit
\* are `items`: it runs out of items or meets the cap, or buys some approved
\* item, the items skipped on the way being rejected or unaffordable.
Proceed(l, items, opened, seen, funds) ==
    \/ /\ Idle(l)
       /\ visited' = [seen EXCEPT ![l] = {}]
    \/ /\ ~Full(opened) /\ Affords(funds)
       /\ \E m \in items \ seen[l] : \E skipped \in SUBSET (items \ seen[l]) :
              /\ visited' = [seen EXCEPT ![l] = @ \cup skipped \cup {m}]
              /\ buying' = [buying EXCEPT ![l] = m]
       /\ pc' = [pc EXCEPT ![l] = "buy"]
       /\ openSwing' = [openSwing EXCEPT ![l] = opened]

\* Counting the open positions and entering the for-loop.
Scan(l, items, seen) ==
    IF Full(Cardinality(SwingPositions))
    THEN Idle(l) /\ visited' = [seen EXCEPT ![l] = {}]
    ELSE Proceed(l, items, Cardinality(SwingPositions), seen, balance)

\* removeFromWatchlist(): the items leave and their listeners are aborted.
Unsubscribe(gone) ==
    /\ controllers' = controllers \ gone
    /\ listeners' = [m \in Followed |-> IF m \in gone \cap controllers
                                        THEN listeners[m] - 1 ELSE listeners[m]]

\* evictStaleWatchlistItems(), then the scan; `aged` are over two hours old.
EvictAndScan(items, fast, seen) ==
    \E aged \in SUBSET items :
        LET gone == aged \cup {m \in items : positions[m] # "none"}
        IN  /\ watchlist' = items \ gone
            /\ fastItems' = fast \ gone
            /\ Unsubscribe(gone)
            /\ Scan("slow", items \ gone, [k \in Loops |-> seen[k] \ gone])

\* What the new price points make of fastPollUntil for the items just polled.
Rearmed(l, items) ==
    IF FastPolling
    THEN {f \in SUBSET items : f \ polled[l] = fastItems \ polled[l]}
    ELSE {{}}

-----------------------------------------------------------------------------
(* The slow loop.                                                          *)

StartSlow ==
    /\ pc["slow"] = "idle"
    /\ pc' = [pc EXCEPT !["slow"] = "refresh"]
    /\ UNCHANGED <<watch, book, polled, visited, openSwing, buying, tape, config>>

\* refreshSwingWatchlist() resumes with the feed (or without, added = {}): new
\* items not held enter and ask for a pool, the oldest leave for them.  Prices
\* are requested next, if there is anything to poll and no cooldown.
Refresh ==
    /\ pc["slow"] = "refresh"
    /\ \E added \in SUBSET {m \in Mints \ watchlist :
                               /\ positions[m] = "none"
                               /\ m \in Followed => lookups[m] < MaxLookups},
          evicted \in SUBSET Mints :
           /\ evicted \subseteq watchlist \cup added
           /\ evicted \subseteq watchlist \/ watchlist \subseteq evicted
           /\ LET overflow == Cardinality(watchlist \cup added) - WatchlistSize
              IN  Cardinality(evicted) = IF overflow > 0 THEN overflow ELSE 0
           /\ watchlist' = (watchlist \cup added) \ evicted
           /\ fastItems' = fastItems \ evicted
           /\ visited' = Past(evicted)
           /\ lookups' = [m \in Followed |-> lookups[m] + IF m \in added THEN 1 ELSE 0]
           /\ Unsubscribe(evicted)
    /\ pc' = [pc EXCEPT !["slow"] = "poll"]
    /\ polled' = [polled EXCEPT !["slow"] = watchlist']
    /\ UNCHANGED <<book, openSwing, buying, config>>

\* The price request failed, or was not made (cooldown, empty watchlist); the
\* model suspends the loop for a moment all the same.
PollFailsSlow ==
    /\ pc["slow"] = "poll"
    /\ EvictAndScan(watchlist, fastItems, visited)
    /\ polled' = [polled EXCEPT !["slow"] = {}]
    /\ UNCHANGED <<book, lookups, config>>

PollSlow ==
    /\ pc["slow"] = "poll"
    /\ polled["slow"] \subseteq watchlist
    /\ \E fast \in Rearmed("slow", watchlist) : EvictAndScan(watchlist, fast, visited)
    /\ polled' = [polled EXCEPT !["slow"] = {}]
    /\ UNCHANGED <<book, lookups, config>>

-----------------------------------------------------------------------------
(* The fast loop.                                                          *)

StartFast ==
    /\ pc["fast"] = "idle" /\ pc["slow"] = "idle"
    /\ fastItems # {}
    /\ pc' = [pc EXCEPT !["fast"] = "poll"]
    /\ polled' = [polled EXCEPT !["fast"] = fastItems]
    /\ UNCHANGED <<watch, book, visited, openSwing, buying, tape, config>>

\* The request failed, or Jupiter's cooldown kept it from being made.
PollFailsFast ==
    /\ pc["fast"] = "poll"
    /\ Scan("fast", fastItems, visited)
    /\ polled' = [polled EXCEPT !["fast"] = {}]
    /\ UNCHANGED <<watch, book, tape, config>>

PollFast ==
    /\ pc["fast"] = "poll"
    /\ polled["fast"] \subseteq watchlist
    /\ fastItems' \in Rearmed("fast", watchlist)
    /\ Scan("fast", fastItems', visited)
    /\ polled' = [polled EXCEPT !["fast"] = {}]
    /\ UNCHANGED <<watchlist, book, tape, config>>

-----------------------------------------------------------------------------
(* Either loop.                                                            *)

\* A polled item left the watchlist during the request: its lookup yields
\* undefined, the assignment throws, and the loop's catch ends the turn.  The
\* items before it have been updated.
PollThrows(l) ==
    /\ pc[l] = "poll"
    /\ ~(polled[l] \subseteq watchlist)
    /\ fastItems' \in Rearmed(l, watchlist)
    /\ Idle(l)
    /\ polled' = [polled EXCEPT ![l] = {}]
    /\ visited' = [visited EXCEPT ![l] = {}]
    /\ UNCHANGED <<watchlist, book, tape, config>>

\* A buy came through: the position is stored, the item leaves the watchlist
\* (its listener stays), and the for-loop goes on.
Filled(l) ==
    LET m == buying[l]
        funds == IF PaperTrading THEN balance - 1 ELSE balance
        items == (IF l = "fast" THEN fastItems ELSE watchlist) \ {m}
    IN  /\ pc[l] = "buy"
        /\ positions' = [positions EXCEPT ![m] = "swing"]
        /\ lots' = [lots EXCEPT ![m] = @ + 1]
        /\ balance' = funds
        /\ watchlist' = watchlist \ {m} /\ fastItems' = fastItems \ {m}
        /\ Proceed(l, items, openSwing[l] + 1, Past({m}), funds)
        /\ UNCHANGED <<polled, sniping, tape, config>>

NotFilled(l) ==
    /\ pc[l] = "buy"
    /\ Proceed(l, IF l = "fast" THEN fastItems ELSE watchlist, openSwing[l], visited, balance)
    /\ UNCHANGED <<watch, book, polled, tape, config>>

-----------------------------------------------------------------------------
(* The surroundings.                                                       *)

\* Mutant: the listener of an earlier subscription is left running.
Replaced_Never(m) == 0
Replaced(m) == IF m \in controllers THEN 1 ELSE 0

\* subscribe() resumes with a pool, and listens in place of any earlier one.
Listen(m) ==
    /\ lookups[m] > 0
    /\ lookups' = [lookups EXCEPT ![m] = @ - 1]
    /\ listeners' = [listeners EXCEPT ![m] = @ - Replaced(m) + 1]
    /\ controllers' = controllers \cup {m}
    /\ UNCHANGED <<watch, book, loop, config>>

NoPool(m) ==
    /\ lookups[m] > 0
    /\ lookups' = [lookups EXCEPT ![m] = @ - 1]
    /\ UNCHANGED <<watch, book, loop, controllers, listeners, config>>

\* A final audit of the scanner reaches its buy: the balance is checked, and
\* the quote or the swap awaited.
SniperChecks ==
    /\ sniping < ParallelBuys /\ Affords(balance)
    /\ sniping' = sniping + 1
    /\ UNCHANGED <<watch, positions, lots, balance, loop, tape, config>>

\* The buy comes through, for some mint the scanner holds no position in, and
\* only now is the balance debited.
SniperBuys(m) ==
    /\ sniping > 0 /\ positions[m] # "sniper"
    /\ sniping' = sniping - 1
    /\ positions' = [positions EXCEPT ![m] = "sniper"]
    /\ lots' = [lots EXCEPT ![m] = @ + 1]
    /\ balance' = IF PaperTrading THEN balance - 1 ELSE balance
    /\ UNCHANGED <<watch, loop, tape, config>>

\* The quote or the swap failed.
SniperFails ==
    /\ sniping > 0
    /\ sniping' = sniping - 1
    /\ UNCHANGED <<watch, positions, lots, balance, loop, tape, config>>

\* The monitor sells out of a position, at a loss or at cost.
Exit(m) ==
    /\ positions[m] # "none"
    /\ positions' = [positions EXCEPT ![m] = "none"]
    /\ lots' = [lots EXCEPT ![m] = 0]
    /\ balance' \in IF PaperTrading THEN {balance, balance + 1} ELSE {balance}
    /\ balance' <= InitialBalance
    /\ UNCHANGED <<watch, sniping, loop, tape, config>>

Turn(l) == PollThrows(l) \/ Filled(l) \/ NotFilled(l)

Next ==
    \/ StartSlow \/ Refresh \/ PollFailsSlow \/ PollSlow
    \/ StartFast \/ PollFailsFast \/ PollFast
    \/ \E l \in Loops : Turn(l)
    \/ \E m \in Followed : Listen(m) \/ NoPool(m)
    \/ SniperChecks \/ SniperFails
    \/ \E m \in Mints : SniperBuys(m) \/ Exit(m)

Spec == Init /\ [][Next]_vars

\* Every await settles: requests and swaps carry timeouts.
FairSpec ==
    /\ Spec
    /\ WF_vars(Refresh) /\ WF_vars(PollFailsSlow \/ PollSlow)
    /\ WF_vars(Turn("slow"))

-----------------------------------------------------------------------------
(* Properties.                                                             *)

\* Alone the slow loop keeps SWING_MAX_OPEN_POSITIONS; however the two loops
\* overlap they cannot open more than twice that: neither counts the other's
\* purchases, but each counts all of its own.
OvershootBounded ==
    Cardinality(SwingPositions)
        <= MaxOpenPositions * (IF FastPolling THEN 2 ELSE 1)

\* Buyers of the paper wallet beside the first: the fast loop, and each of the
\* scanner's final audits.
OtherBuyers == (IF FastPolling THEN 1 ELSE 0) + ParallelBuys

\* Every buyer checks the paper balance, awaits its quote and then debits it
\* (buy.ts:196-205, swing-buy.ts), so several may rely on the same unit.  The
\* balance, with the purchases under way paid, is short of one entry for each
\* buyer beside the first at most, however their awaits interleave.
OverdraftBounded ==
    PaperTrading =>
        balance - Cardinality({l \in Loops : pc[l] = "buy"}) - sniping >= -OtherBuyers

\* Every running swap-log listener is the one its mint's controller aborts, so
\* that unsubscribe() and unsubscribeAll() leave nothing running, however
\* lookups, evictions and re-additions of a mint interleave.
ListenersOwned ==
    \A m \in Followed : listeners[m] = IF m \in controllers THEN 1 ELSE 0

\* The loops' own values are of their kind, and the listeners owned.
Consistent == TypeOK /\ ListenersOwned

\* The two limits that the loops keep between them.
LimitsKept == OvershootBounded /\ OverdraftBounded

\* The slow loop's turn ends, whatever its requests and purchases come to and
\* whatever the fast loop removes meanwhile; else no later turn would start.
SlowReturns == pc["slow"] # "idle" ~> pc["slow"] = "idle"

=============================================================================
