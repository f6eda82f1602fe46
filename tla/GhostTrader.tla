----------------------------- MODULE GhostTrader -----------------------------
(***************************************************************************)
(* ml/ghost-trader.ts: paper positions in the candidates that passed the   *)
(* rules, whatever the model said of them, whose ends are what the model   *)
(* and the tuners learn from.  Prices are small numbers; fractions and     *)
(* multiples are percentages.                                              *)
(***************************************************************************)
EXTENDS Integers, Sequences, FiniteSets, SequencesExt

CONSTANTS
    Coins,
    MaxPrice, EntryPrices,           \* prices are 1..MaxPrice, 0 is none; those candidates come at
    Scores,                          \* what a candidate may score
    MinGhostScore,                   \* this.minScore
    QueueCap,                        \* CANDIDATE_QUEUE_CAP
    MaxPositions, MaxHold, StaleGrace,  \* GHOST_MAX_POSITIONS; the times in ticks
    StopLoss, Trail,                 \* stopLossPct, trailingStopDrawdownPct
    Ladders                          \* values of takeProfitMultiples, which the optimizers retune

\* A ladder has at least one rung; nothing bounds or orders them (config.ts:704-710).
GhostAssumption ==
    /\ MaxPrice \in Nat \ {0} /\ EntryPrices \subseteq 0..MaxPrice
    /\ {QueueCap, MaxPositions, MaxHold} \subseteq Nat
    /\ \A l \in Ladders : l \in Seq(Nat) /\ Len(l) >= 1

VARIABLES
    queue,                           \* candidateQueue
    ghosts,                          \* open ghosts: coin -> what is known of it
    tps,                             \* config.takeProfitMultiples
    closed,                          \* the samples of the last tick
    beat                             \* turns with every tick

vars == <<queue, ghosts, tps, closed, beat>>

Candidate == [coin : Coins, price : 0..MaxPrice, score : Scores]
Reasons == {"max-hold", "stale", "stop-loss", "take-profit", "trailing-stop"}
\* at and under are what the properties speak of: the ladder in force when the
\* peak was last raised, and those in force at the ticks of the ghost.
Ghost == [entry : 1..MaxPrice, high : 1..MaxPrice, hits : Nat, age : 0..MaxHold,
          at : Ladders \cup {<<>>}, under : SUBSET Ladders]

TypeOK ==
    /\ queue \in Seq(Candidate) /\ Len(queue) <= QueueCap
    /\ DOMAIN ghosts \subseteq Coins /\ \A c \in DOMAIN ghosts : ghosts[c] \in Ghost
    /\ Cardinality(DOMAIN ghosts) <= MaxPositions
    /\ tps \in Ladders
    /\ beat \in BOOLEAN /\ closed \subseteq [coin : Coins, reason : Reasons, win : BOOLEAN]

Init ==
    /\ queue = <<>> /\ ghosts = [c \in {} |-> 0]
    /\ tps \in Ladders
    /\ closed = {} /\ beat = FALSE

-----------------------------------------------------------------------------
(* One open ghost.                                                         *)

\* At or above that percentage of the entry.
Reaches(price, g, pct) == 100 * price >= g.entry * pct

\* From the rungs hit so far on, those the price reaches: up to the first it does not.
Stops(g, price, l) == {n \in g.hits..Len(l) : n = Len(l) \/ ~Reaches(price, g, l[n + 1])}
First(S) == CHOOSE n \in S : \A m \in S : n <= m
AdvanceTpLadder_Single(g, price, l) ==  \* mutant: one rung a tick
    IF g.hits < Len(l) /\ Reaches(price, g, l[g.hits + 1]) THEN g.hits + 1 ELSE g.hits
AdvanceTpLadder(g, price, l) == IF g.hits >= Len(l) THEN g.hits ELSE First(Stops(g, price, l))

\* The price moves the peak and climbs the ladder.
Seen(g, price, l) ==
    IF price = 0 THEN g
    ELSE [g EXCEPT !.high = IF price > g.high THEN price ELSE @,
                   !.at = IF price > g.high THEN l ELSE @,
                   !.hits = AdvanceTpLadder(g, price, l),
                   !.under = @ \cup {l}]

\* Armed by the first rung, or by a peak half-way to it.
TrailArmed(g, l) == g.hits > 0 \/ 200 * g.high >= g.entry * (100 + l[1])

CheckExit(g, price, l) ==
    CASE g.age >= MaxHold -> "max-hold"
      [] g.age < MaxHold /\ price = 0 -> IF g.age > StaleGrace THEN "stale" ELSE "none"
      [] g.age < MaxHold /\ price > 0 ->
           IF 100 * price <= g.entry * (100 - StopLoss) THEN "stop-loss"
           ELSE IF g.hits > 0 /\ g.hits >= Len(l) THEN "take-profit"
           ELSE IF TrailArmed(g, l) /\ 100 * price <= g.high * (100 - Trail) THEN "trailing-stop"
           ELSE "none"

\* The sign of the profit: each rung hit sold an equal part, at the multiple
\* configured for it now.  A ghost without a price leaves at its entry.
ProfitOf(g, price, l) ==
    LET sold == IF g.hits < Len(l) THEN g.hits ELSE Len(l)
        gained == FoldLeft(LAMBDA sum, pct : sum + pct - 100, 0, SubSeq(l, 1, sold))
        last == IF price = 0 THEN g.entry ELSE price
    IN g.entry * gained + (Len(l) - sold) * 100 * (last - g.entry)

CloseGhost(c, g, price, l, reason) ==
    [coin |-> c, reason |-> reason,
     win |-> reason \in {"take-profit", "trailing-stop"} /\ ProfitOf(g, price, l) > 0]

-----------------------------------------------------------------------------
(* Actions.                                                                *)

\* notifyCandidate: the price is the one the candidate was judged at.
NotifyCandidate ==
    \E c \in Coins, p \in EntryPrices, s \in {x \in Scores : x >= MinGhostScore} :
        LET longer == Append(queue, [coin |-> c, price |-> p, score |-> s]) IN
        /\ queue' = IF Len(longer) > QueueCap THEN Tail(longer) ELSE longer
        /\ UNCHANGED <<ghosts, tps, closed, beat>>

Openable(i, open) == queue[i].coin \notin open /\ queue[i].price > 0
Better(i, j) == queue[i].score > queue[j].score \/ (queue[i].score = queue[j].score /\ i > j)
Picks(open) ==
    IF Cardinality(open) >= MaxPositions THEN {}
    ELSE {i \in DOMAIN queue : /\ Openable(i, open)
                               /\ \A j \in DOMAIN queue \ {i} : Openable(j, open) => Better(i, j)}
Opened(i) == [entry |-> queue[i].price, high |-> queue[i].price, hits |-> 0, age |-> 0,
              at |-> <<>>, under |-> {}]
Without(i) == [j \in 1..(Len(queue) - 1) |-> IF j < i THEN queue[j] ELSE queue[j + 1]]

\* _tick: one after another the ghosts see the prices of their snapshots and may
\* close, then one candidate is opened.  A close with a rung hit calls the
\* optimizer, and the ghosts after it see the ladder that leaves.
Older(g) == [g EXCEPT !.age = IF @ < MaxHold THEN @ + 1 ELSE @]
TickAt(prices, seen) ==
    LET after == [c \in DOMAIN ghosts |-> Seen(Older(ghosts[c]), prices[c], seen[c])]
        reason == [c \in DOMAIN ghosts |-> CheckExit(after[c], prices[c], seen[c])]
        kept == {c \in DOMAIN ghosts : reason[c] = "none"}
        tuning == {c \in DOMAIN ghosts \ kept : after[c].hits > 0}
        picks == Picks(kept)
    IN /\ \/ \A c \in DOMAIN ghosts : seen[c] = tps
          \/ \E c \in tuning : seen[c] = tps
       /\ tps' \in IF tuning = {} THEN {tps} ELSE Ladders
       /\ closed' = {CloseGhost(c, after[c], prices[c], seen[c], reason[c]) :
                        c \in DOMAIN ghosts \ kept}
       /\ \/ /\ picks = {}
             /\ ghosts' = [c \in kept |-> after[c]]
             /\ UNCHANGED queue
          \/ \E i \in picks :
               /\ ghosts' = [c \in kept \cup {queue[i].coin} |->
                                IF c = queue[i].coin THEN Opened(i) ELSE after[c]]
               /\ queue' = Without(i)
       /\ beat' = ~beat
Tick ==
    \E prices \in [DOMAIN ghosts -> 0..MaxPrice], seen \in [DOMAIN ghosts -> Ladders] :
        TickAt(prices, seen)

\* The optimizers, called by a retraining or by the close of a real position.
Retune == \E l \in Ladders \ {tps} : tps' = l /\ UNCHANGED <<queue, ghosts, closed, beat>>

Next == NotifyCandidate \/ Tick \/ Retune

\* setInterval: the tick comes again and again.
Ticks == beat' = ~beat
Fairness == WF_beat(Ticks)
Spec == Init /\ [][Next]_vars
FairSpec == Spec /\ Fairness

-----------------------------------------------------------------------------
(* Properties.                                                             *)

\* An open ghost has been credited with every rung below the first its peak did
\* not reach, on the ladder in force when the peak was set: a jump over several
\* rungs counts them all.  And with no rung but where a ladder in force at one of
\* its ticks had it, and its peak reached it (_advanceTpLadder).
Credited(g) ==
    /\ \A n \in DOMAIN g.at : (\A i \in 1..n : Reaches(g.high, g, g.at[i])) => n <= g.hits
    /\ \A i \in 1..g.hits : \E l \in g.under : i <= Len(l) /\ Reaches(g.high, g, l[i])
PeakCredited == \A c \in DOMAIN ghosts : Credited(ghosts[c])

\* Every ghost ends, priced or not, and becomes a sample (max-hold, stale).
GhostsEnd == \A c \in Coins : c \in DOMAIN ghosts ~> \E s \in closed : s.coin = c

=============================================================================
