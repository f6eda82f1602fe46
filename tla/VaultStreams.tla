---------------------------- MODULE VaultStreams ----------------------------
(***************************************************************************)
(* The account streams of one position (bot.ts): two vaults of its pool    *)
(* and the wallet's token account.  A buy, of a new position or of more of *)
(* one that is held, subscribes; the removal of the position aborts.  The  *)
(* address of the token account is derived across an await, so its stream  *)
(* can begin after the removal.  A broken stream retries, on the endpoint  *)
(* that was current when it began; nobody fetches what was written while   *)
(* it was down.                                                            *)
(***************************************************************************)
EXTENDS Naturals, FiniteSets

CONSTANTS
    Controllers,                     \* AbortControllers of one kind in use at a time
    MaxVersion                       \* bound on the writes of the pool

VaultStreamsAssumption == MaxVersion \in Nat \ {0}

VARIABLES
    held,                            \* the position is open
    vaults,                          \* controller -> side -> its stream
    ata,                             \* controllers of a stream of the token account
    vaultOwner, ataOwner,            \* vaultSubscriptions, ataSubscriptions, as sets
    deriving,                        \* subscribeToVaultBalances calls in the await
    pool,                            \* version of the reserves on the chain
    due,                             \* side -> writes its stream has yet to bring
    cache,                           \* vaultBalanceCache: side -> version, 0 if not set
    reading,                         \* version a quote in flight read, 0 if none
    raced                            \* history: a derivation was overtaken by a
                                     \*   removal, or by another one

vars == <<held, vaults, ata, vaultOwner, ataOwner, deriving, pool, due, cache, reading, raced>>

NoStream == "none"
Phases == {NoStream, "connecting", "live", "sleeping"}
Sides == {"base", "quote"}
Both(phase) == [side \in Sides |-> phase]

TypeOK ==
    /\ held \in BOOLEAN /\ raced \in BOOLEAN
    /\ vaults \in [Controllers -> [Sides -> Phases]] /\ ata \subseteq Controllers
    /\ vaultOwner \in {{}} \cup {{c} : c \in Controllers}
    /\ ataOwner \in {{}} \cup {{c} : c \in Controllers}
    /\ deriving \in 0..2 /\ pool \in 0..MaxVersion
    /\ due \in [Sides -> SUBSET (0..MaxVersion)]
    /\ cache \in [Sides -> 0..MaxVersion] /\ reading \in 0..MaxVersion

Init ==
    /\ held = FALSE
    /\ vaults = [c \in Controllers |-> Both(NoStream)] /\ vaultOwner = {}
    /\ ata = {} /\ ataOwner = {}
    /\ deriving = 0 /\ raced = FALSE
    /\ pool = 1 /\ due = [s \in Sides |-> {}]
    /\ cache = [s \in Sides |-> 0] /\ reading = 0

Live(side) == \E c \in Controllers : vaults[c][side] = "live"

\* What a stream had yet to bring is lost with it.
KeepDue == due' = [s \in Sides |-> IF Live(s)' THEN due[s] ELSE {}]

\* unsubscribeFromVaultBalances
Unsubscribed ==
    [c \in Controllers |-> IF c \in vaultOwner THEN Both(NoStream) ELSE vaults[c]]

\* A buy saves the position and subscribes; a pool that is not cached ends it.
Buy ==
    /\ deriving < 2
    /\ held' = TRUE
    /\ \/ \E c \in Controllers :
             /\ Unsubscribed[c] = Both(NoStream)
             /\ vaults' = [Unsubscribed EXCEPT ![c] = Both("connecting")]
             /\ vaultOwner' = {c}
             /\ deriving' = deriving + 1
             /\ raced' = (raced \/ deriving > 0 \/ ataOwner # {})
       \/ vaults' = Unsubscribed /\ vaultOwner' = {} /\ UNCHANGED <<deriving, raced>>
    /\ KeepDue
    /\ UNCHANGED <<ata, ataOwner, pool, cache, reading>>

\* The address is known: nobody looks whether the position still exists, or
\* whether another stream is registered.
Derived ==
    /\ deriving > 0
    /\ deriving' = deriving - 1
    /\ \E c \in Controllers :
          /\ c \notin ata
          /\ ata' = ata \cup {c} /\ ataOwner' = {c}
    /\ UNCHANGED <<held, vaults, vaultOwner, pool, due, cache, reading, raced>>

\* Mutant: the listener leaves the vault streams to their next failure.
RemovedVaults_Kept == vaults
RemovedVaults == Unsubscribed

\* The positionRemoved listener of the constructor.
Remove ==
    /\ held
    /\ held' = FALSE
    /\ vaults' = RemovedVaults /\ vaultOwner' = {}
    /\ ata' = ata \ ataOwner /\ ataOwner' = {}
    /\ raced' = (raced \/ deriving > 0)
    /\ KeepDue
    /\ UNCHANGED <<deriving, pool, cache, reading>>

\* A stream: handshake, break or handshake timeout, and the retry.
Moves(c, side, from, to) ==
    /\ vaults[c][side] = from
    /\ vaults' = [vaults EXCEPT ![c][side] = to]
    /\ KeepDue
    /\ UNCHANGED <<held, ata, vaultOwner, ataOwner, deriving, pool, cache, reading, raced>>
Connects(c, side) == Moves(c, side, "connecting", "live")
Breaks(c, side) == \E from \in {"connecting", "live"} : Moves(c, side, from, "sleeping")
\* Mutant: a stream that broke is not opened again.
Retries_Never(c, side) == FALSE
Retries(c, side) == Moves(c, side, "sleeping", "connecting")

streams == <<held, vaults, ata, vaultOwner, ataOwner, deriving, raced>>

\* A swap writes both vaults; the streams that are up, and only they, see it.
PoolWrite ==
    /\ pool < MaxVersion
    /\ pool' = pool + 1
    /\ due' = [s \in Sides |-> IF Live(s) THEN due[s] \cup {pool'} ELSE due[s]]
    /\ UNCHANGED <<streams, cache, reading>>

\* Mutant: a side that is set is left as it is.
Pushed_Once(side, v) == IF cache[side] = 0 THEN [cache EXCEPT ![side] = v] ELSE cache
Pushed(side, v) == [cache EXCEPT ![side] = v]

\* A live stream brings the next write it saw, whatever the cache holds.
Push(side) ==
    /\ Live(side)
    /\ \E v \in due[side] :
          /\ \A w \in due[side] : v <= w
          /\ cache' = Pushed(side, v)
          /\ due' = [due EXCEPT ![side] = @ \ {v}]
    /\ UNCHANGED <<streams, pool, reading>>

\* A quote that finds a side not set reads both accounts (one such quote is in
\* flight at a time), and stores what it read over what came meanwhile.
QuoteReads ==
    /\ reading = 0 /\ \E side \in Sides : cache[side] = 0
    /\ reading' = pool
    /\ UNCHANGED <<streams, pool, due, cache>>

QuoteStores ==
    /\ reading # 0
    /\ reading' = 0
    /\ cache' = [s \in Sides |-> reading]
    /\ UNCHANGED <<streams, pool, due>>

QuoteFails ==
    /\ reading # 0
    /\ reading' = 0
    /\ UNCHANGED <<streams, pool, due, cache>>

Next ==
    \/ Buy \/ Derived \/ Remove \/ PoolWrite
    \/ QuoteReads \/ QuoteStores \/ QuoteFails
    \/ \E c \in Controllers, side \in Sides :
          Connects(c, side) \/ Breaks(c, side) \/ Retries(c, side)
    \/ \E side \in Sides : Push(side)

Spec == Init /\ [][Next]_vars

-----------------------------------------------------------------------------
(* Properties.                                                             *)

\* Vault streams are those of the one registered controller of an open
\* position, whatever was bought again, sold and bought meanwhile; so is the
\* stream of the token account unless its derivation was overtaken.
StreamsOfHeld ==
    /\ \A c \in Controllers : vaults[c] # Both(NoStream) => held /\ vaultOwner = {c}
    /\ \A c \in Controllers :
          c \in ata => raced \/ (held /\ ataOwner = {c})

\* While a position keeps its streams, each is up again and again; and as long
\* as it stays up, the cached reserves catch up with every write it saw.  What
\* was written while it was down stays out of the cache until the next write.
ReservesCatchUp ==
    \A side \in Sides :
        /\ vaultOwner # {} ~> vaultOwner = {} \/ Live(side)
        /\ \A v \in 2..MaxVersion : v \in due[side] ~> cache[side] >= v \/ ~Live(side)

=============================================================================
