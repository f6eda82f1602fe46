------------------------------ MODULE MCFeeds ------------------------------
(***************************************************************************)
(* The feeds of the bot side by side.  They share no state, so a behaviour *)
(* exercises one of them and leaves the others where they began.           *)
(***************************************************************************)
EXTENDS Naturals, Sequences, FiniteSets

CONSTANTS Programs, Heartbeat, Slots, Endpoints, Usable,
          Sockets, Controllers, MaxVersion, Capacity, MaxWrites, MaxBreaks

VARIABLES
    call, current, marked, failures, rpc, started,
    socket, owned, timer, gone, refused,
    held, vaults, ata, vaultOwner, ataOwner, deriving, pool, due, cache, reading, raced,
    written, channel, wire, stream, client, buffer, handed, fetching, debounced, breaks, cut,
    feed                             \* the feed exercised

Logs == INSTANCE Subscriptions
Clients == INSTANCE Reconnecting
Vaults == INSTANCE VaultStreams
Geyser == INSTANCE GeyserStream

ASSUME FeedsAssumption ==
    /\ Logs!SubscriptionsAssumption /\ Clients!ReconnectingAssumption
    /\ Vaults!VaultStreamsAssumption /\ Geyser!GeyserStreamAssumption

logs == <<call, current, marked, failures, rpc, started>>
clients == <<socket, owned, timer, gone, refused>>
vaultsVars == <<held, vaults, ata, vaultOwner, ataOwner, deriving, pool, due, cache, reading,
                raced>>
geyser == <<written, channel, wire, stream, client, buffer, handed, fetching, debounced,
            breaks, cut>>
vars == <<feed, logs, clients, vaultsVars, geyser>>

Init ==
    /\ feed \in {"logs", "sockets", "vaults", "geyser"}
    /\ Logs!Init /\ Clients!Init /\ Vaults!Init /\ Geyser!Init

LogsStep == feed = "logs" /\ Logs!Next
            /\ UNCHANGED <<feed, clients, vaultsVars, geyser>>
SocketsStep == feed = "sockets" /\ Clients!Next
               /\ UNCHANGED <<feed, logs, vaultsVars, geyser>>
VaultsStep == feed = "vaults" /\ Vaults!Next
              /\ UNCHANGED <<feed, logs, clients, geyser>>
GeyserStep == feed = "geyser" /\ Geyser!Next
              /\ UNCHANGED <<feed, logs, clients, vaultsVars>>

Next == LogsStep \/ SocketsStep \/ VaultsStep \/ GeyserStep

-----------------------------------------------------------------------------
(* Fairness.                                                               *)

\* Timers fire, an aborted call returns.  A usable endpoint answers within a
\* handshake's time, which is shorter than the staleness that could interrupt
\* it again and again: strong fairness.
LogsFairness ==
    /\ \A s \in Logs!Streams :
          /\ SF_logs(feed = "logs" /\ \E c \in Slots : Logs!Handshake(s, c))
          /\ WF_logs(feed = "logs" /\ \E c \in Slots :
                       call[s][c].phase = "connecting" /\ Logs!Fails(s, c))
          /\ WF_logs(feed = "logs" /\ \E c \in Slots : Logs!Retries(s, c) \/ Logs!Returns(s, c))
    /\ \A p \in Programs :
          WF_logs(feed = "logs" /\ Logs!Phase(p) = "silent" /\ Logs!WatchdogRestarts(p))
    /\ WF_logs(feed = "logs" /\ Logs!WatchdogRotates)

\* A close event comes and a timer fires.  A connection is refused for a while,
\* never for ever.
ClientsFairness ==
    \A c \in Clients!Clients :
        /\ WF_clients(feed = "sockets" /\ Clients!TimerFires(c))
        /\ WF_clients(feed = "sockets" /\ \E s \in Sockets : Clients!CloseEvent(c, s))
        /\ SF_clients(feed = "sockets" /\ \E s \in Sockets : Clients!Opens(c, s))

\* The derivation ends and a sleep is over; the endpoint is usable, so that a
\* handshake does not fail for ever; a stream that stays up brings what it saw.
VaultsFairness ==
    /\ WF_vaultsVars(feed = "vaults" /\ Vaults!Derived)
    /\ \A side \in Vaults!Sides :
          /\ WF_vaultsVars(feed = "vaults" /\ \E c \in Controllers : Vaults!Retries(c, side))
          /\ SF_vaultsVars(feed = "vaults" /\ \E c \in Controllers : Vaults!Connects(c, side))
          /\ WF_vaultsVars(feed = "vaults" /\ Vaults!Push(side))

\* The plugin's thread never waits for a client longer than its write timeout;
\* the RPC call has a timeout.
GeyserFairness ==
    /\ WF_geyser(feed = "geyser" /\ (Geyser!WriteFrame \/ Geyser!WriteFails))
    /\ WF_geyser(feed = "geyser" /\ (Geyser!OnData \/ Geyser!ReadsEnd \/ Geyser!Connects))
    /\ WF_geyser(feed = "geyser" /\ Geyser!DebounceEnds)
    /\ WF_geyser(feed = "geyser" /\ Geyser!FetchEnds)

Spec ==
    /\ Init /\ [][Next]_vars
    /\ LogsFairness /\ ClientsFairness /\ VaultsFairness /\ GeyserFairness

-----------------------------------------------------------------------------
(* Properties.                                                             *)

\* Nothing is left behind: every stream and socket that is not aborted is the
\* one its owner holds, however restarts, rotations, retries, removals of
\* positions and stops cross.
FeedsOwned ==
    /\ Logs!TypeOK /\ Clients!TypeOK /\ Vaults!TypeOK /\ Geyser!TypeOK
    /\ Logs!StreamsOwned /\ Clients!OneSocket /\ Vaults!StreamsOfHeld

\* The bot is given what the validator wrote, once and in order.
FramesIntact == Geyser!FramesIntact

\* Every feed comes back: the subscriptions, the sockets, the cached reserves
\* and the fetches of the pools.
FeedsRecover ==
    /\ feed = "logs" => Logs!Resubscribed
    /\ feed = "sockets" => Clients!Reconnects
    /\ feed = "vaults" => Vaults!ReservesCatchUp
    /\ feed = "geyser" => Geyser!FeedDrains

=============================================================================
