---------------------------- MODULE GeyserStream ----------------------------
(***************************************************************************)
(* One pool account on its way from the validator to the bot: the plugin's *)
(* bounded channel (lib.rs), its thread that writes frames to one client   *)
(* (sink.rs), the client that splits the bytes into frames and reconnects  *)
(* (geyser-client.ts), and the handler of the bot, which fetches the       *)
(* vaults at most once at a time (bot.ts).                                 *)
(*                                                                         *)
(* An update is the number of its write.  A frame is its head, which holds *)
(* the length, and its tail; the network splits the bytes anywhere.        *)
(***************************************************************************)
EXTENDS Naturals, Sequences

CONSTANTS
    Capacity,                        \* of the channel, 10_000 in the code
    MaxWrites, MaxBreaks             \* bounds on the writes and the broken connections

GeyserStreamAssumption == {Capacity, MaxWrites, MaxBreaks} \subseteq Nat

VARIABLES
    written,                         \* writes of the account so far
    channel,                         \* sync_channel
    wire,                            \* bytes between the two sockets
    stream,                          \* the sink's: "none", "up", or "stale" when its
                                     \*   client is gone and no write has failed yet
    client,                          \* the client's socket; "queued" until accepted,
                                     \*   "dropped" until it reads the end
    buffer,                          \* bytes not yet split into frames
    handed,                          \* history: updates given to onUpdate
    fetching,                        \* vaultFetchInFlight has the pool
    debounced,                       \* its last fetch is less than the debounce ago
    breaks, cut                      \* history: broken connections; bytes of one
                                     \*   frame were lost

connection == <<wire, stream, client, buffer>>
handler == <<handed, fetching, debounced>>
vars == <<written, channel, connection, handler, breaks, cut>>

FrameHead(w) == [of |-> w, part |-> "head"]
FrameTail(w) == [of |-> w, part |-> "tail"]
Garbled == 0                         \* an update made of two frames

Bytes == [of : 1..MaxWrites, part : {"head", "tail"}]

TypeOK ==
    /\ written \in 0..MaxWrites /\ breaks \in 0..MaxBreaks
    /\ channel \in Seq(1..MaxWrites) /\ Len(channel) <= Capacity
    /\ wire \in Seq(Bytes) /\ buffer \in Seq(Bytes)
    /\ stream \in {"none", "up", "stale"}
    /\ client \in {"down", "queued", "up", "dropped", "stopped"}
    /\ client = "up" => stream = "up"
    /\ handed \in Seq(0..MaxWrites)
    /\ fetching \in BOOLEAN /\ debounced \in BOOLEAN /\ cut \in BOOLEAN

Init ==
    /\ written = 0 /\ channel = << >> /\ wire = << >>
    /\ stream = "none" /\ client = "down" /\ buffer = << >>
    /\ handed = << >> /\ fetching = FALSE /\ debounced = FALSE
    /\ breaks = 0 /\ cut = FALSE

-----------------------------------------------------------------------------
(* The plugin.                                                             *)

\* try_send: a full channel drops the update.
Accepted(w) == IF Len(channel) >= Capacity THEN channel ELSE Append(channel, w)

UpdateAccount ==
    /\ written < MaxWrites
    /\ written' = written + 1
    /\ channel' = Accepted(written + 1)
    /\ UNCHANGED <<connection, handler, breaks, cut>>

\* write_binary takes a client that is waiting; without one the frame is lost.
Accepts == stream = "up" \/ (stream = "none" /\ client = "queued")
WriteFrame ==
    /\ channel # << >>
    /\ channel' = Tail(channel)
    /\ IF Accepts
       THEN /\ stream' = "up" /\ client' = "up"
            /\ wire' = wire \o <<FrameHead(Head(channel)), FrameTail(Head(channel))>>
       ELSE /\ stream' \in (IF stream = "stale" THEN {"stale", "none"} ELSE {stream})
            /\ UNCHANGED <<wire, client>>
    /\ UNCHANGED <<written, buffer, handler, breaks, cut>>

\* The write times out: what was written of the frame stays on the wire.
WriteFails ==
    /\ channel # << >> /\ Accepts /\ breaks < MaxBreaks
    /\ channel' = Tail(channel)
    /\ stream' = "none" /\ client' = "dropped" /\ breaks' = breaks + 1
    /\ \/ wire' = Append(wire, FrameHead(Head(channel))) /\ cut' = TRUE
       \/ UNCHANGED <<wire, cut>>
    /\ UNCHANGED <<written, buffer, handler>>

-----------------------------------------------------------------------------
(* The client.                                                             *)

\* connect(): the listener queues it until a frame is written.
Connects ==
    /\ client = "down"
    /\ client' = "queued"
    /\ UNCHANGED <<written, channel, wire, stream, buffer, handler, breaks, cut>>

\* Two pieces are a frame of the length its head says, or of two frames.
Frame(bytes) == IF bytes[2] = FrameTail(bytes[1].of) THEN bytes[1].of ELSE Garbled

\* onData: what arrived, and what is left of it after a frame.
Buffered == Append(buffer, Head(wire))
\* Mutant: the length is cut off without the four bytes it is written in.
Rest_OffByOne(bytes) == SubSeq(bytes, 2, Len(bytes))
Rest(bytes) == SubSeq(bytes, 3, Len(bytes))

\* onUpdate: a pool that was fetched just now, or is being fetched, is left.
OnUpdate(w) ==
    /\ handed' = Append(handed, w)
    /\ IF debounced \/ w = Garbled THEN UNCHANGED <<fetching, debounced>>
       ELSE debounced' = TRUE /\ fetching' = TRUE

OnData ==
    /\ client \in {"up", "dropped"} /\ wire # << >>
    /\ wire' = Tail(wire)
    /\ IF Len(Buffered) < 2
       THEN buffer' = Buffered /\ UNCHANGED handler
       ELSE buffer' = Rest(Buffered) /\ OnUpdate(Frame(Buffered))
    /\ UNCHANGED <<written, channel, stream, client, breaks, cut>>

\* The close event after the plugin left.  The buffer is kept.
ReadsEnd ==
    /\ client = "dropped" /\ wire = << >>
    /\ client' = "down"
    /\ UNCHANGED <<written, channel, wire, stream, buffer, handler, breaks, cut>>

\* The connection breaks on the client's side, with bytes under way; or stop().
Disconnects(reason) ==
    /\ client # reason /\ client # "stopped"
    /\ client' = reason /\ wire' = << >>
    /\ stream' = IF stream = "up" THEN "stale" ELSE stream
    /\ cut' = (cut \/ buffer # << >>)
    /\ UNCHANGED <<written, channel, buffer, handler>>
ClientBreaks ==
    client = "up" /\ breaks < MaxBreaks /\ breaks' = breaks + 1 /\ Disconnects("down")
Stop == Disconnects("stopped") /\ UNCHANGED breaks

-----------------------------------------------------------------------------
(* The vault fetch of the handler.                                         *)

DebounceEnds ==
    /\ debounced
    /\ debounced' = FALSE
    /\ UNCHANGED <<written, channel, connection, handed, fetching, breaks, cut>>

\* The snapshot is stored, an account is missing, or the call failed; finally
\* the entry is removed.
FetchEnds ==
    /\ fetching
    /\ fetching' = FALSE
    /\ UNCHANGED <<written, channel, connection, handed, debounced, breaks, cut>>

Next ==
    \/ UpdateAccount \/ WriteFrame \/ WriteFails
    \/ Connects \/ OnData \/ ReadsEnd \/ ClientBreaks \/ Stop
    \/ DebounceEnds \/ FetchEnds

Spec == Init /\ [][Next]_vars

-----------------------------------------------------------------------------
(* Properties.                                                             *)

\* However the bytes are split and however often the connection breaks between
\* two frames, the handler is given updates the validator wrote, each at most
\* once and in their order.
FramesIntact ==
    cut \/ \A i, j \in DOMAIN handed :
              handed[i] # Garbled /\ (i < j => handed[i] < handed[j])

\* A client that is slow, gone or stopped never stalls the validator's side,
\* and a failed fetch never keeps its pool from being fetched again.
FeedDrains ==
    /\ channel # << >> ~> channel = << >>
    /\ fetching ~> ~fetching

=============================================================================
