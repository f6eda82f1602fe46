--------------------------- MODULE Subscriptions ---------------------------
(***************************************************************************)
(* The log subscriptions of DiscoveryService: one stream per program and   *)
(* the slot heartbeat.  A call of subscribe() lives as long as its stream; *)
(* a new call aborts the one before it, a broken one retries, three        *)
(* failures in a row or a stale heartbeat rotate the endpoint and restart  *)
(* every stream, and a watchdog restarts a stream that went quiet.         *)
(*                                                                         *)
(* Time is left out: a stale stream is one that is silent, or happens to   *)
(* be quiet, when the watchdog looks.                                      *)
(***************************************************************************)
EXTENDS Naturals, FiniteSets

CONSTANTS
    Programs,
    Heartbeat,                       \* the stream of subscribeGlobalHeartbeat
    Slots,                           \* bound on the calls of one stream under way
    Endpoints,                       \* rpcSubscriptionPool is 0..Endpoints - 1
    Usable                           \* endpoints that answer a handshake

SubscriptionsAssumption ==
    /\ Heartbeat \notin Programs /\ Slots # {}
    /\ Endpoints \in Nat \ {0} /\ Usable \subseteq 0..(Endpoints - 1)

Streams == Programs \cup {Heartbeat}
FailureLimit == 3

VARIABLES
    call,                            \* stream -> slot -> call of subscribe()
    current,                         \* subscriptionControllers: the call that owns
                                     \*   the controller, or {} after stop()
    marked,                          \* restartingPrograms
    failures,                        \* wsConsecutiveFailures
    rpc,                             \* currentRpcSubIndex
    started                          \* FALSE after stop()

vars == <<call, current, marked, failures, rpc, started>>

NoCall == [phase |-> "none", at |-> 0, aborted |-> FALSE, watched |-> FALSE]

TypeOK ==
    /\ call \in [Streams -> [Slots ->
          [phase : {"none", "connecting", "live", "silent", "sleeping", "ending"},
           at : 0..(Endpoints - 1), aborted : BOOLEAN, watched : BOOLEAN]]]
    /\ current \in [Streams -> {{}} \cup {{c} : c \in Slots}]
    /\ failures \in 0..(FailureLimit - 1) /\ rpc \in 0..(Endpoints - 1)
    /\ started \in BOOLEAN
    /\ marked = {p \in Programs : \E c \in Slots : call[p][c].watched}

-----------------------------------------------------------------------------
(* A call begins and ends.                                                 *)

Free(calls, s) == {c \in Slots : calls[s][c].phase = "none"}

\* The signal ends the call at once, unless it sleeps before a retry; the return
\* of a call the watchdog waits for is a step of its own.
Aborted(sub) ==
    IF sub.phase = "sleeping" \/ sub.watched
    THEN [phase |-> IF sub.phase = "sleeping" THEN "sleeping" ELSE "ending",
          at |-> 0, aborted |-> TRUE, watched |-> sub.watched]
    ELSE NoCall

\* The head of subscribe(): the stream's owner is aborted, a new call owns it.
Opened(calls, s, endpoint, watched) ==
    [c \in Slots |->
        IF c = CHOOSE f \in Free(calls, s) : TRUE
        THEN [phase |-> "connecting", at |-> endpoint, aborted |-> FALSE,
              watched |-> watched]
        ELSE IF c \in current[s] THEN Aborted(calls[s][c]) ELSE calls[s][c]]
Owner(calls, s) == {CHOOSE f \in Free(calls, s) : TRUE}

Owns(s, c) == current[s] = {c}
Rotated == (rpc + 1) % Endpoints     \* rotateRpcSubscriptions

\* restartAllSubscriptions, on the endpoint the rotation chose
Restarted == Streams

RestartAll(calls) ==
    /\ \A s \in Restarted : Free(calls, s) # {}
    /\ rpc' = Rotated
    /\ call' = [s \in Streams |->
                   IF s \in Restarted THEN Opened(calls, s, Rotated, FALSE) ELSE calls[s]]
    /\ current' = [s \in Streams |->
                      IF s \in Restarted THEN Owner(calls, s) ELSE current[s]]

Marks(calls) == {p \in Programs : \E c \in Slots : calls[p][c].watched}

Init ==
    /\ current = [s \in Streams |-> {CHOOSE c \in Slots : TRUE}]
    /\ call = [s \in Streams |-> [c \in Slots |->
                  IF c \in current[s] THEN [NoCall EXCEPT !.phase = "connecting"] ELSE NoCall]]
    /\ marked = {} /\ failures = 0 /\ rpc = 0 /\ started = TRUE

\* The handshake succeeds.
Handshake(s, c) ==
    /\ call[s][c].phase = "connecting" /\ ~call[s][c].aborted
    /\ call[s][c].at \in Usable
    /\ call' = [call EXCEPT ![s][c].phase = "live"]
    /\ failures' = IF s = Heartbeat THEN failures ELSE 0
    /\ UNCHANGED <<current, marked, rpc, started>>

\* The server stops sending without closing.
Silences(s, c) ==
    /\ call[s][c].phase = "live" /\ ~call[s][c].aborted
    /\ call' = [call EXCEPT ![s][c].phase = "silent"]
    /\ UNCHANGED <<current, marked, failures, rpc, started>>

\* Mutant: a failure is counted from the last restart of its own stream.
Counted_Alone == 1
Counted == failures + 1

\* The handshake times out, or the stream breaks, and the call still owns it.
Fails(s, c) ==
    /\ call[s][c].phase \in {"connecting", "live", "silent"} /\ Owns(s, c)
    /\ call[s][c].phase = "connecting" => call[s][c].at \notin Usable
    /\ IF s # Heartbeat /\ Counted >= FailureLimit
       THEN LET returned == [call EXCEPT ![s][c] = NoCall]
            IN  RestartAll(returned) /\ failures' = 0 /\ marked' = Marks(returned)
       ELSE /\ call' = [call EXCEPT ![s][c].phase = "sleeping"]
            /\ failures' = IF s = Heartbeat THEN failures ELSE Counted
            /\ UNCHANGED <<current, rpc, marked>>
    /\ UNCHANGED started

\* Mutant: the retry does not look whether it is still wanted.
Wanted_Always(s, c) == TRUE
Wanted(s, c) == Owns(s, c)

\* The pause of a retry is over: subscribe() again, in the same chain.
Retries(s, c) ==
    /\ call[s][c].phase = "sleeping" /\ Wanted(s, c)
    /\ call' = [call EXCEPT ![s][c].phase = "connecting", ![s][c].at = rpc,
                            ![s][c].aborted = FALSE]
    /\ current' = [current EXCEPT ![s] = {c}]
    /\ UNCHANGED <<marked, failures, rpc, started>>

\* A call that lost its stream returns; its chain may be the watchdog's.
Returns(s, c) ==
    /\ call[s][c].phase # "none" /\ ~Owns(s, c)
    /\ call' = [call EXCEPT ![s][c] = NoCall]
    /\ marked' = Marks(call')
    /\ UNCHANGED <<current, failures, rpc, started>>

-----------------------------------------------------------------------------
(* The watchdog.                                                           *)

Phase(s) == IF current[s] = {} THEN "none" ELSE call[s][CHOOSE c \in current[s] : TRUE].phase

\* The heartbeat is stale.
WatchdogRotates ==
    /\ started /\ Phase(Heartbeat) = "silent"
    /\ RestartAll(call)
    /\ UNCHANGED <<marked, failures, started>>

\* A program is stale: it may be silent, or have had nothing to say.
WatchdogRestarts(p) ==
    /\ started /\ Phase(p) \in {"live", "silent"} /\ p \notin marked
    /\ Free(call, p) # {}
    /\ call' = [call EXCEPT ![p] = Opened(call, p, rpc, TRUE)]
    /\ current' = [current EXCEPT ![p] = Owner(call, p)]
    /\ marked' = marked \cup {p}
    /\ UNCHANGED <<failures, rpc, started>>

Stop ==
    /\ started
    /\ started' = FALSE
    /\ call' = [s \in Streams |-> [c \in Slots |->
                   IF c \in current[s] THEN Aborted(call[s][c]) ELSE call[s][c]]]
    /\ current' = [s \in Streams |-> {}]
    /\ UNCHANGED <<marked, failures, rpc>>

Next ==
    \/ \E s \in Streams, c \in Slots :
          Handshake(s, c) \/ Silences(s, c) \/ Fails(s, c) \/ Retries(s, c) \/ Returns(s, c)
    \/ \E p \in Programs : WatchdogRestarts(p)
    \/ WatchdogRotates \/ Stop

Spec == Init /\ [][Next]_vars


-----------------------------------------------------------------------------
(* Properties.                                                             *)

\* A call that is not aborted owns its stream, of a service that is started,
\* on the endpoint of the last rotation: no stream is left behind by a
\* rotation, doubled by a restart, or revived after stop().
StreamsOwned ==
    \A s \in Streams, c \in Slots :
        call[s][c].phase # "none" /\ ~call[s][c].aborted =>
            started /\ Owns(s, c) /\ call[s][c].at = rpc

\* Whatever breaks, each program is subscribed again and again as long as one
\* endpoint is usable; except a stream that went silent once more after the
\* watchdog had restarted it, which stays marked as restarting.
Resubscribed ==
    \A p \in Programs :
        []<>(Phase(p) = "live" \/ ~started \/ (Phase(p) = "silent" /\ p \in marked))

=============================================================================
