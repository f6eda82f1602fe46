---------------------------- MODULE Reconnecting ----------------------------
(***************************************************************************)
(* Two clients that keep one WebSocket open by reconnecting from its close *)
(* event: the Helius transaction stream of DiscoveryService, and the       *)
(* dashboard's hook (useEngineWs.ts).  A close() is answered by the event  *)
(* later.  The dashboard looks whether it was unmounted; Helius does not.  *)
(***************************************************************************)
EXTENDS Naturals, FiniteSets

CONSTANT Sockets                     \* bound on the sockets of one client at a time

ReconnectingAssumption == Sockets # {}

Helius == "helius"
Website == "website"
Clients == {Helius, Website}

VARIABLES
    socket,                          \* client -> socket -> its state
    owned,                           \* heliusWs, wsRef: the socket held, as a set
    timer,                           \* clients with a reconnect timer armed
    gone,                            \* clients that were stopped or unmounted
    refused                          \* authFailed

vars == <<socket, owned, timer, gone, refused>>

TypeOK ==
    /\ socket \in [Clients -> [Sockets -> {"free", "connecting", "open", "closing"}]]
    /\ owned \in [Clients -> {{}} \cup {{s} : s \in Sockets}]
    /\ timer \subseteq Clients /\ gone \subseteq Clients /\ refused \in BOOLEAN

Live(c) == {s \in Sockets : socket[c][s] \in {"connecting", "open"}}

\* connect() of the hook; startHeliusSubscription, which closes what it holds.
Closed(sockets, c) ==
    [s \in Sockets |-> IF s \in owned[c] /\ sockets[s] \in {"connecting", "open"}
                       THEN "closing" ELSE sockets[s]]
Connect(c, sockets) ==
    \E s \in Sockets :
        /\ sockets[s] = "free"
        /\ socket' = [socket EXCEPT ![c] =
              [(IF c = Helius THEN Closed(sockets, c) ELSE sockets) EXCEPT ![s] = "connecting"]]
        /\ owned' = [owned EXCEPT ![c] = {s}]

Init ==
    LET first == CHOOSE s \in Sockets : TRUE IN
        /\ socket = [c \in Clients |-> [s \in Sockets |->
                        IF s = first THEN "connecting" ELSE "free"]]
        /\ owned = [c \in Clients |-> {first}]
        /\ timer = {} /\ gone = {} /\ refused = FALSE

Opens(c, s) ==
    /\ socket[c][s] = "connecting"
    /\ socket' = [socket EXCEPT ![c][s] = "open"]
    /\ refused' = IF c = Website THEN FALSE ELSE refused
    /\ UNCHANGED <<owned, timer, gone>>

\* Refused, timed out (Helius closes it itself), or broken.
Breaks(c, s) ==
    /\ s \in Live(c)
    /\ socket' = [socket EXCEPT ![c][s] = "closing"]
    /\ UNCHANGED <<owned, timer, gone, refused>>

\* Mutant: the hook reconnects without looking.
Wants_Always(c) == TRUE
Wants(c) == c = Helius \/ c \notin gone

\* The close event; code 1008 says that the bot rejected the token.
CloseEvent(c, s) ==
    /\ socket[c][s] = "closing"
    /\ socket' = [socket EXCEPT ![c][s] = "free"]
    /\ timer' = IF Wants(c) THEN timer \cup {c} ELSE timer
    /\ \E rejected \in {FALSE} \cup (IF c = Website THEN {TRUE} ELSE {}) :
          refused' = (refused \/ rejected)
    /\ UNCHANGED <<owned, gone>>

TimerFires(c) ==
    /\ c \in timer
    /\ timer' = timer \ {c}
    /\ Connect(c, socket[c])
    /\ UNCHANGED <<gone, refused>>

\* DiscoveryService.stop, or the cleanup of the effect.
Leave(c) ==
    /\ c \notin gone
    /\ gone' = gone \cup {c}
    /\ timer' = timer \ {c}
    /\ socket' = [socket EXCEPT ![c] = Closed(socket[c], c)]
    /\ owned' = IF c = Helius THEN [owned EXCEPT ![c] = {}] ELSE owned
    /\ UNCHANGED refused

Next == \E c \in Clients :
          \/ \E s \in Sockets : Opens(c, s) \/ Breaks(c, s) \/ CloseEvent(c, s)
          \/ TimerFires(c) \/ Leave(c)

Spec == Init /\ [][Next]_vars

-----------------------------------------------------------------------------
(* Properties.                                                             *)

\* No reconnect, of a stream that was stopped meanwhile included, leaves a
\* client with two sockets, and an unmounted dashboard opens none.
OneSocket ==
    /\ \A c \in Clients : Cardinality(Live(c)) <= 1
    /\ Website \in gone => Live(Website) = {}

\* A client that is wanted has an open socket again and again.
Reconnects ==
    \A c \in Clients : []<>(c \in gone \/ \E s \in Sockets : socket[c][s] = "open")

=============================================================================
