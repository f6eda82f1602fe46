----------------------------- MODULE Discovery -----------------------------
(***************************************************************************)
(* From a program log to a scan.  The sockets put mints, or signatures of  *)
(* transactions that create one, into two maps (discovery.service.ts); a   *)
(* debounce timer flushes the maps, fetches the transactions and calls the *)
(* discovery loop, which scans under the chain it shares with the trending *)
(* loop (bot.ts).  The validator stream calls the loop without the maps.   *)
(*                                                                         *)
(* A mint stands for its own creation signature too.  The scan itself is   *)
(* ScanPipeline; here it is a body that may end, or never.                 *)
(***************************************************************************)
EXTENDS Naturals, Sequences

CONSTANTS
    Mints,
    Unnamed                          \* those whose creation may be logged without
                                     \* the name of the mint

DiscoveryAssumption == Unnamed \subseteq Mints

MaxAttempts == 2                     \* retries of one signature

VARIABLES
    pendingMints,                    \* mints read from a log
    pendingSignatures,               \* unnamed mint -> 0: none, n: n - 1 failures
    debounce,                        \* debounceTimer is armed
    flush,                           \* where flush() is suspended, if it runs
    taken,                           \* pendingSignatures as the flush took it
    answer,                          \* mint -> what getTransaction brought
    batch,                           \* the flush's local pendingMints
    recent,                          \* recentSignalMints within the retention
    processed,                       \* processedMints
    discovery, trending,             \* who occupies the loop, or "idle"
    scanChain,                       \* loops whose scan has not settled
    stopped,                         \* shouldStop
    offers,                          \* history: mint -> times the flush offered it
                                     \*   to the loop in the retention window
    overlapped                       \* history: the running or last flush met a
                                     \*   debounce, or requeued a signature

signals == <<pendingMints, pendingSignatures, debounce>>
flushing == <<flush, taken, answer, batch, overlapped>>
dedupe == <<recent, offers>>
loops == <<discovery, trending, scanChain>>
vars == <<signals, flushing, dedupe, processed, loops, stopped>>

None == [m \in Unnamed |-> 0]
NoAnswer == [m \in Unnamed |-> "none"]

TypeOK ==
    /\ pendingMints \subseteq Mints
    /\ pendingSignatures \in [Unnamed -> 0..(MaxAttempts + 1)]
    /\ debounce \in BOOLEAN /\ stopped \in BOOLEAN /\ overlapped \in BOOLEAN
    /\ flush \in {"idle", "fetching", "scanning"}
    /\ taken \in [Unnamed -> 0..(MaxAttempts + 1)]
    /\ answer \in [Unnamed -> {"none", "mint", "nothing", "failed"}]
    /\ batch \subseteq Mints
    /\ recent \subseteq Mints /\ processed \subseteq Mints
    /\ discovery \in {"idle", "flush", "other"}
    /\ trending \in {"idle", "feed", "scan"}
    /\ scanChain \in Seq({"discovery", "trending"})
    /\ offers \in [Mints -> Nat]
    /\ "discovery" \in {scanChain[i] : i \in DOMAIN scanChain} <=> discovery # "idle"
    /\ "trending" \in {scanChain[i] : i \in DOMAIN scanChain} <=> trending = "scan"
    /\ flush = "scanning" <=> discovery = "flush"

Init ==
    /\ pendingMints = {} /\ pendingSignatures = None /\ debounce = FALSE
    /\ flush = "idle" /\ taken = None /\ answer = NoAnswer /\ batch = {}
    /\ overlapped = FALSE
    /\ recent = {} /\ offers = [m \in Mints |-> 0]
    /\ processed = {}
    /\ discovery = "idle" /\ trending = "idle" /\ scanChain = << >>
    /\ stopped = FALSE

-----------------------------------------------------------------------------
(* Signals.                                                                *)

\* handleLog, or a Helius message: the log itself names the mint.
LogMint(m) ==
    /\ pendingMints' = pendingMints \cup {m} /\ debounce' = TRUE
    /\ UNCHANGED <<pendingSignatures, flushing, dedupe, processed, loops, stopped>>

\* Mutant: the signature is kept, but no flush is scheduled for it.
LogSignature_Unscheduled(m) ==
    /\ pendingSignatures' = [pendingSignatures EXCEPT ![m] = 1]
    /\ UNCHANGED <<pendingMints, debounce, flushing, dedupe, processed, loops, stopped>>

\* handleLog: only the signature is known; a repeated log starts anew.
LogSignature(m) ==
    /\ pendingSignatures' = [pendingSignatures EXCEPT ![m] = 1] /\ debounce' = TRUE
    /\ UNCHANGED <<pendingMints, flushing, dedupe, processed, loops, stopped>>

RecentExpires(m) ==                  \* `now` is fixed while a flush fetches
    /\ m \in recent /\ flush # "fetching"
    /\ recent' = recent \ {m}
    /\ offers' = [offers EXCEPT ![m] = 0]
    /\ UNCHANGED <<signals, flushing, processed, loops, stopped>>

\* A scan, one that the watchdog gave up included, reaches a verdict.
Verdict(m) ==
    /\ m \notin processed
    /\ processed' = processed \cup {m}
    /\ UNCHANGED <<signals, flushing, dedupe, loops, stopped>>

-----------------------------------------------------------------------------
(* The loops and the chain of their scans.                                 *)

\* runDiscoveryLoop, called by `caller`: busy or stopping, it returns at once
\* and whatever it was called with is gone.
Free == discovery = "idle" /\ ~stopped
Occupy(caller) ==
    /\ discovery' = caller /\ scanChain' = Append(scanChain, "discovery")
    /\ UNCHANGED trending

\* discoveryTimer, or triggerGeyserDiscovery with a mint of its own.  A paused
\* mood makes the timer return without a scan: no step.
Poll == Free /\ Occupy("other")
        /\ UNCHANGED <<signals, flushing, dedupe, processed, stopped>>

TrendingTick ==
    /\ trending = "idle" /\ ~stopped
    /\ trending' = "feed"
    /\ UNCHANGED <<signals, flushing, dedupe, processed, discovery, scanChain, stopped>>

\* The feed answers; a failed or an empty one ends the turn.
TrendingFeed ==
    /\ trending = "feed"
    /\ \/ trending' = "scan" /\ scanChain' = Append(scanChain, "trending")
       \/ trending' = "idle" /\ UNCHANGED scanChain
    /\ UNCHANGED <<signals, flushing, dedupe, processed, discovery, stopped>>

\* Mutant: the flush does not clear its flag after the scan.
ReturnTo_KeepsFlag(loop) == UNCHANGED flush
ReturnTo(loop) ==
    flush' = IF loop = "discovery" /\ discovery = "flush" THEN "idle" ELSE flush

\* The promise of the scan at the head settles: its body ended, or the
\* watchdog gave up on it; the loop's finally block, then flush's.
ScanSettles ==
    /\ scanChain # << >>
    /\ scanChain' = Tail(scanChain)
    /\ IF Head(scanChain) = "discovery"
       THEN discovery' = "idle" /\ UNCHANGED trending
       ELSE trending' = "idle" /\ UNCHANGED discovery
    /\ ReturnTo(Head(scanChain))
    /\ UNCHANGED <<signals, taken, answer, batch, overlapped, dedupe, processed, stopped>>

-----------------------------------------------------------------------------
(* flush()                                                                 *)

\* Mutant: dedupe against verdicts only.
Fresh_Unremembered(mints) == mints \ processed
\* addPendingMint
Fresh(mints) == mints \ (processed \cup recent)

\* The end of flush: the loop is called with what was collected, if anything.
CallLoop(mints) ==
    /\ offers' = [m \in Mints |-> offers[m] + IF m \in mints THEN 1 ELSE 0]
    /\ batch' = {}
    /\ IF mints # {} /\ Free
       THEN flush' = "scanning" /\ Occupy("flush")
       ELSE flush' = "idle" /\ UNCHANGED loops

\* Mutant: a debounce during a flush starts another one.
DebounceFires_Reentrant ==
    /\ debounce /\ ~stopped
    /\ debounce' = FALSE /\ overlapped' = FALSE
    /\ pendingMints' = {} /\ pendingSignatures' = None
    /\ recent' = recent \cup Fresh(pendingMints)
    /\ UNCHANGED <<processed, stopped>>
    /\ IF pendingSignatures = None
       THEN CallLoop(Fresh(pendingMints)) /\ UNCHANGED <<taken, answer>>
       ELSE /\ flush' = "fetching" /\ batch' = Fresh(pendingMints)
            /\ taken' = pendingSignatures /\ answer' = NoAnswer
            /\ UNCHANGED <<offers, loops>>

\* The debounce timer: flush() returns at once while another is running.
DebounceFires ==
    /\ debounce /\ ~stopped
    /\ debounce' = FALSE
    /\ UNCHANGED <<processed, stopped>>
    /\ IF flush # "idle"
       THEN /\ overlapped' = TRUE
            /\ UNCHANGED <<pendingMints, pendingSignatures, flush, taken, answer, batch,
                           recent, offers, loops>>
       ELSE /\ pendingMints' = {} /\ pendingSignatures' = None
            /\ overlapped' = FALSE
            /\ recent' = recent \cup Fresh(pendingMints)
            /\ IF pendingSignatures = None
               THEN CallLoop(Fresh(pendingMints)) /\ UNCHANGED <<taken, answer>>
               ELSE /\ flush' = "fetching" /\ batch' = Fresh(pendingMints)
                    /\ taken' = pendingSignatures /\ answer' = NoAnswer
                    /\ UNCHANGED <<offers, loops>>

Unanswered == {m \in Unnamed : taken[m] > 0 /\ answer[m] = "none"}

\* getTransaction: the mint, nothing (not indexed yet, or no creation), or an error.
Fetched(m) ==
    /\ flush = "fetching" /\ m \in Unanswered
    /\ \E a \in {"mint", "nothing", "failed"} : answer' = [answer EXCEPT ![m] = a]
    /\ UNCHANGED <<signals, flush, taken, batch, overlapped, dedupe, processed, loops, stopped>>

\* The pool is done.  A failed fetch is put back, over a newer log of the same
\* signature, and nobody is told to flush it.
FetchesDone ==
    LET failed == {m \in Unnamed : answer[m] = "failed" /\ taken[m] <= MaxAttempts}
        found  == Fresh({m \in Unnamed : answer[m] = "mint"})
    IN  /\ flush = "fetching" /\ Unanswered = {}
        /\ pendingSignatures' = [m \in Unnamed |-> IF m \in failed THEN taken[m] + 1
                                                ELSE pendingSignatures[m]]
        /\ overlapped' = (overlapped \/ failed # {})
        /\ recent' = recent \cup found
        /\ taken' = None /\ answer' = NoAnswer
        /\ CallLoop(batch \cup found)
        /\ UNCHANGED <<pendingMints, debounce, processed, stopped>>

\* Bot.stop: the timers are cleared; what is suspended goes on.
Stop ==
    /\ ~stopped
    /\ stopped' = TRUE
    /\ UNCHANGED <<signals, flushing, dedupe, processed, loops>>

Next ==
    \/ \E m \in Mints : LogMint(m) \/ Verdict(m) \/ RecentExpires(m)
    \/ \E m \in Unnamed : LogSignature(m) \/ Fetched(m)
    \/ Poll \/ TrendingTick \/ TrendingFeed \/ ScanSettles
    \/ DebounceFires \/ FetchesDone \/ Stop

Spec == Init /\ [][Next]_vars

-----------------------------------------------------------------------------
(* Properties.                                                             *)

\* However often a mint is logged, by several sockets, by name and by
\* signature, before, while and after a flush is fetching, the loop is offered
\* it once in the retention window.
OfferedOnce == \A m \in Mints : offers[m] <= 1

\* A signal waits without a timer only if it met a running flush or its own
\* fetch failed in the last one.
SignalsWatched ==
    pendingMints # {} \/ pendingSignatures # None =>
        debounce \/ stopped \/ overlapped

\* Flushes and both loops return, though scans may hang and fetches fail.
LoopsReturn ==
    /\ flush # "idle" ~> flush = "idle"
    /\ discovery # "idle" ~> discovery = "idle"
    /\ trending # "idle" ~> trending = "idle"

=============================================================================
