------------------------------ MODULE Lifecycle ------------------------------
(***************************************************************************)
(* The bot as a process: index.ts, the start and shutdown of core/bot.ts,  *)
(* the import of the JSON state (core/migrate.ts), the reload the          *)
(* dashboard asks for (api.service.ts), and the supervisor of              *)
(* scripts/start-all.ts, which runs it beside the website.                 *)
(***************************************************************************)
EXTENDS Naturals

CONSTANTS MaxPending                 \* bound: writes the worker has yet to commit

ASSUME PendingAssumption == MaxPending \in Nat

Booting == {"starting", "opened", "imported"}
Serving == {"loaded", "running", "closing", "persisting", "flushed", "draining", "drained"}

VARIABLES
    phase,                           \* where the bot process is, "down" without one
    json,                            \* state.json is there
    migrated, imports,               \* kv_store.migrated; how often its trades were inserted
    blind,                           \* a look at the flag has failed
    pending, lost,                   \* writes posted, not committed; an orderly end left some
    flying,                          \* a trade whose writes are still to come
    asked, shouldStop, reload,       \* globalShutdownInProgress; shouldStop; the exit due in 250 ms
    shuttingDown, exitedCount, gone, \* the supervisor
    web,                             \* the website runs
    heard                            \* a signal is on its way to: bot, supervisor

bot == <<phase, pending, lost, flying, asked, shouldStop, reload>>
disk == <<json, migrated, imports, blind>>
supervisor == <<shuttingDown, exitedCount, gone, web>>
vars == <<bot, disk, supervisor, heard>>

TypeOK ==
    /\ phase \in {"down"} \cup Booting \cup Serving
    /\ json \in BOOLEAN /\ migrated \in BOOLEAN /\ imports \in Nat /\ blind \in BOOLEAN
    /\ pending \in 0..MaxPending /\ lost \in BOOLEAN
    /\ flying \in BOOLEAN /\ asked \in BOOLEAN /\ shouldStop \in BOOLEAN /\ reload \in BOOLEAN
    /\ shuttingDown \in BOOLEAN /\ exitedCount \in 0..2 /\ gone \in BOOLEAN /\ web \in BOOLEAN
    /\ heard \subseteq {"bot", "supervisor"}

\* syncApiToken has run, and both children are started.
Init ==
    /\ phase = "starting" /\ pending = 0 /\ lost = FALSE /\ flying = FALSE
    /\ asked = FALSE /\ shouldStop = FALSE /\ reload = FALSE
    /\ json \in BOOLEAN /\ migrated = FALSE /\ imports = 0 /\ blind = FALSE
    /\ shuttingDown = FALSE /\ exitedCount = 0 /\ gone = FALSE /\ web = TRUE
    /\ heard = {}

Up == phase # "down"

-----------------------------------------------------------------------------
(* Exits, as the supervisor sees them.                                     *)

CheckExit(n) == exitedCount' = n /\ gone' = (n >= 2)
Uncounted == UNCHANGED <<exitedCount, gone>>

\* What the process had is gone with it, signals on their way to it included.
Fresh(p) ==
    /\ phase' = p /\ pending' = 0 /\ flying' = FALSE
    /\ asked' = FALSE /\ shouldStop' = FALSE /\ reload' = FALSE
    /\ heard' = heard \ {"bot"}

\* A clean exit is a reload; any other brings the website down too.  Once
\* shutting down the website is killed, and there is no reload; without a
\* supervisor the exit is seen by nobody.
Reloads_Counted(code) == ~shuttingDown /\ code = 0 /\ CheckExit(exitedCount + 1)  \* mutant
Reloads(code) == ~shuttingDown /\ code = 0 /\ Uncounted
Exit(code) ==
    /\ \/ ~gone /\ Reloads(code) /\ Fresh("starting") /\ UNCHANGED shuttingDown
       \/ /\ ~gone /\ (shuttingDown \/ code # 0)
          /\ Fresh("down") /\ shuttingDown' = TRUE /\ CheckExit(exitedCount + 1)
       \/ gone /\ Fresh("down") /\ Uncounted /\ UNCHANGED shuttingDown
    /\ UNCHANGED <<disk, web>>

-----------------------------------------------------------------------------
(* Boot: StatePersistence.init, then main and VelociBuyBot.start.          *)

Step(from, to) == phase = from /\ phase' = to
Only(from, to) ==
    Step(from, to)
    /\ UNCHANGED <<disk, supervisor, heard, pending, lost, flying, asked, shouldStop, reload>>

\* The tables are created if they are not there.
OpenDb == Only("starting", "opened")

\* migrateJsonToSqlite: one transaction inserts everything and the flag; only
\* then is the file moved away, unless that fails.
Importing_Unflagged == json              \* mutant: the flag is not looked at
Importing == json /\ ~migrated
Imports ==
    /\ Step("opened", "imported")
    /\ migrated' = TRUE /\ imports' = imports + 1
    /\ UNCHANGED <<json, supervisor, heard, pending, lost, flying, asked, shouldStop, reload>>
Import == Importing /\ Imports /\ UNCHANGED blind

\* A query of the flag that throws is taken for a flag that is not there.  Bound:
\* it throws once.
ImportBlindly == json /\ ~blind /\ blind' = TRUE /\ Imports
SkipImport == ~Importing /\ Only("opened", "loaded")
BackUp ==
    /\ Step("imported", "loaded")
    /\ json' \in {json, FALSE}
    /\ UNCHANGED <<migrated, imports, blind, supervisor, heard, pending, lost, flying,
                   asked, shouldStop, reload>>

\* The services are up and the loop waits for shouldStop.
Start == Only("loaded", "running")

\* A boot that throws, an uncaught crash, a kill from outside: main's catch.
Dies == Up /\ Exit(1) /\ UNCHANGED lost

-----------------------------------------------------------------------------
(* Running.                                                                *)

Trade == phase \in {"loaded", "running"} /\ ~flying /\ flying' = TRUE
         /\ UNCHANGED <<phase, pending, lost, asked, shouldStop, reload, disk, supervisor, heard>>

\* After requestShutdown a write is not posted any more.
Posts_Always == pending + 1              \* mutant: the worker is still written to
Posts == IF phase \in {"draining", "drained"} THEN pending ELSE pending + 1
Land ==
    /\ flying /\ Up /\ pending < MaxPending
    /\ flying' = FALSE /\ pending' = Posts
    /\ UNCHANGED <<phase, lost, asked, shouldStop, reload, disk, supervisor, heard>>

WorkerFlushes ==
    /\ pending > 0 /\ phase # "drained" /\ pending' = 0
    /\ UNCHANGED <<phase, lost, flying, asked, shouldStop, reload, disk, supervisor, heard>>

\* SET_STRATEGY and SET_BURST_MODE: write .env, and exit in 250 ms.
AskReload ==
    /\ phase \in Serving /\ ~asked /\ ~reload /\ reload' = TRUE
    /\ UNCHANGED <<phase, pending, lost, flying, asked, shouldStop, disk, supervisor, heard>>
Reload == reload /\ Exit(0) /\ UNCHANGED lost

-----------------------------------------------------------------------------
(* Shutdown.                                                               *)

\* handleShutdown: before there is a bot it exits, then it asks it to stop.
HandleShutdown ==
    \/ phase \in Booting /\ Exit(0) /\ UNCHANGED lost
    \/ /\ phase \in Serving /\ asked' = TRUE /\ shouldStop' = TRUE
       /\ heard' = heard \ {"bot"}
       /\ UNCHANGED <<phase, pending, lost, flying, reload, disk, supervisor>>
BotSignal == "bot" \in heard /\ ~asked /\ HandleShutdown
BotSignalAgain ==
    /\ "bot" \in heard /\ asked /\ heard' = heard \ {"bot"}
    /\ UNCHANGED <<bot, disk, supervisor>>
FatalError == Up /\ ~asked /\ HandleShutdown

\* performShutdown: loops stopped, positions closed if configured, queue flushed.
StopSeen == shouldStop /\ Only("running", "closing")
CloseAll ==
    /\ Step("closing", "persisting")
    /\ \E n \in {0, 1} : pending + n <= MaxPending /\ pending' = pending + n
    /\ UNCHANGED <<lost, flying, asked, shouldStop, reload, disk, supervisor, heard>>
Persisted ==
    /\ Step("persisting", "flushed") /\ pending' = 0
    /\ UNCHANGED <<lost, flying, asked, shouldStop, reload, disk, supervisor, heard>>
RequestShutdown == Only("flushed", "draining")

\* The worker, last: it commits what it was sent before, answers and closes.
WorkerCloses ==
    /\ Step("draining", "drained") /\ pending' = 0
    /\ UNCHANGED <<lost, flying, asked, shouldStop, reload, disk, supervisor, heard>>

\* The bot stopped in order: main exits.
Drained == phase = "drained" /\ Exit(0) /\ lost' = (lost \/ pending > 0)

\* The watchdog of handleShutdown.
HardExit == asked /\ Exit(1) /\ UNCHANGED lost

-----------------------------------------------------------------------------
(* The supervisor.                                                         *)

\* A child gets the signal unless it came from the terminal, which sends it to all.
InitiateShutdown(tells) ==
    /\ shuttingDown' = TRUE
    /\ heard' = (heard \ {"supervisor"}) \cup (IF tells /\ ~shuttingDown /\ Up THEN {"bot"} ELSE {})

Interrupt ==
    /\ ~gone /\ ~shuttingDown /\ "supervisor" \notin heard
    /\ heard' = heard \cup {"supervisor"} \cup (IF Up THEN {"bot"} ELSE {})
    /\ UNCHANGED <<bot, disk, supervisor>>
OnSigint ==
    /\ "supervisor" \in heard /\ ~gone /\ InitiateShutdown(FALSE)
    /\ UNCHANGED <<bot, disk, exitedCount, gone, web>>
OnSigterm ==
    /\ ~gone /\ ~shuttingDown /\ InitiateShutdown(TRUE)
    /\ UNCHANGED <<bot, disk, exitedCount, gone, web>>

\* The website ends: killed, interrupted or on its own.
WebExits ==
    /\ web /\ ~gone /\ web' = FALSE
    /\ InitiateShutdown(TRUE) /\ CheckExit(exitedCount + 1)
    /\ UNCHANGED <<bot, disk>>

\* The fallback, 25 seconds after the shutdown began.
Overdue_Alone == shuttingDown /\ exitedCount = 0  \* mutant: cleared by the first exit
Overdue == shuttingDown
\* taskkill ends the whole tree; elsewhere the signal ends npm alone, and what
\* it runs goes on.
KillTree == Fresh("down") /\ web' = FALSE /\ UNCHANGED lost
KillWrapper == UNCHANGED <<bot, web, heard>>
ForceKill ==
    /\ Overdue /\ ~gone /\ gone' = TRUE
    /\ KillTree \/ KillWrapper
    /\ UNCHANGED <<disk, shuttingDown, exitedCount>>

Next ==
    \/ OpenDb \/ Import \/ ImportBlindly \/ SkipImport \/ BackUp \/ Start \/ Dies
    \/ Trade \/ Land \/ WorkerFlushes \/ AskReload \/ Reload
    \/ BotSignal \/ BotSignalAgain \/ FatalError
    \/ StopSeen \/ CloseAll \/ Persisted \/ RequestShutdown \/ WorkerCloses \/ Drained \/ HardExit
    \/ Interrupt \/ OnSigint \/ OnSigterm \/ WebExits \/ ForceKill

\* The two watchdogs are timers; nothing else of a shutdown is sure to end.
Fairness == WF_vars(HardExit) /\ WF_vars(ForceKill)
Spec == Init /\ [][Next]_vars
FairSpec == Spec /\ Fairness

-----------------------------------------------------------------------------
(* Properties.                                                             *)

\* However often a boot is cut short, and whether or not state.json could be
\* moved, its closed trades are inserted once, and once more only for a look at
\* the flag that failed (migrateJsonToSqlite).
ImportedOnce == imports <= 1 + (IF blind THEN 1 ELSE 0)

\* An orderly end leaves no posted write behind, those of a trade that landed
\* while the bot was shutting down included (performShutdown).
EndsDurably == ~lost

\* A supervisor that leaves in order leaves neither the bot nor the website
\* behind, however reloads, exits and signals cross: a reload is not an exit
\* (start-all.ts).
NoOrphans == gone /\ exitedCount = 2 => ~Up /\ ~web

\* The three together: what a run of the process may do to the disk and to others.
LifecycleSound == TypeOK /\ ImportedOnce /\ EndsDurably /\ NoOrphans

\* A bot asked to stop ends, and a supervisor that shuts down does, though a
\* sale hangs or a signal was spent on a bot that has since been reloaded.
ShutdownEnds == (asked ~> ~asked) /\ (shuttingDown ~> gone)

=============================================================================
