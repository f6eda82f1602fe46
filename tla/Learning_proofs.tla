--------------------------- MODULE Learning_proofs ---------------------------
(***************************************************************************)
(* What holds of the process of the bot and of its supervisor for every    *)
(* bound on the writes under way, and of the ghosts, the models and the    *)
(* tuners for every cap, window, ladder and number of samples.             *)
(***************************************************************************)
EXTENDS MCLearning, FiniteSetTheorems, SequenceTheorems, WellFoundedInduction, TLAPS

-----------------------------------------------------------------------------
(* The process and its supervisor.                                         *)

\* The flag and the inserts stand in one transaction, a supervisor that is
\* still there has counted its children right, and what was asked of a process
\* ends with it.
Imported == (imports > 0 => migrated) /\ imports <= 1 + (IF blind THEN 1 ELSE 0)
Counted ==
    \/ gone /\ (exitedCount = 2 => ~Up /\ ~web)
    \/ ~gone /\ Up /\ web /\ exitedCount = 0
    \/ ~gone /\ Up /\ ~web /\ exitedCount = 1
    \/ ~gone /\ ~Up /\ web /\ exitedCount = 1
AskedOfIt == asked \/ reload => Up

\* Once the worker has closed nothing is posted to it.
Closed == phase = "drained" => pending = 0

\* The type invariant, by the kind of value.
Flags ==
    /\ json \in BOOLEAN /\ migrated \in BOOLEAN /\ blind \in BOOLEAN /\ lost \in BOOLEAN
    /\ flying \in BOOLEAN /\ asked \in BOOLEAN /\ shouldStop \in BOOLEAN /\ reload \in BOOLEAN
    /\ shuttingDown \in BOOLEAN /\ gone \in BOOLEAN /\ web \in BOOLEAN
Numbers == imports \in Nat /\ pending \in 0..MaxPending /\ exitedCount \in 0..2
Places == phase \in {"down"} \cup Booting \cup Serving /\ heard \subseteq {"bot", "supervisor"}

IInv == Flags /\ Numbers /\ Places /\ Imported /\ Counted /\ AskedOfIt /\ Closed /\ EndsDurably

-----------------------------------------------------------------------------

LEMMA InitEstablishes == Init => IInv
<1> SUFFICES ASSUME Init PROVE IInv
  OBVIOUS
<1>1. Flags
  BY DEF Init, Flags
<1>2. Numbers
  BY PendingAssumption DEF Init, Numbers
<1>3. Places
  BY DEF Init, Places, Booting, Serving
<1>4. Up
  BY DEF Init, Up
<1>5. Imported /\ Counted /\ AskedOfIt /\ EndsDurably
  BY <1>4 DEF Init, Imported, Counted, AskedOfIt, EndsDurably
<1>6. Closed
  BY DEF Init, Closed
<1>7. QED BY <1>1, <1>2, <1>3, <1>5, <1>6 DEF IInv

\* What the end of a child adds to the count.
LEMMA CheckExitCounts ==
  ASSUME NEW n \in {1, 2}, CheckExit(n)
  PROVE  exitedCount' = n /\ (n = 1 => ~gone') /\ (n = 2 => gone') /\ gone' \in BOOLEAN
<1>1. exitedCount' = n /\ gone' = (n >= 2)
  BY DEF CheckExit
<1>2. n = 1 => (n >= 2) = FALSE
  BY SMT
<1>3. n = 2 => (n >= 2) = TRUE
  BY SMT
<1>4. gone' \in BOOLEAN
  BY <1>1
<1>5. QED BY <1>1, <1>2, <1>3, <1>4

\* What every exit of a running process does: it is counted, unless it reloads.
LEMMA ExitKeeps ==
  ASSUME IInv, Up, NEW code \in {0, 1}, Exit(code), UNCHANGED lost
  PROVE  IInv'
<1>1. ~gone => exitedCount = IF web THEN 0 ELSE 1
  BY DEF IInv, Counted
<1>2. CASE ~gone /\ Reloads(code) /\ Fresh("starting") /\ UNCHANGED shuttingDown
  <2>1. Flags'
    BY <1>2 DEF IInv, Flags, Exit, Reloads, Uncounted, Fresh, disk
  <2>2. Numbers'
    BY <1>2, PendingAssumption DEF IInv, Numbers, Exit, Reloads, Uncounted, Fresh, disk
  <2>3. Places'
    BY <1>2 DEF IInv, Places, Fresh, Booting
  <2>4. Up'
    BY <1>2 DEF Fresh, Up
  <2>5. Imported' /\ Counted' /\ AskedOfIt' /\ Closed' /\ EndsDurably'
    BY <1>1, <1>2, <2>4
    DEF IInv, Imported, Counted, AskedOfIt, Closed, EndsDurably, Exit, Reloads, Uncounted, Fresh, disk
  <2>6. QED BY <2>1, <2>2, <2>3, <2>5 DEF IInv
<1>3. CASE ~gone /\ Fresh("down") /\ shuttingDown' = TRUE /\ CheckExit(exitedCount + 1)
  <2>1. CheckExit(IF web THEN 1 ELSE 2)
    BY <1>1, <1>3
  <2>2. /\ exitedCount' = IF web THEN 1 ELSE 2
        /\ gone' \in BOOLEAN /\ (web => ~gone') /\ (~web => gone')
    BY <2>1, CheckExitCounts
  <2>3. Flags'
    BY <1>3, <2>2 DEF IInv, Flags, Exit, Fresh, disk
  <2>4. Numbers'
    BY <1>3, <2>2, PendingAssumption DEF IInv, Numbers, Exit, Fresh, disk
  <2>5. Places'
    BY <1>3 DEF IInv, Places, Fresh
  <2>6. ~Up' /\ asked' = FALSE /\ reload' = FALSE
    BY <1>3 DEF Fresh, Up
  <2>7. Imported' /\ Counted' /\ AskedOfIt' /\ Closed' /\ EndsDurably'
    BY <1>1, <2>2, <2>6 DEF IInv, Imported, Counted, AskedOfIt, Closed, EndsDurably, Exit, Fresh, disk
  <2>8. QED BY <2>3, <2>4, <2>5, <2>7 DEF IInv
<1>4. CASE gone /\ Fresh("down") /\ Uncounted /\ UNCHANGED shuttingDown
  <2>1. Flags'
    BY <1>4 DEF IInv, Flags, Exit, Uncounted, Fresh, disk
  <2>2. Numbers'
    BY <1>4, PendingAssumption DEF IInv, Numbers, Exit, Uncounted, Fresh, disk
  <2>3. Places' /\ Closed'
    BY <1>4 DEF IInv, Places, Closed, Fresh
  <2>4. ~Up' /\ asked' = FALSE /\ reload' = FALSE /\ exitedCount' # 2
    BY <1>4 DEF IInv, Counted, Uncounted, Fresh, Up
  <2>5. Counted'
    BY <1>4, <2>4 DEF Counted, Uncounted
  <2>6. Imported' /\ AskedOfIt' /\ EndsDurably'
    BY <1>4, <2>4 DEF IInv, Imported, AskedOfIt, EndsDurably, Exit, disk
  <2>7. QED BY <2>1, <2>2, <2>3, <2>5, <2>6 DEF IInv
<1>5. QED BY <1>2, <1>3, <1>4 DEF Exit

-----------------------------------------------------------------------------

\* A step of a process that stays up and leaves the supervisor's count alone.
LEMMA UpKeeps ==
  ASSUME IInv, Up, Up', Flags', Numbers', Places',
         UNCHANGED <<exitedCount, gone, web>>, Imported', Closed', lost' = lost
  PROVE  IInv'
<1>1. Counted'
  BY DEF IInv, Counted
<1>2. AskedOfIt' /\ EndsDurably'
  BY DEF IInv, AskedOfIt, EndsDurably
<1>3. QED BY <1>1, <1>2 DEF IInv

\* The boot moves from place to place; one of its steps imports.
LEMMA BootKeeps ==
  ASSUME IInv, OpenDb \/ Import \/ ImportBlindly \/ SkipImport \/ BackUp \/ Start
  PROVE  IInv'
<1>1. Up /\ Up' /\ phase' # "drained" /\ lost' = lost
  BY DEF OpenDb, Import, ImportBlindly, Imports, SkipImport, BackUp, Start, Only, Step, Up
<1>2. UNCHANGED <<exitedCount, gone, web>>
  BY DEF OpenDb, Import, ImportBlindly, Imports, SkipImport, BackUp, Start, Only, supervisor
<1>3. Flags'
  <2>1. /\ json' \in {json, FALSE} /\ migrated' \in {migrated, TRUE}
        /\ blind' \in {blind, TRUE}
    BY DEF OpenDb, Import, ImportBlindly, Imports, SkipImport, BackUp, Start, Only, disk
  <2>2. UNCHANGED <<lost, flying, asked, shouldStop, reload, shuttingDown, gone, web>>
    BY DEF OpenDb, Import, ImportBlindly, Imports, SkipImport, BackUp, Start, Only, supervisor
  <2>3. QED BY <2>1, <2>2 DEF IInv, Flags
<1>4. Numbers'
  <2>1. imports' \in {imports, imports + 1}
    BY DEF OpenDb, Import, ImportBlindly, Imports, SkipImport, BackUp, Start, Only, disk
  <2>2. pending' = pending /\ exitedCount' = exitedCount
    BY DEF OpenDb, Import, ImportBlindly, Imports, SkipImport, BackUp, Start, Only, supervisor
  <2>3. QED BY <2>1, <2>2 DEF IInv, Numbers
<1>5. Places'
  <2>1. heard' = heard
    BY DEF OpenDb, Import, ImportBlindly, Imports, SkipImport, BackUp, Start, Only
  <2>2. phase' \in {"opened", "imported", "loaded", "running"}
    BY DEF OpenDb, Import, ImportBlindly, Imports, SkipImport, BackUp, Start, Only, Step
  <2>3. QED BY <2>1, <2>2 DEF IInv, Places, Booting, Serving
<1>6. Imported'
  <2>1. CASE Import
    <3>1. imports = 0
      BY <2>1 DEF IInv, Numbers, Imported, Import, Importing
    <3>2. QED BY <2>1, <3>1 DEF Imported, Import, Imports
  <2>2. CASE ImportBlindly
    <3>1. imports \in Nat /\ imports <= 1
      BY <2>2 DEF IInv, Numbers, Imported, ImportBlindly
    <3>2. QED BY <2>2, <3>1 DEF Imported, ImportBlindly, Imports
  <2>3. CASE OpenDb \/ SkipImport \/ BackUp \/ Start
    <3>1. UNCHANGED <<imports, migrated, blind>>
      BY <2>3 DEF OpenDb, SkipImport, BackUp, Start, Only, disk
    <3>2. QED BY <3>1 DEF IInv, Imported
  <2>4. QED BY <2>1, <2>2, <2>3
<1>7. QED BY <1>1, <1>2, <1>3, <1>4, <1>5, <1>6, UpKeeps DEF Closed

\* What trades, the worker and the dashboard do to a process that runs.
LEMMA RunKeeps ==
  ASSUME IInv, Trade \/ Land \/ AskReload
  PROVE  IInv'
<1>1. Up /\ Up' /\ lost' = lost
  BY DEF Trade, Land, AskReload, Up, Serving
<1>2. UNCHANGED <<exitedCount, gone, web>>
  BY DEF Trade, Land, AskReload, supervisor
<1>3. Flags'
  BY DEF IInv, Flags, Trade, Land, AskReload, disk, supervisor
<1>4. Numbers'
  BY PendingAssumption
  DEF IInv, Numbers, Trade, Land, AskReload, Posts, disk, supervisor
<1>5. Places' /\ Imported'
  <2>1. UNCHANGED <<imports, migrated, blind>>
    BY DEF Trade, Land, AskReload, disk
  <2>2. Places'
    BY DEF IInv, Places, Trade, Land, AskReload
  <2>3. QED BY <2>1, <2>2 DEF IInv, Imported
<1>6. Closed'
  BY DEF IInv, Closed, Trade, Land, AskReload, Posts
<1>7. QED BY <1>1, <1>2, <1>3, <1>4, <1>5, <1>6, UpKeeps

LEMMA FlushKeeps ==
  ASSUME IInv, WorkerFlushes
  PROVE  IInv'
<1>1. Flags'
  BY DEF IInv, Flags, WorkerFlushes, disk, supervisor
<1>2. Numbers'
  BY PendingAssumption DEF IInv, Numbers, WorkerFlushes, disk, supervisor
<1>3. Places' /\ Imported' /\ AskedOfIt' /\ EndsDurably'
  BY DEF IInv, Places, Imported, AskedOfIt, EndsDurably, Up, WorkerFlushes, disk
<1>4. Counted'
  BY DEF IInv, Counted, Up, WorkerFlushes, supervisor
<1>5. Closed'
  BY DEF Closed, WorkerFlushes
<1>6. QED BY <1>1, <1>2, <1>3, <1>4, <1>5 DEF IInv

\* performShutdown, up to the worker's answer.
LEMMA ShutdownKeeps ==
  ASSUME IInv, StopSeen \/ CloseAll \/ Persisted \/ RequestShutdown \/ WorkerCloses
  PROVE  IInv'
<1>1. Up /\ Up' /\ lost' = lost
  BY DEF StopSeen, CloseAll, Persisted, RequestShutdown, WorkerCloses, Only, Step, Up
<1>2. UNCHANGED <<exitedCount, gone, web>>
  BY DEF StopSeen, CloseAll, Persisted, RequestShutdown, WorkerCloses, Only, supervisor
<1>3. Flags'
  BY DEF IInv, Flags, StopSeen, CloseAll, Persisted, RequestShutdown, WorkerCloses, Only,
         disk, supervisor
<1>4. Numbers'
  <2>1. pending' \in 0..MaxPending
    BY PendingAssumption
    DEF IInv, Numbers, StopSeen, CloseAll, Persisted, RequestShutdown, WorkerCloses, Only
  <2>2. UNCHANGED <<imports, exitedCount>>
    BY DEF StopSeen, CloseAll, Persisted, RequestShutdown, WorkerCloses, Only, disk, supervisor
  <2>3. QED BY <2>1, <2>2 DEF IInv, Numbers
<1>5. Places'
  <2>1. heard' = heard
    BY DEF StopSeen, CloseAll, Persisted, RequestShutdown, WorkerCloses, Only
  <2>2. phase' \in {"closing", "persisting", "flushed", "draining", "drained"}
    BY DEF StopSeen, CloseAll, Persisted, RequestShutdown, WorkerCloses, Only, Step
  <2>3. QED BY <2>1, <2>2 DEF IInv, Places, Serving
<1>6. Imported'
  BY DEF IInv, Imported, StopSeen, CloseAll, Persisted, RequestShutdown, WorkerCloses, Only, disk
<1>7. Closed'
  BY DEF Closed, StopSeen, CloseAll, Persisted, RequestShutdown, WorkerCloses, Only, Step
<1>8. QED BY <1>1, <1>2, <1>3, <1>4, <1>5, <1>6, <1>7, UpKeeps

\* Every way a process ends by itself.
LEMMA EndKeeps ==
  ASSUME IInv, Dies \/ Reload \/ HardExit \/ Drained
  PROVE  IInv'
<1>1. Up
  BY DEF IInv, AskedOfIt, Dies, Reload, HardExit, Drained, Up
<1>2. lost' = lost
  <2>1. CASE Drained
    <3>1. ~(pending > 0) /\ ~lost
      BY <2>1, SMT DEF IInv, Closed, EndsDurably, Drained
    <3>2. lost = FALSE
      BY <3>1 DEF IInv, Flags
    <3>3. lost' = (lost \/ pending > 0)
      BY <2>1 DEF Drained
    <3>4. lost' = FALSE
      BY <3>1, <3>3, Zenon
    <3>5. QED BY <3>2, <3>4
  <2>2. CASE ~Drained
    BY <2>2 DEF Dies, Reload, HardExit
  <2>3. QED BY <2>1, <2>2
<1>3. Exit(0) \/ Exit(1)
  BY DEF Dies, Reload, HardExit, Drained
<1>4. QED BY <1>1, <1>2, <1>3, ExitKeeps

\* handleShutdown exits before there is a bot, and asks the bot to stop after.
LEMMA HandleShutdownKeeps ==
  ASSUME IInv, HandleShutdown
  PROVE  IInv'
<1>1. CASE phase \in Booting /\ Exit(0) /\ UNCHANGED lost
  BY <1>1, ExitKeeps DEF Booting, Up
<1>2. CASE ~(phase \in Booting /\ Exit(0) /\ UNCHANGED lost)
  <2>1. Up /\ Up' /\ lost' = lost /\ UNCHANGED <<exitedCount, gone, web>>
    BY <1>2 DEF HandleShutdown, Serving, Up, supervisor
  <2>2. Flags'
    BY <1>2 DEF IInv, Flags, HandleShutdown, disk, supervisor
  <2>3. Numbers' /\ Places' /\ Closed'
    BY <1>2 DEF IInv, Numbers, Places, Closed, HandleShutdown, disk, supervisor
  <2>4. UNCHANGED <<imports, migrated, blind>>
    BY <1>2 DEF HandleShutdown, disk
  <2>5. Imported'
    BY <2>4 DEF IInv, Imported
  <2>6. QED BY <2>1, <2>2, <2>3, <2>5, UpKeeps
<1>3. QED BY <1>1, <1>2

\* Signals change nothing that is counted.
LEMMA SignalKeeps ==
  ASSUME IInv, BotSignalAgain \/ Interrupt \/ OnSigint \/ OnSigterm
  PROVE  IInv'
<1>1. UNCHANGED <<bot, disk, exitedCount, gone, web>>
  BY DEF BotSignalAgain, Interrupt, OnSigint, OnSigterm, supervisor
<1>2. Flags'
  BY <1>1 DEF IInv, Flags, bot, disk, BotSignalAgain, Interrupt, OnSigint, OnSigterm,
              InitiateShutdown, supervisor
<1>3. Numbers' /\ Imported' /\ Closed' /\ EndsDurably'
  BY <1>1 DEF IInv, Numbers, Imported, Closed, EndsDurably, bot, disk
<1>4. Counted' /\ AskedOfIt'
  BY <1>1 DEF IInv, Counted, AskedOfIt, Up, bot
<1>5. heard' \subseteq {"bot", "supervisor"}
  BY DEF IInv, Places, BotSignalAgain, Interrupt, OnSigint, OnSigterm, InitiateShutdown
<1>6. Places'
  BY <1>1, <1>5 DEF IInv, Places, bot
<1>7. QED BY <1>2, <1>3, <1>4, <1>6 DEF IInv

\* The end of the website is counted too.
LEMMA WebExitsKeeps ==
  ASSUME IInv, WebExits
  PROVE  IInv'
<1>1. web /\ ~gone /\ web' = FALSE /\ CheckExit(exitedCount + 1) /\ UNCHANGED <<bot, disk>>
  BY DEF WebExits
<1>2. exitedCount = IF Up THEN 0 ELSE 1
  BY <1>1 DEF IInv, Counted
<1>3. /\ exitedCount' = IF Up THEN 1 ELSE 2
      /\ gone' \in BOOLEAN /\ (Up => ~gone') /\ (~Up => gone')
  <2>1. CASE Up
    BY <1>1, <1>2, <2>1, CheckExitCounts
  <2>2. CASE ~Up
    BY <1>1, <1>2, <2>2, CheckExitCounts
  <2>3. QED BY <2>1, <2>2
<1>4. Up' = Up
  BY <1>1 DEF Up, bot
<1>5. Flags'
  BY <1>1, <1>3 DEF IInv, Flags, bot, disk, WebExits, InitiateShutdown
<1>6. Numbers'
  BY <1>1, <1>3 DEF IInv, Numbers, bot, disk
<1>7. Places'
  BY <1>1 DEF IInv, Places, bot, WebExits, InitiateShutdown
<1>8. Counted'
  BY <1>1, <1>3, <1>4 DEF Counted
<1>9. Imported' /\ AskedOfIt' /\ Closed' /\ EndsDurably'
  BY <1>1, <1>4 DEF IInv, Imported, AskedOfIt, Closed, EndsDurably, bot, disk
<1>10. QED BY <1>5, <1>6, <1>7, <1>8, <1>9 DEF IInv

LEMMA ForceKillKeeps ==
  ASSUME IInv, ForceKill
  PROVE  IInv'
<1>1. gone' = TRUE /\ exitedCount' # 2
  BY DEF IInv, Counted, ForceKill
<1>2. CASE KillTree
  <2>1. Flags'
    BY <1>1, <1>2 DEF IInv, Flags, ForceKill, KillTree, Fresh, disk
  <2>2. Numbers'
    BY <1>2, PendingAssumption DEF IInv, Numbers, ForceKill, KillTree, Fresh, disk
  <2>3. Places' /\ Closed'
    BY <1>2 DEF IInv, Places, Closed, KillTree, Fresh
  <2>4. Imported' /\ AskedOfIt' /\ EndsDurably'
    BY <1>2 DEF IInv, Imported, AskedOfIt, EndsDurably, ForceKill, KillTree, Fresh, disk
  <2>5. QED BY <1>1, <2>1, <2>2, <2>3, <2>4 DEF IInv, Counted
<1>3. CASE KillWrapper
  <2>1. Flags' /\ Numbers'
    BY <1>1, <1>3 DEF IInv, Flags, Numbers, ForceKill, KillWrapper, bot, disk
  <2>2. Places' /\ Closed'
    BY <1>3 DEF IInv, Places, Closed, KillWrapper, bot
  <2>3. Imported' /\ AskedOfIt' /\ EndsDurably'
    BY <1>3 DEF IInv, Imported, AskedOfIt, EndsDurably, Up, ForceKill, KillWrapper, bot, disk
  <2>4. QED BY <1>1, <2>1, <2>2, <2>3 DEF IInv, Counted
<1>4. QED BY <1>2, <1>3 DEF ForceKill

-----------------------------------------------------------------------------

LEMMA StepKeeps == IInv /\ [Next]_vars => IInv'
<1> SUFFICES ASSUME IInv, [Next]_vars PROVE IInv'
  OBVIOUS
<1>1. CASE OpenDb \/ Import \/ ImportBlindly \/ SkipImport \/ BackUp \/ Start
  BY <1>1, BootKeeps
<1>2. CASE Trade \/ Land \/ AskReload
  BY <1>2, RunKeeps
<1>3. CASE WorkerFlushes
  BY <1>3, FlushKeeps
<1>4. CASE StopSeen \/ CloseAll \/ Persisted \/ RequestShutdown \/ WorkerCloses
  BY <1>4, ShutdownKeeps
<1>5. CASE Dies \/ Reload \/ HardExit \/ Drained
  BY <1>5, EndKeeps
<1>6. CASE BotSignal \/ FatalError
  BY <1>6, HandleShutdownKeeps DEF BotSignal, FatalError
<1>7. CASE BotSignalAgain \/ Interrupt \/ OnSigint \/ OnSigterm
  BY <1>7, SignalKeeps
<1>8. CASE WebExits
  BY <1>8, WebExitsKeeps
<1>9. CASE ForceKill
  BY <1>9, ForceKillKeeps
<1>10. CASE UNCHANGED vars
  BY <1>10 DEF IInv, Flags, Numbers, Places, Imported, Counted, AskedOfIt, Closed, EndsDurably,
               Up, vars, bot, disk, supervisor
<1>11. QED
  BY <1>1, <1>2, <1>3, <1>4, <1>5, <1>6, <1>7, <1>8, <1>9, <1>10 DEF Next

LEMMA IInvSuffices == IInv => LifecycleSound
<1> SUFFICES ASSUME IInv PROVE LifecycleSound
  OBVIOUS
<1>1. TypeOK
  BY DEF IInv, Flags, Numbers, Places, TypeOK
<1>2. ImportedOnce
  BY DEF IInv, Imported, ImportedOnce
<1>3. NoOrphans
  BY DEF IInv, Counted, NoOrphans
<1>4. QED BY <1>1, <1>2, <1>3 DEF IInv, LifecycleSound

\* However boots, crashes, reloads, signals and the two watchdogs follow each
\* other: the JSON trades are imported once, and once more only for a look at the
\* flag that failed; an orderly end leaves no posted write behind, and the
\* supervisor leaves no child (index.ts, migrate.ts, start-all.ts).
THEOREM LifecycleIsSound == Spec => []LifecycleSound
<1>1. IInv /\ [Next]_vars => IInv'
  BY StepKeeps
<1>2. QED BY InitEstablishes, <1>1, IInvSuffices, PTL DEF Spec

-----------------------------------------------------------------------------
(* The ghosts.                                                             *)

LEMMA GhostSettings ==
  /\ MaxPrice \in Nat /\ MaxPrice > 0 /\ EntryPrices \subseteq 0..MaxPrice
  /\ QueueCap \in Nat /\ MaxPositions \in Nat /\ MaxHold \in Nat
  /\ \A l \in Ladders : l \in Seq(Nat) /\ Len(l) \in Nat /\ DOMAIN l = 1..Len(l)
BY LearningAssumptions, LenProperties DEF Ghost!GhostAssumption

\* The instance counts as the module does.
LEMMA GhostsCountAlike ==
  ASSUME NEW S
  PROVE  Ghost!Cardinality(S) = Cardinality(S) /\ Learn!Cardinality(S) = Cardinality(S)
BY DEF Cardinality, Ghost!Cardinality, Learn!Cardinality,
       IsFiniteSet, Ghost!IsFiniteSet, Learn!IsFiniteSet

GhostInv == Ghost!TypeOK /\ IsFiniteSet(DOMAIN ghosts) /\ Ghost!PeakCredited

\* Some natural numbers have a least among them.
LEMMA LeastOf ==
  ASSUME NEW S \in SUBSET Nat, S # {}
  PROVE  \E n \in S : \A m \in S : n <= m
<1> DEFINE R == OpToRel(<, Nat)
<1>1. IsWellFoundedOn(R, Nat)
  BY NatLessThanWellFounded
<1>2. R = {ss \in Nat \X Nat : ss[1] < ss[2]}
  BY DEF OpToRel
<1> HIDE DEF R
<1>3. PICK n \in S : \A m \in S : ~(<<m, n>> \in R)
  BY <1>1, WFMin
<1>4. \A m \in S : m \in Nat /\ n \in Nat /\ ~(m < n)
  <2> TAKE m \in S
  <2>1. m \in Nat /\ n \in Nat
    OBVIOUS
  <2>2. <<m, n>> \notin R
    BY <1>3
  <2>3. ~(m < n)
    BY <1>2, <2>1, <2>2
  <2>4. QED BY <2>1, <2>3
<1>5. QED BY <1>4

\* The loop of _advanceTpLadder goes up, over rungs the price reaches, and stops
\* at the end of the ladder or before one it does not reach.
LEMMA LadderAdvanced ==
  ASSUME NEW l \in Ladders, NEW g, g.hits \in Nat, NEW p
  PROVE  LET k == Ghost!AdvanceTpLadder(g, p, l)
         IN  /\ k \in Nat /\ k >= g.hits
             /\ k >= Len(l) \/ ~Ghost!Reaches(p, g, l[k + 1])
             /\ \A i \in (g.hits + 1)..k : i \in 1..Len(l) /\ Ghost!Reaches(p, g, l[i])
<1> DEFINE k == Ghost!AdvanceTpLadder(g, p, l)
           h == g.hits
           S == Ghost!Stops(g, p, l)
<1>1. Len(l) \in Nat /\ h \in Nat
  BY GhostSettings
<1>2. CASE h >= Len(l)
  <2>1. k = h
    BY <1>2 DEF Ghost!AdvanceTpLadder
  <2>2. (h + 1)..h = {}
    BY <1>1
  <2> HIDE DEF k
  <2>3. QED BY <1>1, <1>2, <2>1, <2>2 DEF k
<1>3. CASE h < Len(l)
  <2>1. S = {n \in h..Len(l) : n = Len(l) \/ ~Ghost!Reaches(p, g, l[n + 1])}
    BY DEF Ghost!Stops
  <2>2. S \in SUBSET Nat /\ S # {}
    <3>1. Len(l) \in S
      BY <1>1, <1>3, <2>1
    <3>2. QED BY <1>1, <2>1, <3>1
  <2>3. k = Ghost!First(S)
    BY <1>1, <1>3 DEF Ghost!AdvanceTpLadder
  <2> HIDE DEF k, S
  <2>4. k \in S /\ \A m \in S : k <= m
    <3>1. \E n \in S : \A m \in S : n <= m
      BY <2>2, LeastOf
    <3>2. QED BY <2>3, <3>1 DEF Ghost!First
  <2>5. k \in h..Len(l) /\ (k = Len(l) \/ ~Ghost!Reaches(p, g, l[k + 1]))
    BY <2>1, <2>4
  <2>6. ASSUME NEW i \in (h + 1)..k
        PROVE  i \in 1..Len(l) /\ Ghost!Reaches(p, g, l[i])
    <3>1. i - 1 \in h..Len(l) /\ i - 1 # Len(l) /\ (i - 1) + 1 = i /\ ~(k <= i - 1)
      BY <1>1, <2>5
    <3>2. i - 1 \notin S
      BY <2>4, <3>1
    <3>3. Ghost!Reaches(p, g, l[i])
      <4>1. Ghost!Reaches(p, g, l[(i - 1) + 1])
        BY <2>1, <3>1, <3>2
      <4>2. QED BY <3>1, <4>1
    <3>4. QED BY <1>1, <2>5, <3>3
  <2>7. QED BY <1>1, <2>5, <2>6 DEF k
<1>4. QED BY <1>1, <1>2, <1>3

\* A rung a price reaches, a higher one reaches; the entry is what counts.
LEMMA HigherReaches ==
  ASSUME NEW g, NEW h, h.entry = g.entry, NEW x, NEW p \in Nat, NEW q \in Nat, p <= q,
         g.entry * x \in Int, Ghost!Reaches(p, g, x)
  PROVE  Ghost!Reaches(q, h, x)
<1>1. 100 * p >= g.entry * x
  BY DEF Ghost!Reaches
<1>2. \A y \in Int : 100 * p >= y => 100 * q >= y
  OBVIOUS
<1>3. 100 * q >= h.entry * x
  BY <1>1, <1>2
<1>4. QED BY <1>3 DEF Ghost!Reaches

LEMMA OlderKeeps ==
  ASSUME NEW g \in Ghost!Ghost, Ghost!Credited(g)
  PROVE  Ghost!Older(g) \in Ghost!Ghost /\ Ghost!Credited(Ghost!Older(g))
<1> DEFINE o == Ghost!Older(g)
<1>1. /\ o \in Ghost!Ghost
      /\ o.entry = g.entry /\ o.high = g.high /\ o.hits = g.hits
      /\ o.at = g.at /\ o.under = g.under
  <2> DEFINE age == IF g.age < MaxHold THEN g.age + 1 ELSE g.age
  <2>1. age \in 0..MaxHold
    BY GhostSettings DEF Ghost!Ghost
  <2>2. o = [g EXCEPT !.age = age]
    BY DEF Ghost!Older
  <2> HIDE DEF age, o
  <2>3. QED BY <2>1, <2>2 DEF Ghost!Ghost
<1> HIDE DEF o
<1>2. \A p, x : Ghost!Reaches(p, o, x) <=> Ghost!Reaches(p, g, x)
  BY <1>1 DEF Ghost!Reaches
<1>3. Ghost!Credited(o)
  BY <1>1, <1>2 DEF Ghost!Credited
<1>4. QED BY <1>1, <1>3 DEF o

\* A price moves the peak and climbs what it reaches: the ghost stays credited.
LEMMA SeenKeeps ==
  ASSUME NEW g \in Ghost!Ghost, Ghost!Credited(g), NEW p \in 0..MaxPrice, NEW l \in Ladders
  PROVE  Ghost!Seen(g, p, l) \in Ghost!Ghost /\ Ghost!Credited(Ghost!Seen(g, p, l))
<1> DEFINE s == Ghost!Seen(g, p, l)
           k == Ghost!AdvanceTpLadder(g, p, l)
           high == IF p > g.high THEN p ELSE g.high
           at == IF p > g.high THEN l ELSE g.at
<1>1. /\ g.entry \in 1..MaxPrice /\ g.high \in 1..MaxPrice /\ g.hits \in Nat
      /\ MaxPrice \in Nat /\ g.age \in 0..MaxHold
      /\ g.at \in Ladders \cup {<< >>} /\ g.under \subseteq Ladders
  BY GhostSettings DEF Ghost!Ghost
<1>2. CASE p = 0
  BY <1>2 DEF Ghost!Seen
<1>3. CASE p > 0
  <2>1. /\ k \in Nat /\ k >= g.hits
        /\ k >= Len(l) \/ ~Ghost!Reaches(p, g, l[k + 1])
        /\ \A i \in (g.hits + 1)..k : i \in 1..Len(l) /\ Ghost!Reaches(p, g, l[i])
    BY <1>1, LadderAdvanced
  <2> HIDE DEF k
  <2>2. high \in 1..MaxPrice /\ high >= p /\ high >= g.high /\ high \in Nat
    BY <1>1, <1>3
  <2>3. at \in Ladders \cup {<< >>} /\ g.under \cup {l} \in SUBSET Ladders
    BY <1>1
  <2>4. s = [g EXCEPT !.high = high, !.at = at, !.hits = k, !.under = g.under \cup {l}]
    BY <1>3 DEF Ghost!Seen, k
  <2> HIDE DEF s, high, at
  <2>5. /\ s \in Ghost!Ghost /\ s.entry = g.entry /\ s.high = high /\ s.at = at
        /\ s.hits = k /\ s.under = g.under \cup {l}
    BY <2>1, <2>2, <2>3, <2>4 DEF Ghost!Ghost
  <2>6. \A m \in Ladders : DOMAIN m = 1..Len(m) /\ Len(m) \in Nat
                           /\ \A i \in DOMAIN m : g.entry * m[i] \in Int
    <3> TAKE m \in Ladders
    <3>1. m \in Seq(Nat) /\ DOMAIN m = 1..Len(m) /\ Len(m) \in Nat
      BY GhostSettings
    <3>2. \A i \in DOMAIN m : m[i] \in Nat
      BY <3>1, ElementOfSeq
    <3>3. QED BY <1>1, <3>1, <3>2
\* What the peak reached before, or the price that is the peak now.
  <2>7. ASSUME NEW n \in DOMAIN s.at, \A i \in 1..n : Ghost!Reaches(s.high, s, s.at[i])
        PROVE  n <= s.hits
    <3>1. CASE p > g.high
      <4>1. s.at = l /\ s.high = p /\ n \in 1..Len(l) /\ Len(l) \in Nat
        BY <2>5, <2>6, <3>1 DEF at, high
      <4>2. \A i \in 1..n : Ghost!Reaches(p, g, l[i])
        BY <2>5, <2>7, <4>1 DEF Ghost!Reaches
      <4>3. k + 1 \in 1..n => Ghost!Reaches(p, g, l[k + 1])
        BY <4>2
      <4>4. k >= Len(l) \/ k + 1 \notin 1..n
        BY <2>1, <4>3
      <4>5. n <= k
        BY <2>1, <4>1, <4>4
      <4>6. QED BY <2>5, <4>5
    <3>2. CASE ~(p > g.high)
      <4>1. s.at = g.at /\ s.high = g.high
        BY <2>5, <3>2 DEF at, high
      <4>2. \A i \in 1..n : Ghost!Reaches(g.high, g, g.at[i])
        BY <2>5, <2>7, <4>1 DEF Ghost!Reaches
      <4>3. n <= g.hits
        BY <4>1, <4>2 DEF Ghost!Credited
      <4>4. n \in Int
        <5>1. CASE g.at = << >>
          BY <4>1, <5>1
        <5>2. CASE g.at \in Ladders
          BY <2>6, <4>1, <5>2
        <5>3. QED BY <1>1, <5>1, <5>2
      <4>5. QED BY <1>1, <2>1, <2>5, <4>3, <4>4
    <3>3. QED BY <3>1, <3>2
\* A rung hit before, or one the price has just reached.
  <2>8. ASSUME NEW i \in 1..s.hits
        PROVE  \E m \in s.under : i <= Len(m) /\ Ghost!Reaches(s.high, s, m[i])
    <3>1. CASE i \in 1..g.hits
      <4>1. PICK m \in g.under : i <= Len(m) /\ Ghost!Reaches(g.high, g, m[i])
        BY <3>1 DEF Ghost!Credited
      <4>2. g.entry * m[i] \in Int
        BY <1>1, <2>6, <3>1, <4>1
      <4>3. Ghost!Reaches(s.high, s, m[i])
        BY <1>1, <2>2, <2>5, <4>1, <4>2, HigherReaches
      <4>4. QED BY <2>5, <4>1, <4>3
    <3>2. CASE i \notin 1..g.hits
      <4>1. i \in (g.hits + 1)..k
        BY <1>1, <2>1, <2>5, <3>2
      <4>2. i \in 1..Len(l) /\ Ghost!Reaches(p, g, l[i])
        BY <2>1, <4>1
      <4>3. g.entry * l[i] \in Int
        BY <2>6, <4>2
      <4>4. Ghost!Reaches(s.high, s, l[i])
        BY <1>1, <2>2, <2>5, <4>2, <4>3, HigherReaches
      <4>5. i <= Len(l)
        BY <2>6, <4>2
      <4>6. QED BY <2>5, <4>4, <4>5
    <3>3. QED BY <3>1, <3>2
  <2>9. Ghost!Credited(s)
    BY <2>7, <2>8 DEF Ghost!Credited
  <2>10. QED BY <2>5, <2>9 DEF s
<1>4. QED BY <1>1, <1>2, <1>3

\* Adding one element and dropping the oldest over the limit.
LEMMA PushBounded ==
  ASSUME NEW S, NEW s \in Seq(S), NEW x \in S, NEW n \in Nat, Len(s) <= n
  PROVE  LET t == IF Len(Append(s, x)) > n THEN Tail(Append(s, x)) ELSE Append(s, x)
         IN  t \in Seq(S) /\ Len(t) <= n
<1>1. /\ Append(s, x) \in Seq(S) /\ Append(s, x) # << >>
      /\ Len(Append(s, x)) = Len(s) + 1 /\ Len(s) \in Nat
  BY AppendProperties, LenProperties
<1>2. Tail(Append(s, x)) \in Seq(S) /\ Len(Tail(Append(s, x))) = Len(s)
  BY <1>1, HeadTailProperties
<1>3. QED BY <1>1, <1>2

LEMMA NotifyKeeps ==
  ASSUME GhostInv, Ghost!NotifyCandidate
  PROVE  GhostInv'
<1>1. PICK c \in Coins, p \in EntryPrices, x \in Scores :
        /\ queue' = IF Len(Append(queue, [coin |-> c, price |-> p, score |-> x])) > QueueCap
                    THEN Tail(Append(queue, [coin |-> c, price |-> p, score |-> x]))
                    ELSE Append(queue, [coin |-> c, price |-> p, score |-> x])
        /\ UNCHANGED <<ghosts, tps, closed, beat>>
  BY DEF Ghost!NotifyCandidate
<1>2. [coin |-> c, price |-> p, score |-> x] \in Ghost!Candidate
  BY GhostSettings DEF Ghost!Candidate
<1>3. queue \in Seq(Ghost!Candidate) /\ Len(queue) <= QueueCap
  BY DEF GhostInv, Ghost!TypeOK
<1>4. queue' \in Seq(Ghost!Candidate) /\ Len(queue') <= QueueCap
  BY <1>1, <1>2, <1>3, GhostSettings, PushBounded
<1>5. QED BY <1>1, <1>4, GhostsCountAlike DEF GhostInv, Ghost!TypeOK, Ghost!PeakCredited

\* What a tick makes of the queue when the candidate i is opened.
LEMMA WithoutShortens ==
  ASSUME NEW S, queue \in Seq(S), NEW i \in DOMAIN queue
  PROVE  Ghost!Without(i) \in Seq(S) /\ Len(Ghost!Without(i)) = Len(queue) - 1
<1>1. Len(queue) \in Nat /\ DOMAIN queue = 1..Len(queue)
  BY LenProperties
<1> DEFINE n == Len(queue) - 1
           w == [j \in 1..n |-> IF j < i THEN queue[j] ELSE queue[j + 1]]
<1>2. n \in Nat
  BY <1>1
<1>3. \A j \in 1..n : j \in DOMAIN queue /\ j + 1 \in DOMAIN queue
  BY <1>1
<1>4. \A j \in DOMAIN queue : queue[j] \in S
  BY <1>1, ElementOfSeq
<1>5. \A j \in 1..n : (IF j < i THEN queue[j] ELSE queue[j + 1]) \in S
  BY <1>3, <1>4
<1>6. w \in [1..n -> S]
  BY <1>5
<1>7. w \in Seq(S) /\ Len(w) = n
  BY <1>2, <1>6
<1>8. QED BY <1>7 DEF Ghost!Without

LEMMA TickKeeps ==
  ASSUME GhostInv, Ghost!Tick
  PROVE  GhostInv'
<1>1. PICK prices \in [DOMAIN ghosts -> 0..MaxPrice], seen \in [DOMAIN ghosts -> Ladders] :
        Ghost!TickAt(prices, seen)
  BY DEF Ghost!Tick
<1> DEFINE D == DOMAIN ghosts
           after == [c \in D |-> Ghost!Seen(Ghost!Older(ghosts[c]), prices[c], seen[c])]
           reason == [c \in D |-> Ghost!CheckExit(after[c], prices[c], seen[c])]
           kept == {c \in D : reason[c] = "none"}
           tuning == {c \in D \ kept : after[c].hits > 0}
           picks == Ghost!Picks(kept)
<1>2. /\ closed' = {Ghost!CloseGhost(c, after[c], prices[c], seen[c], reason[c]) :
                       c \in D \ kept}
      /\ beat' = ~beat /\ tps' \in IF tuning = {} THEN {tps} ELSE Ladders
      /\ \/ picks = {} /\ ghosts' = [c \in kept |-> after[c]] /\ queue' = queue
         \/ \E i \in picks :
              /\ ghosts' = [c \in kept \cup {queue[i].coin} |->
                               IF c = queue[i].coin THEN Ghost!Opened(i) ELSE after[c]]
              /\ queue' = Ghost!Without(i)
  BY <1>1 DEF Ghost!TickAt
<1>3. /\ queue \in Seq(Ghost!Candidate) /\ Len(queue) <= QueueCap
      /\ D \subseteq Coins
      /\ \A c \in D : ghosts[c] \in Ghost!Ghost /\ Ghost!Credited(ghosts[c])
      /\ IsFiniteSet(D) /\ Cardinality(D) <= MaxPositions /\ tps \in Ladders
  BY GhostsCountAlike DEF GhostInv, Ghost!TypeOK, Ghost!PeakCredited
<1>4. \A c \in D : after[c] \in Ghost!Ghost /\ Ghost!Credited(after[c])
  BY <1>3, OlderKeeps, SeenKeeps
<1>5. \A c \in D : reason[c] \in {"max-hold", "stale", "none", "stop-loss", "take-profit",
                                  "trailing-stop"}
  <2> SUFFICES ASSUME NEW c \in D
               PROVE  Ghost!CheckExit(after[c], prices[c], seen[c]) \in
                        {"max-hold", "stale", "none", "stop-loss", "take-profit",
                         "trailing-stop"}
    OBVIOUS
  <2>1. after[c].age \in 0..MaxHold /\ prices[c] \in 0..MaxPrice
    BY <1>4 DEF Ghost!Ghost
  <2> HIDE DEF after
  <2>2. \/ after[c].age >= MaxHold
        \/ after[c].age < MaxHold /\ prices[c] = 0
        \/ after[c].age < MaxHold /\ prices[c] > 0
    BY <2>1, GhostSettings
  <2>3. QED BY <2>1, <2>2, GhostSettings DEF Ghost!CheckExit
<1> HIDE DEF after, reason
<1>6. closed' \subseteq [coin : Coins, reason : Ghost!Reasons, win : BOOLEAN]
  <2> SUFFICES ASSUME NEW c \in D \ kept
               PROVE  Ghost!CloseGhost(c, after[c], prices[c], seen[c], reason[c])
                        \in [coin : Coins, reason : Ghost!Reasons, win : BOOLEAN]
    BY <1>2
  <2>1. c \in Coins /\ reason[c] \in Ghost!Reasons
    BY <1>3, <1>5 DEF Ghost!Reasons
  <2>2. (reason[c] \in {"take-profit", "trailing-stop"}
           /\ Ghost!ProfitOf(after[c], prices[c], seen[c]) > 0) \in BOOLEAN
    OBVIOUS
  <2>3. QED BY <2>1, <2>2 DEF Ghost!CloseGhost
<1>7. kept \in SUBSET D /\ IsFiniteSet(kept) /\ Cardinality(kept) <= Cardinality(D)
      /\ Cardinality(kept) \in Nat /\ Cardinality(D) \in Nat
  BY <1>3, FS_Subset, FS_CardinalityType
<1>8. /\ DOMAIN ghosts' \subseteq Coins /\ IsFiniteSet(DOMAIN ghosts')
      /\ Cardinality(DOMAIN ghosts') <= MaxPositions
      /\ \A c \in DOMAIN ghosts' : ghosts'[c] \in Ghost!Ghost /\ Ghost!Credited(ghosts'[c])
      /\ queue' \in Seq(Ghost!Candidate) /\ Len(queue') <= QueueCap
  <2>1. CASE ghosts' = [c \in kept |-> after[c]] /\ queue' = queue
    BY <1>3, <1>4, <1>7, <2>1, GhostSettings
  <2>2. CASE \E i \in picks :
               /\ ghosts' = [c \in kept \cup {queue[i].coin} |->
                                IF c = queue[i].coin THEN Ghost!Opened(i) ELSE after[c]]
               /\ queue' = Ghost!Without(i)
    <3>1. PICK i \in picks :
            /\ ghosts' = [c \in kept \cup {queue[i].coin} |->
                             IF c = queue[i].coin THEN Ghost!Opened(i) ELSE after[c]]
            /\ queue' = Ghost!Without(i)
      BY <2>2
    <3>2. /\ ~(Cardinality(kept) >= MaxPositions)
          /\ i \in DOMAIN queue /\ queue[i].price > 0
      BY GhostsCountAlike DEF Ghost!Picks, Ghost!Openable
    <3>3. queue[i] \in Ghost!Candidate
      BY <1>3, <3>2, ElementOfSeq, LenProperties
    <3>4. Ghost!Opened(i) \in Ghost!Ghost
      BY <3>2, <3>3, GhostSettings DEF Ghost!Opened, Ghost!Ghost, Ghost!Candidate
    <3>5. Ghost!Credited(Ghost!Opened(i))
      <4>1. Ghost!Opened(i).hits = 0 /\ Ghost!Opened(i).at = << >>
        BY DEF Ghost!Opened
      <4>2. DOMAIN Ghost!Opened(i).at = {} /\ 1..0 = {}
        BY <4>1
      <4>3. QED BY <4>1, <4>2 DEF Ghost!Credited
    <3>6. /\ IsFiniteSet(kept \cup {queue[i].coin})
          /\ Cardinality(kept \cup {queue[i].coin}) <= MaxPositions
      <4> HIDE DEF kept
      <4>1. /\ IsFiniteSet(kept \cup {queue[i].coin})
            /\ Cardinality(kept \cup {queue[i].coin})
                 = IF queue[i].coin \in kept THEN Cardinality(kept) ELSE Cardinality(kept) + 1
        BY <1>7, FS_AddElement
      <4>2. QED BY <1>7, <3>2, <4>1, GhostSettings
    <3>7. queue[i].coin \in Coins
      BY <3>3 DEF Ghost!Candidate
    <3>8. Ghost!Without(i) \in Seq(Ghost!Candidate) /\ Len(Ghost!Without(i)) = Len(queue) - 1
      BY <1>3, <3>2, WithoutShortens
    <3>9. Len(queue) - 1 <= QueueCap
      BY <1>3, GhostSettings, LenProperties
    <3>10. DOMAIN ghosts' = kept \cup {queue[i].coin}
      BY <3>1
    <3>11. \A c \in DOMAIN ghosts' : ghosts'[c] \in Ghost!Ghost /\ Ghost!Credited(ghosts'[c])
      BY <1>4, <3>1, <3>4, <3>5, <3>10
    <3>12. QED BY <1>3, <1>7, <3>1, <3>6, <3>7, <3>8, <3>9, <3>10, <3>11
  <2>3. QED BY <1>2, <2>1, <2>2
<1>9. beat' \in BOOLEAN /\ tps' \in Ladders
  BY <1>2, <1>3
<1>10. QED
  BY <1>6, <1>8, <1>9, GhostsCountAlike DEF GhostInv, Ghost!TypeOK, Ghost!PeakCredited

LEMMA GhostsKeep ==
  ASSUME GhostInv, Ghost!Next \/ UNCHANGED ghostVars
  PROVE  GhostInv'
<1>1. CASE Ghost!Retune
  BY <1>1, GhostsCountAlike DEF Ghost!Retune, GhostInv, Ghost!TypeOK, Ghost!PeakCredited
<1>2. CASE UNCHANGED ghostVars
  BY <1>2, GhostsCountAlike DEF ghostVars, GhostInv, Ghost!TypeOK, Ghost!PeakCredited
<1>3. QED BY <1>1, <1>2, NotifyKeeps, TickKeeps DEF Ghost!Next

LEMMA GhostsStart == Ghost!Init => GhostInv
<1> SUFFICES ASSUME Ghost!Init PROVE GhostInv
  OBVIOUS
<1>1. DOMAIN ghosts = {} /\ queue = << >> /\ closed = {} /\ beat = FALSE /\ tps \in Ladders
  BY DEF Ghost!Init
<1>2. Cardinality(DOMAIN ghosts) = 0 /\ IsFiniteSet(DOMAIN ghosts)
  BY <1>1, FS_EmptySet
<1>3. queue \in Seq(Ghost!Candidate) /\ Len(queue) = 0
  BY <1>1, EmptySeq
<1>4. Ghost!Cardinality(DOMAIN ghosts) <= MaxPositions /\ Len(queue) <= QueueCap
  BY <1>2, <1>3, GhostSettings, GhostsCountAlike
<1>5. QED BY <1>1, <1>2, <1>3, <1>4 DEF GhostInv, Ghost!TypeOK, Ghost!PeakCredited

-----------------------------------------------------------------------------
(* The gate and the tuners.                                                *)

\* The real ones among closed trades.
Reals(s) == {i \in DOMAIN s : s[i]}

\* As long as fewer real trades have closed than the gate asks for, no more of
\* them are among the recent ones.
TablesSound ==
  /\ native \in BOOLEAN
  /\ trades \in Seq(BOOLEAN) /\ Len(trades) <= LookBack * MinReal
  /\ realEver \in 0..MinReal /\ samples \in 0..SampleWindow
  /\ posted \in Seq(BOOLEAN) /\ Len(posted) <= MaxPosted
  /\ realEver < MinReal => Cardinality(Reals(trades)) <= realEver

GateSound ==
  /\ trained \in BOOLEAN
  /\ window \in Seq(BOOLEAN) /\ Len(window) <= Window /\ active \in BOOLEAN
  /\ gating \in BOOLEAN /\ refused \in BOOLEAN
  /\ gating \/ refused => realEver = MinReal

LadderSound ==
  base \in Bases /\ ladder \in Seq(Int) /\ Len(ladder) >= 1 /\ Learn!RungsOrdered
ScoreSound ==
  /\ minScore \in {BaseScore} \cup ScoreLow..ScoreHigh
  /\ minScore > BaseScore => realEver = MinReal

LearnInv == TablesSound /\ GateSound /\ LadderSound /\ ScoreSound

LEMMA LearnSettings ==
  /\ Window \in Nat /\ MinReal \in Nat /\ LookBack \in Nat
  /\ SampleWindow \in Nat /\ MaxPosted \in Nat /\ LookBack * MinReal \in Nat
  /\ BaseScore \in Int /\ ScoreLow \in Int /\ ScoreHigh \in Int /\ ScoreLow <= ScoreHigh
  /\ Low \in Int \X Int /\ High \in Int \X Int
  /\ Gap \in Nat /\ Gap > 0 /\ DefaultRung \in Int
  /\ Low[1] + Gap <= Low[2] /\ High[1] + Gap <= High[2]
  /\ Low[1] <= High[1] /\ Low[2] <= High[2]
  /\ \A l \in Bases : l \in Seq(Int) /\ Len(l) >= 1
<1>1. Window \in Nat /\ MinReal \in Nat /\ LookBack \in Nat
      /\ SampleWindow \in Nat /\ MaxPosted \in Nat
  BY LearningAssumptions DEF Learn!LearningAssumption
<1>2. LookBack * MinReal \in Nat
  BY <1>1
<1>3. Gap \in Nat /\ Gap > 0
  BY LearningAssumptions DEF Learn!LearningAssumption
<1>4. QED BY <1>1, <1>2, <1>3, LearningAssumptions DEF Learn!LearningAssumption

LEMMA Bounds ==
  Low[1] \in Int /\ Low[2] \in Int /\ High[1] \in Int /\ High[2] \in Int
BY LearnSettings

\* One more trade counts one more real one at most; the oldest may go.
LEMMA TradePushed ==
  ASSUME NEW s \in Seq(BOOLEAN), NEW x \in BOOLEAN, NEW n \in Nat, Len(s) <= n
  PROVE  LET t == IF Len(Append(s, x)) > n THEN Tail(Append(s, x)) ELSE Append(s, x)
         IN  /\ t \in Seq(BOOLEAN) /\ Len(t) <= n
             /\ Cardinality(Reals(s)) \in Nat /\ Cardinality(Reals(t)) \in Nat
             /\ Cardinality(Reals(t)) <= Cardinality(Reals(s)) + (IF x THEN 1 ELSE 0)
<1> DEFINE a == Append(s, x)
           t == IF Len(a) > n THEN Tail(a) ELSE a
<1>1. t \in Seq(BOOLEAN) /\ Len(t) <= n
  BY PushBounded
<1>2. /\ a \in Seq(BOOLEAN) /\ a # << >> /\ Len(a) = Len(s) + 1 /\ a[Len(s) + 1] = x
      /\ \A i \in 1..Len(s) : a[i] = s[i]
  BY AppendProperties
<1>3. /\ Len(s) \in Nat /\ DOMAIN s = 1..Len(s) /\ DOMAIN a = 1..Len(a)
  BY <1>2, LenProperties
<1>4. /\ Tail(a) \in Seq(BOOLEAN) /\ Len(Tail(a)) = Len(a) - 1
      /\ \A i \in 1..Len(Tail(a)) : Tail(a)[i] = a[i + 1]
  BY <1>2, HeadTailProperties
<1>5. DOMAIN Tail(a) = 1..Len(Tail(a))
  BY <1>4, LenProperties
<1> HIDE DEF a
<1>6. IsFiniteSet(1..Len(s))
  BY <1>3, FS_Interval
<1>7. IsFiniteSet(Reals(s)) /\ Cardinality(Reals(s)) \in Nat
  <2>1. Reals(s) \in SUBSET (1..Len(s))
    BY <1>3 DEF Reals
  <2>2. QED BY <1>6, <2>1, FS_Subset, FS_CardinalityType
<1>8. /\ IsFiniteSet(Reals(a)) /\ Cardinality(Reals(a)) \in Nat
      /\ Cardinality(Reals(a)) <= Cardinality(Reals(s)) + (IF x THEN 1 ELSE 0)
  <2>1. CASE x
    <3>1. Reals(a) \in SUBSET (Reals(s) \cup {Len(s) + 1})
      BY <1>2, <1>3 DEF Reals
    <3>2. /\ IsFiniteSet(Reals(s) \cup {Len(s) + 1})
          /\ Cardinality(Reals(s) \cup {Len(s) + 1}) <= Cardinality(Reals(s)) + 1
      <4> DEFINE r == Reals(s)
                 k == Len(s) + 1
      <4> HIDE DEF r, k
      <4>1. /\ IsFiniteSet(r \cup {k})
            /\ Cardinality(r \cup {k}) = IF k \in r THEN Cardinality(r) ELSE Cardinality(r) + 1
        BY <1>7, FS_AddElement DEF r
      <4>2. Cardinality(r \cup {k}) <= Cardinality(r) + 1
        BY <1>7, <4>1 DEF r
      <4>3. QED BY <4>1, <4>2 DEF r, k
    <3>3. IsFiniteSet(Reals(a)) /\ Cardinality(Reals(a)) <= Cardinality(Reals(s) \cup {Len(s) + 1})
      BY <3>1, <3>2, FS_Subset
    <3>4. Cardinality(Reals(a)) \in Nat /\ Cardinality(Reals(s) \cup {Len(s) + 1}) \in Nat
      BY <3>2, <3>3, FS_CardinalityType
    <3>5. QED BY <1>7, <2>1, <3>2, <3>3, <3>4
  <2>2. CASE ~x
    <3>1. Reals(a) \in SUBSET Reals(s)
      BY <1>2, <1>3, <2>2 DEF Reals
    <3>2. QED BY <1>7, <2>2, <3>1, FS_Subset, FS_CardinalityType
  <2>3. QED BY <2>1, <2>2
<1>9. Cardinality(Reals(Tail(a))) \in Nat /\ Cardinality(Reals(Tail(a))) <= Cardinality(Reals(a))
  <2> DEFINE f == [i \in Reals(Tail(a)) |-> i + 1]
  <2>1. \A i \in Reals(Tail(a)) : i \in Nat /\ i + 1 \in Reals(a)
    BY <1>2, <1>3, <1>4, <1>5 DEF Reals
  <2>2. \A i, j \in Reals(Tail(a)) : f[i] = f[j] => i = j
    BY <2>1
  <2>3. f \in Injection(Reals(Tail(a)), Reals(a))
    BY <2>1, <2>2 DEF Injection, IsInjective
  <2>4. QED BY <1>8, <2>3, FS_Injection, FS_CardinalityType
<1>10. QED BY <1>1, <1>7, <1>8, <1>9 DEF a

-----------------------------------------------------------------------------
(* The tuners.                                                             *)

LEMMA RealsNeeded ==
  ASSUME TablesSound, Learn!RealTrades >= MinReal
  PROVE  realEver = MinReal
<1>1. Learn!RealTrades = Cardinality(Reals(trades))
  BY GhostsCountAlike DEF Learn!RealTrades, Reals
<1>2. Cardinality(Reals(trades)) \in Nat
  BY LearnSettings, TradePushed DEF TablesSound
<1>3. QED BY <1>1, <1>2, LearnSettings DEF TablesSound

LEMMA GateChecked ==
  ASSUME TablesSound, GateSound, Learn!CheckGating
  PROVE  gating' \in BOOLEAN /\ (gating' => realEver = MinReal)
<1>1. gating' = (gating \/ Learn!RealTrades >= MinReal)
  BY DEF Learn!CheckGating
<1>2. gating' \in BOOLEAN
  BY <1>1, Zenon
<1>3. QED BY <1>1, <1>2, RealsNeeded DEF GateSound

\* A step ends within the bounds, if there is one.
LEMMA MovedWithin ==
  ASSUME NEW n \in Int, NEW lo \in Int, NEW hi \in Int, lo <= hi,
         NEW next \in Learn!Moved(n, lo, hi)
  PROVE  next \in Int /\ (next = n \/ (lo <= next /\ next <= hi))
BY DEF Learn!Moved, Learn!Clamp

\* The entry tuner raises the score for real trades only.
LEMMA ScoreTuned ==
  ASSUME TablesSound, ScoreSound, realEver' = realEver, NEW n, Learn!RunEntryTuner(n)
  PROVE  ScoreSound'
<1>1. PICK next \in Learn!Moved(minScore, ScoreLow, ScoreHigh) :
        minScore' = IF n < MinTuner \/ (next > minScore /\ ~Learn!MayRaise)
                    THEN minScore ELSE next
  BY DEF Learn!RunEntryTuner
<1>2. /\ minScore \in Int /\ BaseScore \in Int /\ ScoreLow \in Int /\ ScoreHigh \in Int
      /\ ScoreLow <= ScoreHigh
  BY LearnSettings DEF ScoreSound
<1>3. next \in Int /\ (next = minScore \/ next \in ScoreLow..ScoreHigh)
  BY <1>2, MovedWithin
<1>4. Learn!MayRaise => realEver = MinReal
  BY RealsNeeded DEF Learn!MayRaise
<1>5. CASE minScore' = minScore
  BY <1>5 DEF ScoreSound
<1>6. CASE minScore' # minScore
  <2>1. minScore' = next /\ ~(next > minScore /\ ~Learn!MayRaise)
    BY <1>1, <1>6
  <2>2. next > BaseScore => minScore > BaseScore \/ next > minScore
    BY <1>2, <1>3
  <2>3. QED BY <1>3, <1>4, <1>6, <2>1, <2>2 DEF ScoreSound
<1>7. QED BY <1>5, <1>6

\* Only the first two rungs are set.
LEMMA RungsSet ==
  ASSUME LadderSound, NEW a \in Int, NEW b \in Int
  PROVE  /\ Learn!WithRungs(a, b) \in Seq(Int) /\ Len(Learn!WithRungs(a, b)) >= 2
         /\ Learn!WithRungs(a, b)[1] = a /\ Learn!WithRungs(a, b)[2] = b
<1> DEFINE two == <<a, b>>
           rest == SubSeq(ladder, 3, Len(ladder))
<1>1. ladder \in Seq(Int) /\ Len(ladder) \in Nat
  BY LenProperties DEF LadderSound
<1>2. two \in Seq(Int) /\ Len(two) = 2 /\ two[1] = a /\ two[2] = b
  OBVIOUS
<1>3. \A i \in 3..Len(ladder) : ladder[i] \in Int
  BY <1>1, ElementOfSeq
<1>4. rest \in Seq(Int) /\ Len(rest) \in Nat
  BY <1>1, <1>3, SubSeqProperties, LenProperties
<1> HIDE DEF two, rest
<1>5. /\ two \o rest \in Seq(Int) /\ Len(two \o rest) = Len(two) + Len(rest)
      /\ \A i \in 1..Len(two) + Len(rest) :
            (two \o rest)[i] = IF i <= Len(two) THEN two[i] ELSE rest[i - Len(two)]
  BY <1>2, <1>4, ConcatProperties
<1>6. Learn!WithRungs(a, b) = two \o rest
  BY DEF Learn!WithRungs, two, rest
<1>7. QED BY <1>2, <1>4, <1>5, <1>6

\* Setting them leaves the ladder sound when it leaves them in order, and in
\* bounds if they were.
LEMMA RungsKept ==
  ASSUME LadderSound, base' = base, NEW a \in Int, NEW b \in Int,
         ladder' \in Seq(Int), Len(ladder') >= 1,
         Learn!InOrder(ladder) => Len(ladder') >= 2 /\ ladder'[1] = a /\ ladder'[2] = b,
         Learn!InOrder(ladder) => a < b,
         Learn!InOrder(ladder) /\ Learn!InBounds(ladder) =>
            Low[1] <= a /\ a <= High[1] /\ Low[2] <= b /\ b <= High[2]
  PROVE  LadderSound'
<1>1. Learn!InOrder(base) => Learn!InOrder(ladder)
  BY DEF LadderSound, Learn!RungsOrdered
<1>2. Learn!InOrder(base) /\ Learn!InBounds(base) => Learn!InBounds(ladder)
  BY DEF LadderSound, Learn!RungsOrdered
<1>3. Learn!InOrder(ladder) => Learn!InOrder(ladder')
  BY DEF Learn!InOrder
<1>4. Learn!InOrder(ladder) /\ Learn!InBounds(ladder) => Learn!InBounds(ladder')
  BY DEF Learn!InBounds
<1>5. Learn!InOrder(base)' = Learn!InOrder(base) /\ Learn!InOrder(ladder)' = Learn!InOrder(ladder')
      /\ Learn!InBounds(base)' = Learn!InBounds(base)
      /\ Learn!InBounds(ladder)' = Learn!InBounds(ladder')
  BY DEF Learn!InOrder, Learn!InBounds
<1>6. Learn!RungsOrdered'
  BY <1>1, <1>2, <1>3, <1>4, <1>5 DEF Learn!RungsOrdered
<1>7. QED BY <1>6 DEF LadderSound

\* Each rung a step, clamped, and kept apart.
LEMMA StepKeepsRungs ==
  ASSUME LadderSound, base' = base, Learn!AcceptStep
  PROVE  LadderSound'
<1>1. PICK t0 \in Learn!Moved(ladder[1], Low[1], High[1]),
           t1 \in Learn!Moved(Learn!Second, Low[2], High[2]) : ladder' = Learn!Stepped(t0, t1)
  BY DEF Learn!AcceptStep
<1>2. ladder \in Seq(Int) /\ Len(ladder) \in Nat /\ Len(ladder) >= 1
  BY LenProperties DEF LadderSound
<1>3. ladder[1] \in Int /\ (Learn!HasSecond => ladder[2] \in Int /\ Learn!Second = ladder[2])
  BY <1>2, ElementOfSeq DEF Learn!HasSecond, Learn!Second
<1>4. Learn!Second \in Int
  BY <1>3, Bounds DEF Learn!Second
<1>5. /\ t0 \in Int /\ (t0 = ladder[1] \/ (Low[1] <= t0 /\ t0 <= High[1]))
      /\ t1 \in Int /\ (t1 = Learn!Second \/ (Low[2] <= t1 /\ t1 <= High[2]))
  BY <1>3, <1>4, Bounds, LearnSettings, MovedWithin
<1> DEFINE a == Learn!Lowered(t0)
           b == IF t1 = Learn!Second THEN Learn!Second ELSE IF t1 <= a THEN a + Gap ELSE t1
           c == IF t1 <= a THEN a + Gap ELSE t1
<1>6. /\ a \in Int
      /\ a = IF t0 # ladder[1] /\ Learn!HasSecond /\ t0 >= ladder[2] THEN ladder[2] - Gap ELSE t0
  BY <1>3, <1>5, LearnSettings DEF Learn!Lowered
<1>7. ladder' = IF t1 = Learn!Second THEN [ladder EXCEPT ![1] = a] ELSE Learn!WithRungs(a, c)
  BY <1>1 DEF Learn!Stepped
<1> HIDE DEF a
<1>8. b \in Int /\ c \in Int
  BY <1>4, <1>5, <1>6, LearnSettings
<1>9. /\ ladder' \in Seq(Int) /\ Len(ladder') >= 1
      /\ Learn!HasSecond => Len(ladder') >= 2 /\ ladder'[1] = a /\ ladder'[2] = b
  <2>1. CASE t1 = Learn!Second
    <3>1. ladder' = [ladder EXCEPT ![1] = a] /\ b = Learn!Second
      BY <1>7, <2>1
    <3>2. ladder' \in Seq(Int) /\ Len(ladder') = Len(ladder) /\ ladder'[1] = a
      BY <1>2, <1>6, <3>1, ExceptSeq
    <3>3. Learn!HasSecond => ladder'[2] = ladder[2] /\ Len(ladder) >= 2
      BY <1>2, <3>1 DEF Learn!HasSecond
    <3>4. QED BY <1>2, <1>3, <3>1, <3>2, <3>3
  <2>2. CASE t1 # Learn!Second
    <3>1. ladder' = Learn!WithRungs(a, c) /\ b = c
      BY <1>7, <2>2
    <3> HIDE DEF b, c
    <3>2. /\ ladder' \in Seq(Int) /\ Len(ladder') >= 2
          /\ ladder'[1] = a /\ ladder'[2] = c
      BY <1>6, <1>8, <3>1, RungsSet
    <3>3. Len(ladder') \in Nat
      BY <3>2, LenProperties
    <3>4. QED BY <3>1, <3>2, <3>3
  <2>3. QED BY <2>1, <2>2
<1>10. Learn!InOrder(ladder) =>
         Learn!HasSecond /\ Learn!Second = ladder[2] /\ ladder[1] < ladder[2] /\ a < ladder[2]
  <2> SUFFICES ASSUME Learn!InOrder(ladder)
               PROVE  Learn!HasSecond /\ Learn!Second = ladder[2] /\ ladder[1] < ladder[2]
                      /\ a < ladder[2]
    OBVIOUS
  <2>1. Learn!HasSecond /\ ladder[1] < ladder[2]
    BY DEF Learn!InOrder, Learn!HasSecond
  <2>2. QED BY <1>3, <1>5, <1>6, <2>1, LearnSettings
<1>11. Learn!InOrder(ladder) => a < b
  BY <1>3, <1>5, <1>6, <1>10, LearnSettings
<1>12. Learn!InOrder(ladder) /\ Learn!InBounds(ladder) =>
         Low[1] <= a /\ a <= High[1] /\ Low[2] <= b /\ b <= High[2]
  <2> SUFFICES ASSUME Learn!InOrder(ladder), Learn!InBounds(ladder)
               PROVE  Low[1] <= a /\ a <= High[1] /\ Low[2] <= b /\ b <= High[2]
    OBVIOUS
  <2>1. /\ Low[1] <= ladder[1] /\ ladder[1] <= High[1]
        /\ Low[2] <= ladder[2] /\ ladder[2] <= High[2]
    BY DEF Learn!InBounds
  <2>2. Low[1] <= a /\ a <= High[1]
    BY <1>3, <1>5, <1>6, <1>10, <2>1, Bounds, LearnSettings
  <2>3. Low[2] <= b /\ b <= High[2]
    BY <1>3, <1>5, <1>6, <1>10, <2>1, <2>2, Bounds, LearnSettings
  <2>4. QED BY <2>2, <2>3
<1> HIDE DEF b
<1>13. Learn!InOrder(ladder) => Len(ladder') >= 2 /\ ladder'[1] = a /\ ladder'[2] = b
  BY <1>9, <1>10
<1>14. QED BY <1>6, <1>8, <1>9, <1>11, <1>12, <1>13, RungsKept

\* A rejected step writes back what was read: the rungs, if there are two.
LEMMA RestoreKeepsRungs ==
  ASSUME LadderSound, base' = base, Learn!RejectStep
  PROVE  LadderSound'
<1> DEFINE a == ladder[1]
           b == IF Learn!HasSecond THEN ladder[2] ELSE DefaultRung
<1>1. ladder' = Learn!WithRungs(a, b)
  BY DEF Learn!RejectStep, Learn!Restored
<1>2. ladder \in Seq(Int) /\ Len(ladder) \in Nat /\ Len(ladder) >= 1
  BY LenProperties DEF LadderSound
<1>3. a \in Int /\ b \in Int
  BY <1>2, ElementOfSeq, LearnSettings DEF Learn!HasSecond
<1>4. Learn!InOrder(ladder) => a < b
  BY DEF Learn!InOrder, Learn!HasSecond
<1>5. Learn!InOrder(ladder) /\ Learn!InBounds(ladder) =>
         Low[1] <= a /\ a <= High[1] /\ Low[2] <= b /\ b <= High[2]
  BY DEF Learn!InOrder, Learn!InBounds, Learn!HasSecond
<1> HIDE DEF a, b
<1>6. /\ ladder' \in Seq(Int) /\ Len(ladder') >= 2 /\ Len(ladder') \in Nat
      /\ ladder'[1] = a /\ ladder'[2] = b
  BY <1>1, <1>3, RungsSet, LenProperties
<1>7. Len(ladder') >= 1
  BY <1>6
<1>8. QED BY <1>3, <1>4, <1>5, <1>6, <1>7, RungsKept

LEMMA PolicyKeepsRungs ==
  ASSUME LadderSound, base' = base, Learn!RlStep
  PROVE  LadderSound'
<1>1. PICK x \in (Low[1]..High[1]) \X (Low[2]..High[2]) :
        ladder' = Learn!WithRungs(Learn!Ordered(x)[1], Learn!Ordered(x)[2])
  BY DEF Learn!RlStep, Learn!RlActions
<1> DEFINE a == Learn!Ordered(x)[1]
           b == Learn!Ordered(x)[2]
<1>2. x[1] \in Low[1]..High[1] /\ x[2] \in Low[2]..High[2]
  BY <1>1
<1>3. a = x[1] /\ b = IF x[2] > x[1] THEN x[2] ELSE x[1] + Gap
  BY DEF Learn!Ordered
<1> HIDE DEF a, b
<1>4. /\ a \in Int /\ b \in Int /\ a < b
      /\ Low[1] <= a /\ a <= High[1] /\ Low[2] <= b /\ b <= High[2]
  BY <1>2, <1>3, Bounds, LearnSettings
<1>5. /\ ladder' \in Seq(Int) /\ Len(ladder') >= 2 /\ Len(ladder') \in Nat
      /\ ladder'[1] = a /\ ladder'[2] = b
  BY <1>1, <1>4, RungsSet, LenProperties DEF a, b
<1>6. Len(ladder') >= 1
  BY <1>5
<1>7. QED BY <1>4, <1>5, <1>6, RungsKept

LEMMA LadderTuned ==
  ASSUME LadderSound, base' = base, Learn!ExitStep \/ Learn!RlStep \/ UNCHANGED ladder
  PROVE  LadderSound'
<1>1. CASE UNCHANGED ladder
  BY <1>1 DEF LadderSound, Learn!RungsOrdered, Learn!InOrder, Learn!InBounds
<1>2. QED BY <1>1, StepKeepsRungs, RestoreKeepsRungs, PolicyKeepsRungs DEF Learn!ExitStep

-----------------------------------------------------------------------------

LEMMA LearnTypes ==
  ASSUME LearnInv
  PROVE  Learn!TypeOK /\ Learn!RealFirst /\ Learn!RungsOrdered
<1>1. Learn!TypeOK
  BY DEF LearnInv, TablesSound, GateSound, LadderSound, ScoreSound, Learn!TypeOK
<1>2. Learn!RealFirst
  BY DEF LearnInv, GateSound, ScoreSound, Learn!RealFirst
<1>3. QED BY <1>1, <1>2 DEF LearnInv, LadderSound

LEMMA LearnStarts == Learn!Init => LearnInv
<1> SUFFICES ASSUME Learn!Init PROVE LearnInv
  OBVIOUS
<1>1. /\ native \in BOOLEAN /\ trained \in BOOLEAN /\ trades = << >> /\ realEver = 0
      /\ posted = << >> /\ samples = 0 /\ window = << >> /\ active = FALSE
      /\ gating = FALSE /\ refused = FALSE
      /\ base \in Bases /\ ladder = base /\ minScore = BaseScore
  BY DEF Learn!Init
<1>2. /\ Reals(trades) = {} /\ Cardinality(Reals(trades)) = 0
      /\ trades \in Seq(BOOLEAN) /\ Len(trades) = 0
      /\ posted \in Seq(BOOLEAN) /\ Len(posted) = 0
      /\ window \in Seq(BOOLEAN) /\ Len(window) = 0
  BY <1>1, EmptySeq, FS_EmptySet DEF Reals
<1>3. TablesSound
  BY <1>1, <1>2, LearnSettings DEF TablesSound
<1>4. GateSound
  <2>1. active \in BOOLEAN /\ gating \in BOOLEAN /\ refused \in BOOLEAN /\ ~(gating \/ refused)
    BY <1>1, Zenon
  <2>2. QED BY <1>1, <1>2, <2>1, LearnSettings DEF GateSound
<1>5. LadderSound
  BY <1>1, LearnSettings DEF LadderSound, Learn!RungsOrdered
<1>6. ScoreSound
  BY <1>1, LearnSettings DEF ScoreSound
<1>7. QED BY <1>3, <1>4, <1>5, <1>6 DEF LearnInv

\* What a part of the state keeps when its variables stay.
LEMMA LearnFrames ==
  ASSUME LearnInv
  PROVE  /\ UNCHANGED <<native, Learn!tables>> => TablesSound'
         /\ UNCHANGED <<realEver, trained, Learn!breaker, gating, refused>> => GateSound'
         /\ UNCHANGED <<base, ladder>> => LadderSound'
         /\ UNCHANGED <<realEver, minScore>> => ScoreSound'
<1>1. UNCHANGED <<native, Learn!tables>> => TablesSound'
  BY DEF LearnInv, TablesSound, Learn!tables
<1>2. UNCHANGED <<realEver, trained, Learn!breaker, gating, refused>> => GateSound'
  BY DEF LearnInv, GateSound, Learn!breaker
<1>3. UNCHANGED <<base, ladder>> => LadderSound'
  BY LadderTuned DEF LearnInv
<1>4. UNCHANGED <<realEver, minScore>> => ScoreSound'
  BY DEF LearnInv, ScoreSound
<1>5. QED BY <1>1, <1>2, <1>3, <1>4

\* The gate's window slides; a refusal needs the gate on.
LEMMA ScoreKeeps ==
  ASSUME LearnInv, Learn!GetScore
  PROVE  LearnInv'
<1>1. PICK low \in BOOLEAN :
        /\ window' = Learn!Slide(Learn!Blocked(low)) /\ active' = Learn!Trips(window')
        /\ refused' = (gating /\ Learn!Blocked(low))
        /\ UNCHANGED <<native, Learn!tables, trained, gating, base, Learn!config>>
  BY DEF Learn!GetScore
<1>2. Learn!Blocked(low) \in BOOLEAN /\ refused' \in BOOLEAN /\ (refused' => gating)
  <2>1. Learn!Blocked(low) \in BOOLEAN
    BY Zenon DEF Learn!Blocked
  <2>2. refused' = (gating /\ Learn!Blocked(low))
    BY <1>1
  <2>3. QED BY <2>1, <2>2, Zenon
<1>3. window' \in Seq(BOOLEAN) /\ Len(window') <= Window
  BY <1>1, <1>2, PushBounded, LearnSettings DEF LearnInv, GateSound, Learn!Slide
<1>4. active' \in BOOLEAN
  BY <1>1 DEF LearnInv, GateSound, Learn!Trips
<1>5. UNCHANGED <<native, Learn!tables, trained, gating, realEver, base, ladder, minScore>>
  BY <1>1 DEF Learn!tables, Learn!config
<1>6. GateSound'
  BY <1>2, <1>3, <1>4, <1>5 DEF LearnInv, GateSound
<1>7. QED BY <1>5, <1>6, LearnFrames DEF LearnInv

\* A close posts its outcome and tunes.
LEMMA ClosesKeep ==
  ASSUME LearnInv, Learn!Closes
  PROVE  LearnInv'
<1>1. PICK real \in BOOLEAN, target \in BOOLEAN :
        /\ Len(posted) < MaxPosted /\ posted' = Append(posted, real)
        /\ IF target THEN Learn!RunParamOptimizerNow(samples) ELSE UNCHANGED ladder
        /\ Learn!RunEntryTuner(samples)
        /\ UNCHANGED <<native, realEver, trades, samples, trained, Learn!breaker,
                       gating, refused, base>>
  BY DEF Learn!Closes
<1>2. /\ posted' \in Seq(BOOLEAN) /\ Len(posted') = Len(posted) + 1 /\ Len(posted) \in Nat
  BY <1>1, AppendProperties, LenProperties DEF LearnInv, TablesSound
<1>3. TablesSound'
  <2>1. Len(posted') <= MaxPosted
    BY <1>1, <1>2, LearnSettings
  <2>2. QED BY <1>1, <1>2, <2>1 DEF LearnInv, TablesSound
<1>4. Learn!ExitStep \/ Learn!RlStep \/ UNCHANGED ladder
  BY <1>1 DEF Learn!RunParamOptimizerNow, Learn!TuneExits
<1>5. LadderSound' /\ ScoreSound'
  BY <1>1, <1>4, LadderTuned, ScoreTuned DEF LearnInv
<1>6. GateSound'
  BY <1>1, LearnFrames
<1>7. QED BY <1>3, <1>5, <1>6 DEF LearnInv

\* The persistence worker writes an outcome: a sample, and a trade among the recent ones.
LEMMA WrittenKeeps ==
  ASSUME LearnInv, Learn!Written
  PROVE  LearnInv'
<1> DEFINE real == Head(posted)
           longer == Append(trades, real)
<1>1. /\ posted # << >>
      /\ trades' = IF Len(longer) > LookBack * MinReal THEN Tail(longer) ELSE longer
      /\ samples' = IF samples < SampleWindow THEN samples + 1 ELSE samples
      /\ realEver' = IF real /\ realEver < MinReal THEN realEver + 1 ELSE realEver
      /\ posted' = Tail(posted)
      /\ UNCHANGED <<native, trained, Learn!breaker, gating, refused, base, Learn!config>>
  BY DEF Learn!Written
<1>2. /\ real \in BOOLEAN
      /\ posted' \in Seq(BOOLEAN) /\ Len(posted') = Len(posted) - 1
      /\ Len(posted) \in Nat /\ Len(posted) <= MaxPosted
  BY <1>1, HeadTailProperties, LenProperties DEF LearnInv, TablesSound
<1> HIDE DEF real
<1>3. /\ trades' \in Seq(BOOLEAN) /\ Len(trades') <= LookBack * MinReal
      /\ Cardinality(Reals(trades)) \in Nat /\ Cardinality(Reals(trades')) \in Nat
      /\ Cardinality(Reals(trades')) <= Cardinality(Reals(trades)) + (IF real THEN 1 ELSE 0)
  BY <1>1, <1>2, TradePushed, LearnSettings DEF LearnInv, TablesSound
<1>4. samples' \in 0..SampleWindow
  BY <1>1, LearnSettings DEF LearnInv, TablesSound
<1>5. Len(posted') <= MaxPosted
  BY <1>2, LearnSettings
<1>6. /\ realEver' \in 0..MinReal
      /\ realEver' < MinReal =>
           realEver < MinReal /\ realEver' = realEver + (IF real THEN 1 ELSE 0)
      /\ realEver = MinReal => realEver' = MinReal
  BY <1>1, LearnSettings DEF LearnInv, TablesSound
<1>7. realEver' < MinReal => Cardinality(Reals(trades')) <= realEver'
  <2>1. realEver < MinReal => Cardinality(Reals(trades)) <= realEver
    BY DEF LearnInv, TablesSound
  <2>2. realEver \in Int /\ realEver' \in Int /\ MinReal \in Int
    BY <1>6, LearnSettings DEF LearnInv, TablesSound
  <2>3. QED BY <1>2, <1>3, <1>6, <2>1, <2>2
<1>8. TablesSound'
  BY <1>1, <1>2, <1>3, <1>4, <1>5, <1>6, <1>7 DEF LearnInv, TablesSound
<1>9. UNCHANGED <<trained, window, active, gating, refused, base, ladder, minScore>>
  BY <1>1 DEF Learn!breaker, Learn!config
<1>10. GateSound'
  BY <1>6, <1>9 DEF LearnInv, GateSound
<1>11. ScoreSound'
  BY <1>6, <1>9 DEF LearnInv, ScoreSound
<1>12. QED BY <1>8, <1>9, <1>10, <1>11, LearnFrames DEF LearnInv

\* The end of a cycle looks at the gate again, and tunes.
LEMMA RetrainKeeps ==
  ASSUME LearnInv, Learn!Retrain
  PROVE  LearnInv'
<1>1. PICK n \in 0..samples :
        /\ trained' = (trained \/ Learn!Trains(n))
        /\ IF n > 0 THEN window' = << >> /\ active' = FALSE ELSE UNCHANGED Learn!breaker
        /\ Learn!CheckGating /\ Learn!TuneExits(n) /\ Learn!RunEntryTuner(n)
        /\ UNCHANGED <<native, Learn!tables, refused, base>>
  BY DEF Learn!Retrain
<1>2. UNCHANGED <<native, realEver, refused, base>> /\ TablesSound'
  BY <1>1, LearnFrames DEF Learn!tables
<1>3. gating' \in BOOLEAN /\ (gating' => realEver = MinReal)
  BY <1>1, GateChecked DEF LearnInv
<1>4. Learn!ExitStep \/ Learn!RlStep \/ UNCHANGED ladder
  BY <1>1 DEF Learn!TuneExits
<1>5. LadderSound' /\ ScoreSound'
  BY <1>1, <1>2, <1>4, LadderTuned, ScoreTuned DEF LearnInv
<1>6. GateSound'
  <2>1. trained' \in BOOLEAN
    BY <1>1, Zenon
  <2>2. window' \in Seq(BOOLEAN) /\ Len(window') <= Window /\ active' \in BOOLEAN
    <3>1. CASE window' = << >> /\ active' = FALSE
      <4>1. window' \in Seq(BOOLEAN) /\ Len(window') <= Window
        BY <3>1, EmptySeq, LearnSettings
      <4>2. active' \in BOOLEAN
        BY <3>1, Zenon
      <4>3. QED BY <4>1, <4>2
    <3>2. CASE UNCHANGED Learn!breaker
      BY <3>2 DEF LearnInv, GateSound, Learn!breaker
    <3>3. QED BY <1>1, <3>1, <3>2
  <2>3. QED BY <1>2, <1>3, <2>1, <2>2 DEF LearnInv, GateSound
<1>7. QED BY <1>2, <1>5, <1>6 DEF LearnInv

LEMMA RetrainFailKeeps ==
  ASSUME LearnInv, Learn!RetrainFails
  PROVE  LearnInv'
<1>1. trained' \in {trained, TRUE}
      /\ UNCHANGED <<native, Learn!tables, Learn!breaker, gating, refused, base, Learn!config>>
  BY DEF Learn!RetrainFails
<1>2. UNCHANGED <<native, Learn!tables, realEver, window, active, gating, refused, base,
                  ladder, minScore>>
  BY <1>1 DEF Learn!tables, Learn!breaker, Learn!config
<1>3. GateSound'
  <2>1. trained \in BOOLEAN
    BY DEF LearnInv, GateSound
  <2>2. trained' \in BOOLEAN
    BY <1>1, <2>1, Zenon
  <2>3. QED BY <1>2, <2>2 DEF LearnInv, GateSound
<1>4. QED BY <1>2, <1>3, LearnFrames DEF LearnInv

\* A restart: every parameter starts over, and what was posted is lost.
LEMMA RestartKeeps ==
  ASSUME LearnInv, Learn!Restart
  PROVE  LearnInv'
<1>1. /\ posted' = << >> /\ UNCHANGED <<native, trades, realEver, samples, base>>
      /\ trained' \in {trained, FALSE} /\ window' = << >> /\ active' = FALSE
      /\ gating' = (Learn!RealTrades >= MinReal) /\ refused' = FALSE
      /\ ladder' = base /\ minScore' = BaseScore
  BY DEF Learn!Restart
<1>2. TablesSound'
  <2>1. posted' \in Seq(BOOLEAN) /\ Len(posted') = 0
    BY <1>1, EmptySeq
  <2>2. QED BY <1>1, <2>1, LearnSettings DEF LearnInv, TablesSound
<1>3. GateSound'
  <2>1. window' \in Seq(BOOLEAN) /\ Len(window') <= Window
    BY <1>1, EmptySeq, LearnSettings
  <2>2. active' \in BOOLEAN /\ refused' \in BOOLEAN /\ ~refused'
    BY <1>1, Zenon
  <2>3. gating' \in BOOLEAN
    BY <1>1
  <2>4. gating' => realEver' = MinReal
    BY <1>1, RealsNeeded DEF LearnInv
  <2>5. QED BY <1>1, <2>1, <2>2, <2>3, <2>4 DEF LearnInv, GateSound
<1>4. LadderSound'
  BY <1>1, LearnSettings DEF LearnInv, LadderSound, Learn!RungsOrdered
<1>5. ScoreSound'
  BY <1>1, LearnSettings DEF ScoreSound
<1>6. QED BY <1>2, <1>3, <1>4, <1>5 DEF LearnInv

LEMMA LearnKeeps ==
  ASSUME LearnInv, Learn!Next \/ UNCHANGED learnVars
  PROVE  LearnInv'
<1>1. CASE UNCHANGED learnVars
  BY <1>1, LearnFrames DEF LearnInv, learnVars, Learn!tables, Learn!breaker
<1>2. QED
  BY <1>1, ScoreKeeps, ClosesKeep, WrittenKeeps, RetrainKeeps, RetrainFailKeeps, RestartKeeps
  DEF Learn!Next

-----------------------------------------------------------------------------
(* The training of the models.                                             *)

\* What was settled of the last save is as it was saved, and what was saved of a
\* bucket that is not torn is whole.
SaveSound ==
  /\ \A b \in Train!Names : b \notin torn => Train!Whole(saving[b])
  /\ \A k \in 1..settled : Train!Keys[k][1] \notin torn =>
        saved[Train!Keys[k][1]][Train!Keys[k][2]] = saving[Train!Keys[k][1]][Train!Keys[k][2]]

MemorySound ==
  \A i \in 1..2 :
     Train!Whole(models[Train!Buckets[i]]) \/ Train!Buckets[i] \in lame \/ training = i

TrainInv == Train!TypeOK /\ MemorySound /\ SaveSound

LEMMA TrainSettings == SampleWindow \in Nat /\ MaxTrainings \in Nat
BY LearningAssumptions DEF Train!TrainingAssumption

LEMMA BucketNames ==
  /\ Len(Train!Buckets) = 2
  /\ \A i \in 1..2 : Train!Buckets[i] \in Train!Names
  /\ \A b \in Train!Names : \E i \in 1..2 : Train!Buckets[i] = b
<1>1. Train!Buckets[1] = "default" /\ Train!Buckets[2] = "pumpfun" /\ Len(Train!Buckets) = 2
  BY DEF Train!Buckets
<1>2. \A i \in 1..2 : i = 1 \/ i = 2
  OBVIOUS
<1>3. 1 \in 1..2 /\ 2 \in 1..2
  OBVIOUS
<1>4. QED BY <1>1, <1>2, <1>3 DEF Train!Names

LEMMA KeyNames ==
  /\ Len(Train!Keys) = 4
  /\ \A k \in 1..4 : Train!Keys[k][1] \in Train!Names /\ Train!Keys[k][2] \in Train!Fields
  /\ \A b \in Train!Names : \A f \in Train!Fields :
        \E k \in 1..4 : Train!Keys[k][1] = b /\ Train!Keys[k][2] = f
<1>1. /\ Len(Train!Keys) = 4
      /\ Train!Keys[1] = <<"default", "weights">> /\ Train!Keys[2] = <<"default", "stats">>
      /\ Train!Keys[3] = <<"pumpfun", "weights">> /\ Train!Keys[4] = <<"pumpfun", "stats">>
  BY DEF Train!Keys
<1>2. \A k \in 1..4 : k = 1 \/ k = 2 \/ k = 3 \/ k = 4
  OBVIOUS
<1>3. 1 \in 1..4 /\ 2 \in 1..4 /\ 3 \in 1..4 /\ 4 \in 1..4
  OBVIOUS
<1>4. QED BY <1>1, <1>2, <1>3 DEF Train!Names, Train!Fields

\* A field of a model set to the number of a training.
LEMMA FieldSet ==
  ASSUME NEW m \in [Train!Names -> Train!Pair], NEW b \in Train!Names, NEW f \in Train!Fields,
         NEW v \in -1..MaxTrainings
  PROVE  /\ [m EXCEPT ![b][f] = v] \in [Train!Names -> Train!Pair]
         /\ \A c \in Train!Names : c # b => [m EXCEPT ![b][f] = v][c] = m[c]
         /\ \A g \in Train!Fields :
               [m EXCEPT ![b][f] = v][b][g] = IF g = f THEN v ELSE m[b][g]
BY DEF Train!Pair

LEMMA NextBucketIs ==
  ASSUME NEW from \in 0..2, NEW s
  PROVE  Train!NextBucket(from, s) \in 0..2
<1> DEFINE able == {i \in (from + 1)..2 : addon /\ Train!Enough(Train!Count(Train!Buckets[i], s))}
<1>1. Train!NextBucket(from, s) =
        IF able = {} THEN 0 ELSE CHOOSE i \in able : \A j \in able : i <= j
  BY BucketNames DEF Train!NextBucket
<1>2. able \in SUBSET Nat /\ \A i \in able : i \in 0..2
  OBVIOUS
<1> HIDE DEF able
<1>3. able # {} => \E i \in able : \A j \in able : i <= j
  BY <1>2, LeastOf
<1>4. CASE able = {}
  BY <1>1, <1>4
<1>5. CASE able # {}
  <2>1. Train!NextBucket(from, s) \in able
    BY <1>1, <1>3, <1>5
  <2>2. QED BY <1>2, <2>1
<1>6. QED BY <1>4, <1>5

LEMMA TrainStarts == Train!Init => TrainInv
<1> SUFFICES ASSUME Train!Init PROVE TrainInv
  OBVIOUS
<1>1. /\ addon \in BOOLEAN /\ rows = << >> /\ batch = << >>
      /\ models = [b \in Train!Names |-> Train!Fresh]
      /\ saved = [b \in Train!Names |-> Train!Absent] /\ saving = saved /\ settled = 4
      /\ training = 0 /\ version = 0 /\ lame = {} /\ torn = {}
  BY KeyNames DEF Train!Init
<1>2. Train!Fresh \in Train!Pair /\ Train!Absent \in Train!Pair
  BY TrainSettings DEF Train!Fresh, Train!Absent, Train!Pair
<1>3. Train!Whole(Train!Fresh) /\ Train!Whole(Train!Absent)
  BY DEF Train!Whole, Train!Fresh, Train!Absent, Train!Fields
<1>4. Train!TypeOK
  <2>1. rows \in Seq(BOOLEAN) /\ Len(rows) = 0 /\ batch \in Seq(BOOLEAN) /\ Len(batch) = 0
    BY <1>1, EmptySeq
  <2>2. {models, saved, saving} \subseteq [Train!Names -> Train!Pair]
    BY <1>1, <1>2
  <2>3. QED BY <1>1, <2>1, <2>2, KeyNames, BucketNames, TrainSettings DEF Train!TypeOK
<1>5. MemorySound
  BY <1>1, <1>3, BucketNames DEF MemorySound
<1>6. SaveSound
  BY <1>1, <1>3 DEF SaveSound
<1>7. QED BY <1>4, <1>5, <1>6 DEF TrainInv

LEMMA SampledKeeps ==
  ASSUME TrainInv, Train!Sampled
  PROVE  TrainInv'
<1>1. PICK pump \in BOOLEAN :
        /\ rows' = IF Len(Append(rows, pump)) > SampleWindow THEN Tail(Append(rows, pump))
                   ELSE Append(rows, pump)
        /\ UNCHANGED <<Train!memory, Train!saves>>
  BY DEF Train!Sampled
<1>2. rows' \in Seq(BOOLEAN) /\ Len(rows') <= SampleWindow
  BY <1>1, TrainSettings, PushBounded DEF TrainInv, Train!TypeOK
<1>3. UNCHANGED <<addon, models, training, batch, version, lame, saved, saving, settled, torn>>
  BY <1>1 DEF Train!memory, Train!saves
<1>4. QED BY <1>2, <1>3 DEF TrainInv, Train!TypeOK, MemorySound, SaveSound

\* A cycle goes on to a bucket, or saves: the models are whole but for those that failed.
LEMMA ContinueKeeps ==
  ASSUME TrainInv, NEW current \in [Train!Names -> Train!Pair],
         NEW failed \in SUBSET Train!Names, NEW next \in 0..2,
         \A b \in Train!Names : Train!Whole(current[b]) \/ b \in failed,
         Train!Continue(current, failed, next),
         addon' \in BOOLEAN, rows' \in Seq(BOOLEAN), Len(rows') <= SampleWindow,
         batch' \in Seq(BOOLEAN), Len(batch') <= SampleWindow
  PROVE  TrainInv'
<1>1. lame' = failed
  BY DEF Train!Continue
<1>2. CASE next = 0
  <2>1. /\ settled' = 0 /\ saving' = current /\ torn' = failed /\ training' = 0
        /\ models' = current /\ UNCHANGED <<saved, version>>
    BY <1>2 DEF Train!Continue, Train!Save
  <2>2. Train!TypeOK'
    BY <1>1, <2>1, KeyNames, BucketNames DEF TrainInv, Train!TypeOK
  <2>3. MemorySound'
    BY <1>1, <2>1, BucketNames DEF MemorySound, Train!Whole
  <2>4. SaveSound'
    BY <2>1 DEF SaveSound, Train!Whole
  <2>5. QED BY <2>2, <2>3, <2>4 DEF TrainInv
<1>3. CASE next # 0
  <2> DEFINE b == Train!Buckets[next]
  <2>1. /\ version < MaxTrainings /\ version' = version + 1 /\ training' = next
        /\ models' = [current EXCEPT ![b]["stats"] = version']
        /\ UNCHANGED <<saved, saving, settled, torn>>
    BY <1>3 DEF Train!Continue, Train!Refit, Train!saves
  <2>2. next \in 1..2 /\ b \in Train!Names /\ "stats" \in Train!Fields
    BY <1>3, BucketNames DEF Train!Fields
  <2>3. version' \in 0..MaxTrainings /\ version' \in -1..MaxTrainings
    BY <2>1, TrainSettings DEF TrainInv, Train!TypeOK
  <2>4. /\ models' \in [Train!Names -> Train!Pair]
        /\ \A c \in Train!Names : c # b => models'[c] = current[c]
    BY <2>1, <2>2, <2>3, FieldSet
  <2>5. Train!TypeOK'
    <3>1. training' \in 0..Len(Train!Buckets)
      BY <2>1, BucketNames
    <3>2. QED BY <1>1, <2>1, <2>3, <2>4, <3>1 DEF TrainInv, Train!TypeOK
  <2>6. MemorySound'
    <3> SUFFICES ASSUME NEW i \in 1..2, i # next
                 PROVE  Train!Whole(models'[Train!Buckets[i]]) \/ Train!Buckets[i] \in lame'
      BY <2>1 DEF MemorySound, Train!Whole
    <3>1. Train!Buckets[i] # b /\ Train!Buckets[i] \in Train!Names
      <4>1. Train!Buckets[1] # Train!Buckets[2]
        BY DEF Train!Buckets
      <4>2. QED BY <2>2, <4>1, BucketNames
    <3>2. QED BY <1>1, <2>4, <3>1
  <2>7. SaveSound'
    BY <2>1 DEF TrainInv, SaveSound, Train!Whole
  <2>8. QED BY <2>5, <2>6, <2>7 DEF TrainInv
<1>4. QED BY <1>2, <1>3

LEMMA CycleKeeps ==
  ASSUME TrainInv, Train!Retrain
  PROVE  TrainInv'
<1>1. /\ training = 0 /\ batch' = rows /\ UNCHANGED <<addon, rows>>
      /\ Train!Continue(models, lame, Train!NextBucket(0, rows))
  BY DEF Train!Retrain
<1>2. Train!NextBucket(0, rows) \in 0..2
  BY NextBucketIs
<1>3. \A b \in Train!Names : Train!Whole(models[b]) \/ b \in lame
  BY <1>1, BucketNames DEF TrainInv, MemorySound
<1>4. /\ models \in [Train!Names -> Train!Pair] /\ lame \in SUBSET Train!Names
      /\ addon \in BOOLEAN /\ rows \in Seq(BOOLEAN) /\ Len(rows) <= SampleWindow
  BY DEF TrainInv, Train!TypeOK
<1>5. addon' \in BOOLEAN
  BY <1>1, <1>4
<1>6. QED BY <1>1, <1>2, <1>3, <1>4, <1>5, ContinueKeeps

\* The bucket in training comes out whole, and the others are as they were.
LEMMA TrainingEndKeeps ==
  ASSUME TrainInv, Train!TrainingEnds
  PROVE  TrainInv'
<1> DEFINE b == Train!Buckets[training]
           current == [models EXCEPT ![b]["weights"] = models[b]["stats"]]
           failed == lame \ {b}
<1>1. /\ training # 0 /\ UNCHANGED <<addon, rows, batch>>
      /\ Train!Continue(current, failed, Train!NextBucket(training, batch))
  BY DEF Train!TrainingEnds
<1>2. /\ models \in [Train!Names -> Train!Pair] /\ lame \in SUBSET Train!Names
      /\ training \in 1..2 /\ b \in Train!Names
      /\ addon \in BOOLEAN /\ rows \in Seq(BOOLEAN) /\ Len(rows) <= SampleWindow
      /\ batch \in Seq(BOOLEAN) /\ Len(batch) <= SampleWindow
  BY <1>1, BucketNames DEF TrainInv, Train!TypeOK
<1>3. Train!NextBucket(training, batch) \in 0..2
  BY <1>2, NextBucketIs
<1>4. "weights" \in Train!Fields /\ "stats" \in Train!Fields
      /\ models[b]["stats"] \in -1..MaxTrainings
  BY <1>2 DEF Train!Fields, Train!Pair
<1> HIDE DEF b
<1>5. /\ current \in [Train!Names -> Train!Pair]
      /\ \A c \in Train!Names : c # b => current[c] = models[c]
      /\ current[b]["weights"] = current[b]["stats"]
  <2>1. /\ current \in [Train!Names -> Train!Pair]
        /\ \A c \in Train!Names : c # b => current[c] = models[c]
        /\ \A g \in Train!Fields :
              current[b][g] = IF g = "weights" THEN models[b]["stats"] ELSE models[b][g]
    BY <1>2, <1>4, FieldSet
  <2>2. QED BY <1>4, <2>1
<1> HIDE DEF current
<1>6. \A c \in Train!Names : Train!Whole(current[c]) \/ c \in failed
  <2> TAKE c \in Train!Names
  <2>1. CASE c = b
    BY <1>5, <2>1 DEF Train!Whole
  <2>2. CASE c # b
    <3>1. Train!Whole(models[c]) \/ c \in lame
      <4>1. PICK i \in 1..2 : Train!Buckets[i] = c
        BY BucketNames
      <4>2. training # i
        BY <2>2, <4>1 DEF b
      <4>3. QED BY <4>1, <4>2 DEF TrainInv, MemorySound
    <3>2. QED BY <1>5, <2>2, <3>1
  <2>3. QED BY <2>1, <2>2
<1>7. failed \in SUBSET Train!Names /\ addon' \in BOOLEAN
      /\ rows' = rows /\ batch' = batch
  BY <1>1, <1>2
<1> HIDE DEF failed
<1>8. QED BY <1>1, <1>2, <1>3, <1>5, <1>6, <1>7, ContinueKeeps

LEMMA TrainingFailKeeps ==
  ASSUME TrainInv, Train!TrainingFails
  PROVE  TrainInv'
<1>1. /\ training # 0 /\ training' = 0 /\ lame' = lame \cup {Train!Buckets[training]}
      /\ UNCHANGED <<addon, rows, models, batch, version, saved, saving, settled, torn>>
  BY DEF Train!TrainingFails, Train!Abandon, Train!saves
<1>2. training \in 1..2 /\ Train!Buckets[training] \in Train!Names
  BY <1>1, BucketNames DEF TrainInv, Train!TypeOK
<1>3. Train!TypeOK'
  BY <1>1, <1>2, BucketNames DEF TrainInv, Train!TypeOK
<1>4. MemorySound'
  BY <1>1, <1>2 DEF TrainInv, MemorySound, Train!Whole
<1>5. SaveSound'
  BY <1>1 DEF TrainInv, SaveSound, Train!Whole
<1>6. QED BY <1>3, <1>4, <1>5 DEF TrainInv

\* The next key of a save is written, or dropped and its bucket torn.
LEMMA KeyKeeps ==
  ASSUME TrainInv, Train!KeyWritten \/ Train!KeyDropped
  PROVE  TrainInv'
<1> DEFINE b == Train!Keys[settled'][1]
           f == Train!Keys[settled'][2]
<1>1. /\ settled < 4 /\ settled' = settled + 1
      /\ UNCHANGED <<addon, models, training, batch, version, lame, rows, saving>>
      /\ \/ saved' = [saved EXCEPT ![b][f] = saving[b][f]] /\ torn' = torn
         \/ saved' = saved /\ torn' = torn \cup {b}
  BY KeyNames DEF Train!KeyWritten, Train!KeyDropped, Train!memory
<1>2. settled \in 0..4 /\ settled' \in 1..4
  BY <1>1, KeyNames DEF TrainInv, Train!TypeOK
<1>3. /\ saved \in [Train!Names -> Train!Pair] /\ saving \in [Train!Names -> Train!Pair]
      /\ b \in Train!Names /\ f \in Train!Fields /\ saving[b][f] \in -1..MaxTrainings
  <2>1. saved \in [Train!Names -> Train!Pair] /\ saving \in [Train!Names -> Train!Pair]
    BY DEF TrainInv, Train!TypeOK
  <2>2. b \in Train!Names /\ f \in Train!Fields
    BY <1>2, KeyNames
  <2> HIDE DEF b, f
  <2>3. QED BY <2>1, <2>2 DEF Train!Pair
<1> HIDE DEF b, f
<1>4. /\ saved' \in [Train!Names -> Train!Pair]
      /\ b \notin torn' => saved'[b][f] = saving[b][f]
      /\ \A c \in Train!Names : \A g \in Train!Fields :
            c # b \/ g # f => saved'[c][g] = saved[c][g]
  <2>1. CASE saved' = [saved EXCEPT ![b][f] = saving[b][f]]
    <3> DEFINE v == saving[b][f]
    <3>1. v \in -1..MaxTrainings /\ saved' = [saved EXCEPT ![b][f] = v]
      BY <1>3, <2>1
    <3> HIDE DEF v
    <3>2. /\ saved' \in [Train!Names -> Train!Pair]
          /\ \A c \in Train!Names : c # b => saved'[c] = saved[c]
          /\ \A g \in Train!Fields : saved'[b][g] = IF g = f THEN v ELSE saved[b][g]
      BY <1>3, <3>1 DEF Train!Pair
    <3>3. QED BY <1>3, <3>2 DEF v
  <2>2. CASE saved' = saved /\ torn' = torn \cup {b}
    BY <1>3, <2>2
  <2>3. QED BY <1>1, <2>1, <2>2
<1>5. torn' \subseteq Train!Names /\ torn \subseteq torn'
  BY <1>1, <1>3 DEF TrainInv, Train!TypeOK
<1>6. Train!TypeOK'
  BY <1>1, <1>2, <1>4, <1>5, KeyNames DEF TrainInv, Train!TypeOK
<1>7. MemorySound'
  BY <1>1 DEF TrainInv, MemorySound, Train!Whole
<1>8. SaveSound'
  <2>1. \A c \in Train!Names : c \notin torn' => Train!Whole(saving'[c])
    BY <1>1, <1>5 DEF TrainInv, SaveSound
  <2>2. ASSUME NEW k \in 1..settled', Train!Keys[k][1] \notin torn'
        PROVE  saved'[Train!Keys[k][1]][Train!Keys[k][2]]
                 = saving'[Train!Keys[k][1]][Train!Keys[k][2]]
    <3>1. k \in 1..4 /\ (k = settled' \/ k \in 1..settled)
      BY <1>1, <1>2
    <3>2. Train!Keys[k][1] \in Train!Names /\ Train!Keys[k][2] \in Train!Fields
      BY <3>1, KeyNames
    <3>3. CASE Train!Keys[k][1] = b /\ Train!Keys[k][2] = f
      BY <1>1, <1>4, <2>2, <3>3
    <3>4. CASE ~(Train!Keys[k][1] = b /\ Train!Keys[k][2] = f)
      <4>1. k \in 1..settled
        BY <3>1, <3>4 DEF b, f
      <4>2. saved[Train!Keys[k][1]][Train!Keys[k][2]]
              = saving[Train!Keys[k][1]][Train!Keys[k][2]]
        BY <1>5, <2>2, <4>1 DEF TrainInv, SaveSound
      <4>3. QED BY <1>1, <1>4, <3>2, <3>4, <4>2
    <3>5. QED BY <3>3, <3>4
  <2>3. QED BY <2>1, <2>2 DEF SaveSound, Train!Whole
<1>9. QED BY <1>6, <1>7, <1>8 DEF TrainInv

\* Of a bucket no key of which is missing, the database has what was saved.
LEMMA SavedWhole ==
  ASSUME TrainInv, NEW b \in Train!Names, b \notin torn,
         \A k \in (settled + 1)..4 : Train!Keys[k][1] # b
  PROVE  /\ \A f \in Train!Fields : saved[b][f] = saving[b][f]
         /\ Train!Whole(Train!Load(saved[b]))
<1>1. \A f \in Train!Fields : saved[b][f] = saving[b][f]
  <2> TAKE f \in Train!Fields
  <2>1. PICK k \in 1..4 : Train!Keys[k][1] = b /\ Train!Keys[k][2] = f
    BY KeyNames
  <2>2. settled \in 0..4 /\ k \notin (settled + 1)..4
    BY <2>1, KeyNames DEF TrainInv, Train!TypeOK
  <2>3. k \in 1..settled
    BY <2>1, <2>2
  <2>4. QED BY <2>1, <2>3 DEF TrainInv, SaveSound
<1>2. Train!Whole(saving[b]) /\ Train!Whole(saved[b])
  BY <1>1 DEF TrainInv, SaveSound, Train!Whole, Train!Fields
<1>3. Train!Whole(Train!Fresh)
  BY DEF Train!Whole, Train!Fresh, Train!Fields
<1>4. QED BY <1>1, <1>2, <1>3 DEF Train!Load

\* What a start loads is whole, unless the last save of it may not be.
LEMMA TrainRestartKeeps ==
  ASSUME TrainInv, Train!Restart
  PROVE  TrainInv'
<1> DEFINE cut == {Train!Keys[k][1] : k \in (settled + 1)..4}
<1>1. /\ models' = [b \in Train!Names |-> Train!Load(saved[b])]
      /\ settled' = 4 /\ torn' = torn \cup cut /\ lame' = torn'
      /\ training' = 0 /\ batch' = << >> /\ addon' \in BOOLEAN
      /\ UNCHANGED <<rows, saved, saving, version>>
  BY KeyNames DEF Train!Restart
<1>2. settled \in 0..4 /\ torn' \subseteq Train!Names
  BY <1>1, KeyNames DEF TrainInv, Train!TypeOK
<1>3. \A b \in Train!Names : Train!Load(saved[b]) \in Train!Pair
  <2>1. Train!Fresh \in Train!Pair
    BY TrainSettings DEF Train!Fresh, Train!Pair
  <2>2. QED BY <2>1 DEF TrainInv, Train!TypeOK, Train!Load
<1>4. ASSUME NEW b \in Train!Names, b \notin torn'
      PROVE  /\ Train!Whole(models'[b]) /\ Train!Whole(saving[b])
             /\ \A f \in Train!Fields : saved[b][f] = saving[b][f]
  <2>1. b \notin torn /\ \A k \in (settled + 1)..4 : Train!Keys[k][1] # b
    BY <1>1, <1>4
  <2>2. QED BY <1>1, <2>1, SavedWhole DEF TrainInv, SaveSound
<1>5. Train!TypeOK'
  <2>1. batch' \in Seq(BOOLEAN) /\ Len(batch') <= SampleWindow
    BY <1>1, EmptySeq, TrainSettings
  <2>2. models' \in [Train!Names -> Train!Pair]
    BY <1>1, <1>3
  <2>3. QED BY <1>1, <1>2, <2>1, <2>2, KeyNames, BucketNames DEF TrainInv, Train!TypeOK
<1>6. MemorySound'
  <2> SUFFICES ASSUME NEW i \in 1..2, Train!Buckets[i] \notin torn'
               PROVE  Train!Whole(models'[Train!Buckets[i]])
    BY <1>1 DEF MemorySound, Train!Whole
  <2>1. QED BY <1>4, BucketNames
<1>7. SaveSound'
  <2>1. \A k \in 1..4 : Train!Keys[k][1] \in Train!Names /\ Train!Keys[k][2] \in Train!Fields
    BY KeyNames
  <2>2. QED BY <1>1, <1>4, <2>1 DEF SaveSound, Train!Whole
<1>8. QED BY <1>5, <1>6, <1>7 DEF TrainInv

LEMMA TrainKeeps ==
  ASSUME TrainInv, Train!Next \/ UNCHANGED trainVars
  PROVE  TrainInv'
<1>1. CASE UNCHANGED trainVars
  BY <1>1 DEF trainVars, TrainInv, Train!TypeOK, MemorySound, SaveSound, Train!Whole
<1>2. QED
  BY <1>1, SampledKeeps, CycleKeeps, TrainingEndKeeps, TrainingFailKeeps, KeyKeeps,
     TrainRestartKeeps
  DEF Train!Next

LEMMA TrainSound ==
  ASSUME TrainInv
  PROVE  Train!TypeOK /\ Train!ModelsWhole
<1>1. settled \in 0..4 /\ (settled = 4 \/ settled < 4)
  BY KeyNames DEF TrainInv, Train!TypeOK
<1>2. \A b \in Train!Names : Train!Whole(Train!Load(saved[b])) \/ b \in torn \/ settled < 4
  <2> SUFFICES ASSUME NEW b \in Train!Names, b \notin torn, settled = 4
               PROVE  Train!Whole(Train!Load(saved[b]))
    BY <1>1
  <2>1. (settled + 1)..4 = {}
    OBVIOUS
  <2>2. QED BY <2>1, SavedWhole
<1>3. QED BY <1>2, KeyNames, BucketNames DEF TrainInv, MemorySound, Train!ModelsWhole

-----------------------------------------------------------------------------

LEMMA LearningKeeps ==
  ASSUME GhostInv /\ LearnInv /\ TrainInv, [RunNext]_allVars
  PROVE  (GhostInv /\ LearnInv /\ TrainInv)'
<1>1. /\ Ghost!Next \/ UNCHANGED ghostVars
      /\ Learn!Next \/ UNCHANGED learnVars
      /\ Train!Next \/ UNCHANGED trainVars
  BY DEF RunNext, LifeStep, GhostStep, LearnStep, TrainStep, allVars
<1>2. QED BY <1>1, GhostsKeep, LearnKeeps, TrainKeeps

\* Whatever the configured ladder and score, the market and the replays, and
\* wherever a training fails, a write is dropped or the bot restarts: a ghost is
\* credited with the rungs its peak reached; a model has the statistics of its
\* weights but for the named failures, and heals when trained; neither a refusal
\* nor a stricter score rests on ghosts alone; and rungs configured in order and
\* in bounds stay so (ghost-trader.ts, ml-service.ts, scoring-model.ts,
\* param-optimizer.ts, rl-exit-optimizer.ts).
THEOREM LearningIsSound == RunSpec => []LearningSound
<1>1. RunInit => GhostInv /\ LearnInv /\ TrainInv
  BY GhostsStart, LearnStarts, TrainStarts DEF RunInit
<1>2. (GhostInv /\ LearnInv /\ TrainInv) /\ [RunNext]_allVars
        => (GhostInv /\ LearnInv /\ TrainInv)'
  BY LearningKeeps
<1>3. GhostInv /\ LearnInv /\ TrainInv => LearningSound
  BY LearnTypes, TrainSound DEF GhostInv, LearningSound
<1>4. QED BY <1>1, <1>2, <1>3, PTL DEF RunSpec

=============================================================================
