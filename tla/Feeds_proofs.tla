---------------------------- MODULE Feeds_proofs ----------------------------
(***************************************************************************)
(* Proofs about the feeds, for every set of programs, endpoints, sockets   *)
(* and controllers and any number of writes and broken connections: every  *)
(* stream that is not aborted has its owner, and the frames of the plugin  *)
(* arrive whole and in order.  Each feed has its own invariant.            *)
(***************************************************************************)
EXTENDS MCFeeds, FiniteSetTheorems, SequenceTheorems, TLAPS

-----------------------------------------------------------------------------
(* The streams of a position.                                              *)

\* A derivation that nothing overtook is the only one, of an open position
\* without a stream of the token account.
Undisturbed == deriving > 0 /\ ~raced => held /\ deriving = 1 /\ ata = {} /\ ataOwner = {}

VaultsInv == Vaults!TypeOK /\ Vaults!StreamsOfHeld /\ Undisturbed

LEMMA VaultsTyped ==
    ASSUME VaultsInv
    PROVE  /\ vaults \in [Controllers -> [Vaults!Sides -> Vaults!Phases]]
           /\ Vaults!Unsubscribed \in [Controllers -> [Vaults!Sides -> Vaults!Phases]]
           /\ cache \in [Vaults!Sides -> 0..MaxVersion] /\ pool \in 0..MaxVersion
           /\ due \in [Vaults!Sides -> SUBSET (0..MaxVersion)] /\ reading \in 0..MaxVersion
           /\ Vaults!KeepDue => due' \in [Vaults!Sides -> SUBSET (0..MaxVersion)]
           /\ MaxVersion \in Nat /\ deriving \in 0..2
           /\ \A p \in Vaults!Phases : Vaults!Both(p) \in [Vaults!Sides -> Vaults!Phases]
<1>1. \A p \in Vaults!Phases : Vaults!Both(p) \in [Vaults!Sides -> Vaults!Phases]
    BY DEF Vaults!Both
<1>2. Vaults!NoStream \in Vaults!Phases
    BY DEF Vaults!Phases
<1>3. vaults \in [Controllers -> [Vaults!Sides -> Vaults!Phases]]
    BY DEF VaultsInv, Vaults!TypeOK
<1>4. Vaults!Unsubscribed \in [Controllers -> [Vaults!Sides -> Vaults!Phases]]
    BY <1>1, <1>2, <1>3 DEF Vaults!Unsubscribed
<1>5. Vaults!KeepDue => due' \in [Vaults!Sides -> SUBSET (0..MaxVersion)]
    BY DEF VaultsInv, Vaults!TypeOK, Vaults!KeepDue
<1>6. QED
    BY <1>1, <1>3, <1>4, <1>5, FeedsAssumption
       DEF VaultsInv, Vaults!TypeOK, Vaults!VaultStreamsAssumption

\* After the owner's streams are aborted none is left.
LEMMA NoneUnsubscribed ==
    ASSUME VaultsInv, NEW c \in Controllers
    PROVE  Vaults!Unsubscribed[c] = Vaults!Both(Vaults!NoStream)
BY DEF VaultsInv, Vaults!StreamsOfHeld, Vaults!Unsubscribed

LEMMA VaultsBuyKeeps ==
    ASSUME VaultsInv, Vaults!Buy
    PROVE  VaultsInv'
<1>1. /\ held' = TRUE /\ UNCHANGED <<ata, ataOwner, pool, cache, reading>> /\ deriving < 2
      /\ due' \in [Vaults!Sides -> SUBSET (0..MaxVersion)]
    BY VaultsTyped DEF Vaults!Buy
<1>2. ASSUME NEW c \in Controllers,
             vaults' = [Vaults!Unsubscribed EXCEPT ![c] = Vaults!Both("connecting")],
             vaultOwner' = {c}, deriving' = deriving + 1,
             raced' = (raced \/ deriving > 0 \/ ataOwner # {})
      PROVE  VaultsInv'
    <2>1. "connecting" \in Vaults!Phases /\ deriving' \in 0..2
        BY <1>1, <1>2, VaultsTyped DEF Vaults!Phases
    <2>2. vaults' \in [Controllers -> [Vaults!Sides -> Vaults!Phases]]
        BY <1>2, <2>1, VaultsTyped
    <2>3. Vaults!TypeOK'
        BY <1>1, <1>2, <2>1, <2>2 DEF VaultsInv, Vaults!TypeOK, Vaults!Sides, Vaults!Phases
    <2>4. \A d \in Controllers : d # c => vaults'[d] = Vaults!Both(Vaults!NoStream)
        BY <1>2, NoneUnsubscribed, VaultsTyped
    <2>5. \A d \in Controllers : d \in ata => raced' \/ (held' /\ ataOwner' = {d})
        BY <1>1, <1>2 DEF VaultsInv, Vaults!StreamsOfHeld
    <2>6. Vaults!StreamsOfHeld'
        BY <1>1, <1>2, <2>4, <2>5
           DEF Vaults!StreamsOfHeld, Vaults!Both, Vaults!Sides, Vaults!NoStream
    <2>7. ASSUME ~raced' PROVE deriving = 0 /\ ata = {} /\ ataOwner = {}
        <3>1. ~raced /\ ~(deriving > 0) /\ ataOwner = {}
            BY <1>2, <2>7
        <3>2. deriving = 0
            BY <3>1, VaultsTyped
        <3>3. ata \subseteq Controllers /\ \A d \in Controllers : d \in ata => ataOwner = {d}
            BY <3>1 DEF VaultsInv, Vaults!TypeOK, Vaults!StreamsOfHeld
        <3>4. ata = {}
            BY <3>1, <3>3
        <3>5. QED BY <3>1, <3>2, <3>4
    <2>8. Undisturbed'
        <3>1. ASSUME ~raced' PROVE deriving' = 1 /\ ata' = {} /\ ataOwner' = {}
            BY <1>1, <1>2, <2>7, <3>1
        <3>2. QED BY <1>1, <3>1 DEF Undisturbed
    <2>9. QED BY <2>3, <2>6, <2>8 DEF VaultsInv
<1>3. ASSUME vaults' = Vaults!Unsubscribed, vaultOwner' = {}, UNCHANGED <<deriving, raced>>
      PROVE  VaultsInv'
    <2>1. Vaults!TypeOK'
        BY <1>1, <1>3, VaultsTyped DEF VaultsInv, Vaults!TypeOK, Vaults!Sides, Vaults!Phases
    <2>2. \A d \in Controllers : vaults'[d] = Vaults!Both(Vaults!NoStream)
        BY <1>3, NoneUnsubscribed
    <2>3. Vaults!StreamsOfHeld'
        BY <1>1, <1>3, <2>2
           DEF VaultsInv, Vaults!StreamsOfHeld, Vaults!Both, Vaults!Sides, Vaults!NoStream
    <2>4. Undisturbed'
        BY <1>1, <1>3 DEF VaultsInv, Undisturbed
    <2>5. QED BY <2>1, <2>3, <2>4 DEF VaultsInv
<1>4. QED BY <1>2, <1>3 DEF Vaults!Buy

LEMMA VaultsDerivedKeeps ==
    ASSUME VaultsInv, Vaults!Derived
    PROVE  VaultsInv'
<1>1. PICK c \in Controllers : c \notin ata /\ ata' = ata \cup {c} /\ ataOwner' = {c}
    BY DEF Vaults!Derived
<1>2. /\ deriving > 0 /\ deriving' = deriving - 1
      /\ UNCHANGED <<held, vaults, vaultOwner, pool, due, cache, reading, raced>>
    BY DEF Vaults!Derived
<1>3. Vaults!TypeOK'
    <2>1. deriving' \in 0..2
        BY <1>2, VaultsTyped
    <2>2. QED BY <1>1, <1>2, <2>1
              DEF VaultsInv, Vaults!TypeOK, Vaults!Sides, Vaults!Phases
<1>4. Vaults!StreamsOfHeld'
    BY <1>1, <1>2
       DEF VaultsInv, Undisturbed, Vaults!StreamsOfHeld, Vaults!Both, Vaults!Sides,
           Vaults!NoStream
<1>5. Undisturbed'
    BY <1>2, VaultsTyped DEF VaultsInv, Undisturbed
<1>6. QED BY <1>3, <1>4, <1>5 DEF VaultsInv

LEMMA VaultsRemoveKeeps ==
    ASSUME VaultsInv, Vaults!Remove
    PROVE  VaultsInv'
<1>1. /\ held /\ held' = FALSE /\ vaults' = Vaults!Unsubscribed /\ vaultOwner' = {}
      /\ ata' = ata \ ataOwner /\ ataOwner' = {} /\ raced' = (raced \/ deriving > 0)
      /\ UNCHANGED <<deriving, pool, cache, reading>>
      /\ due' \in [Vaults!Sides -> SUBSET (0..MaxVersion)]
    BY VaultsTyped DEF Vaults!Remove, Vaults!RemovedVaults
<1>2. Vaults!TypeOK'
    BY <1>1, VaultsTyped DEF VaultsInv, Vaults!TypeOK, Vaults!Sides, Vaults!Phases
<1>3. \A d \in Controllers : vaults'[d] = Vaults!Both(Vaults!NoStream)
    BY <1>1, NoneUnsubscribed
<1>4. Vaults!StreamsOfHeld'
    BY <1>1, <1>3
       DEF VaultsInv, Vaults!StreamsOfHeld, Vaults!Both, Vaults!Sides, Vaults!NoStream
<1>5. Undisturbed'
    BY <1>1 DEF VaultsInv, Undisturbed
<1>6. QED BY <1>2, <1>4, <1>5 DEF VaultsInv

LEMMA VaultsMovesKeep ==
    ASSUME VaultsInv, NEW c \in Controllers, NEW side \in Vaults!Sides,
           NEW from \in Vaults!Phases \ {Vaults!NoStream}, NEW to \in Vaults!Phases,
           Vaults!Moves(c, side, from, to)
    PROVE  VaultsInv'
<1>1. /\ vaults[c][side] = from /\ vaults' = [vaults EXCEPT ![c][side] = to]
      /\ UNCHANGED <<held, ata, vaultOwner, ataOwner, deriving, pool, cache, reading, raced>>
      /\ due' \in [Vaults!Sides -> SUBSET (0..MaxVersion)]
    BY VaultsTyped DEF Vaults!Moves
<1>2. vaults[c] # Vaults!Both(Vaults!NoStream)
    BY <1>1 DEF Vaults!Both
<1>3. /\ vaults' \in [Controllers -> [Vaults!Sides -> Vaults!Phases]]
      /\ \A d \in Controllers : d # c => vaults'[d] = vaults[d]
    BY <1>1, VaultsTyped
<1>4. Vaults!TypeOK'
    BY <1>1, <1>3 DEF VaultsInv, Vaults!TypeOK, Vaults!Sides, Vaults!Phases
<1>5. Vaults!StreamsOfHeld'
    BY <1>1, <1>2, <1>3
       DEF VaultsInv, Vaults!StreamsOfHeld, Vaults!Both, Vaults!Sides, Vaults!NoStream
<1>6. QED BY <1>1, <1>4, <1>5 DEF VaultsInv, Undisturbed

LEMMA VaultsNextKeeps == VaultsInv /\ [Vaults!Next]_(Vaults!vars) => VaultsInv'
<1> SUFFICES ASSUME VaultsInv, [Vaults!Next]_(Vaults!vars) PROVE VaultsInv'
    OBVIOUS
<1>1. CASE Vaults!Buy \/ Vaults!Derived \/ Vaults!Remove
    BY <1>1, VaultsBuyKeeps, VaultsDerivedKeeps, VaultsRemoveKeeps
<1>2. ASSUME NEW c \in Controllers, NEW side \in Vaults!Sides,
             Vaults!Connects(c, side) \/ Vaults!Breaks(c, side) \/ Vaults!Retries(c, side)
      PROVE  VaultsInv'
    <2>1. PICK from \in {"connecting", "live", "sleeping"},
               to \in {"connecting", "live", "sleeping"} : Vaults!Moves(c, side, from, to)
        BY <1>2 DEF Vaults!Connects, Vaults!Breaks, Vaults!Retries
    <2>2. from \in Vaults!Phases \ {Vaults!NoStream} /\ to \in Vaults!Phases
        BY DEF Vaults!Phases, Vaults!NoStream
    <2>3. QED BY <2>1, <2>2, VaultsMovesKeep
<1>3. CASE \/ Vaults!PoolWrite \/ (\E side \in Vaults!Sides : Vaults!Push(side))
           \/ Vaults!QuoteReads \/ Vaults!QuoteStores \/ Vaults!QuoteFails
           \/ UNCHANGED Vaults!vars
    <2>1. UNCHANGED <<held, vaults, ata, vaultOwner, ataOwner, deriving, raced>>
        BY <1>3 DEF Vaults!PoolWrite, Vaults!Push, Vaults!QuoteReads, Vaults!QuoteStores,
                    Vaults!QuoteFails, Vaults!streams, Vaults!vars
    <2>2. /\ pool' \in 0..MaxVersion /\ cache' \in [Vaults!Sides -> 0..MaxVersion]
          /\ due' \in [Vaults!Sides -> SUBSET (0..MaxVersion)] /\ reading' \in 0..MaxVersion
        <3>1. CASE Vaults!PoolWrite
            BY <3>1, VaultsTyped DEF Vaults!PoolWrite
        <3>2. ASSUME NEW side \in Vaults!Sides, Vaults!Push(side)
              PROVE  /\ cache' \in [Vaults!Sides -> 0..MaxVersion]
                     /\ due' \in [Vaults!Sides -> SUBSET (0..MaxVersion)]
                     /\ pool' = pool /\ reading' = reading
            BY <3>2, VaultsTyped DEF Vaults!Push, Vaults!Pushed
        <3>3. CASE Vaults!QuoteReads \/ Vaults!QuoteStores \/ Vaults!QuoteFails
            BY <3>3, VaultsTyped DEF Vaults!QuoteReads, Vaults!QuoteStores, Vaults!QuoteFails
        <3>4. CASE UNCHANGED Vaults!vars
            BY <3>4, VaultsTyped DEF Vaults!vars
        <3>5. QED BY <1>3, <3>1, <3>2, <3>3, <3>4, VaultsTyped
    <2>3. Vaults!TypeOK'
        BY <2>1, <2>2 DEF VaultsInv, Vaults!TypeOK, Vaults!Sides, Vaults!Phases
    <2>4. QED BY <2>1, <2>3
              DEF VaultsInv, Undisturbed, Vaults!StreamsOfHeld, Vaults!Both, Vaults!Sides,
                  Vaults!NoStream
<1>4. QED BY <1>1, <1>2, <1>3 DEF Vaults!Next

LEMMA VaultsInit == Vaults!Init => VaultsInv
<1> SUFFICES ASSUME Vaults!Init PROVE VaultsInv
    OBVIOUS
<1>1. Vaults!TypeOK
    <2>1. MaxVersion \in Nat \ {0}
        BY FeedsAssumption DEF Vaults!VaultStreamsAssumption
    <2>2. Vaults!Both(Vaults!NoStream) \in [Vaults!Sides -> Vaults!Phases]
        BY DEF Vaults!Both, Vaults!Phases
    <2>3. vaults \in [Controllers -> [Vaults!Sides -> Vaults!Phases]]
        BY <2>2 DEF Vaults!Init
    <2>4. pool \in 0..MaxVersion /\ deriving \in 0..2
        BY <2>1 DEF Vaults!Init
    <2>5. /\ cache \in [Vaults!Sides -> 0..MaxVersion] /\ reading \in 0..MaxVersion
          /\ due \in [Vaults!Sides -> SUBSET (0..MaxVersion)]
        BY <2>1 DEF Vaults!Init
    <2>6. QED BY <2>3, <2>4, <2>5 DEF Vaults!Init, Vaults!TypeOK
<1>2. Vaults!StreamsOfHeld
    BY DEF Vaults!Init, Vaults!StreamsOfHeld
<1>3. Undisturbed
    BY DEF Vaults!Init, Undisturbed
<1>4. QED BY <1>1, <1>2, <1>3 DEF VaultsInv

-----------------------------------------------------------------------------
(* The clients that reconnect.                                             *)

\* A connection that is up or coming up is the one its client holds.  The hook
\* of the dashboard arms its timer when its only socket has closed, and closes
\* what it holds when it is unmounted.
ClientsInv ==
    /\ Clients!TypeOK
    /\ \A c \in Clients!Clients : Clients!Live(c) \subseteq owned[c]
    /\ \A s \in Sockets : socket[Clients!Website][s] # "free" =>
          s \in owned[Clients!Website] /\ Clients!Website \notin timer
    /\ Clients!Website \in gone =>
          Clients!Live(Clients!Website) = {} /\ Clients!Website \notin timer

LEMMA ClientsAreTwo ==
    /\ Clients!Helius \in Clients!Clients /\ Clients!Website \in Clients!Clients
    /\ Clients!Helius # Clients!Website
    /\ \A c \in Clients!Clients : c = Clients!Helius \/ c = Clients!Website
BY DEF Clients!Clients, Clients!Helius, Clients!Website

LEMMA ClientsTyped ==
    ASSUME ClientsInv, NEW c \in Clients!Clients
    PROVE  /\ socket[c] \in [Sockets -> {"free", "connecting", "open", "closing"}]
           /\ socket \in [Clients!Clients ->
                            [Sockets -> {"free", "connecting", "open", "closing"}]]
           /\ owned \in [Clients!Clients -> {{}} \cup {{s} : s \in Sockets}]
           /\ Clients!Closed(socket[c], c) \in
                [Sockets -> {"free", "connecting", "open", "closing"}]
           /\ \A s \in Sockets : Clients!Closed(socket[c], c)[s] \notin {"connecting", "open"}
           /\ \A s \in Sockets : Clients!Closed(socket[c], c)[s] = "free" <=> socket[c][s] = "free"
<1>1. /\ socket[c] \in [Sockets -> {"free", "connecting", "open", "closing"}]
      /\ socket \in [Clients!Clients -> [Sockets -> {"free", "connecting", "open", "closing"}]]
      /\ owned \in [Clients!Clients -> {{}} \cup {{s} : s \in Sockets}]
    BY DEF ClientsInv, Clients!TypeOK
<1>2. Clients!Closed(socket[c], c) \in [Sockets -> {"free", "connecting", "open", "closing"}]
    BY <1>1 DEF Clients!Closed
<1>3. ASSUME NEW s \in Sockets
      PROVE  /\ Clients!Closed(socket[c], c)[s] \notin {"connecting", "open"}
             /\ Clients!Closed(socket[c], c)[s] = "free" <=> socket[c][s] = "free"
    BY DEF Clients!Closed, ClientsInv, Clients!Live
<1>4. QED BY <1>1, <1>2, <1>3

\* A step of one socket that opens none.
LEMMA ClientsSocketKeeps ==
    ASSUME ClientsInv, NEW c \in Clients!Clients, NEW s \in Sockets,
           Clients!Opens(c, s) \/ Clients!Breaks(c, s)
    PROVE  ClientsInv'
<1>1. PICK to \in {"open", "closing"} : socket' = [socket EXCEPT ![c][s] = to]
    BY DEF Clients!Opens, Clients!Breaks
<1>2. UNCHANGED <<owned, timer, gone>> /\ refused' \in BOOLEAN /\ s \in Clients!Live(c)
    BY DEF Clients!Opens, Clients!Breaks, Clients!Live, ClientsInv, Clients!TypeOK
<1>3. /\ socket' \in [Clients!Clients -> [Sockets -> {"free", "connecting", "open", "closing"}]]
      /\ \A d \in Clients!Clients, t \in Sockets :
            socket'[d][t] = IF d = c /\ t = s THEN to ELSE socket[d][t]
    BY <1>1, ClientsTyped
<1>4. \A d \in Clients!Clients : Clients!Live(d)' \subseteq Clients!Live(d)
    BY <1>2, <1>3 DEF Clients!Live
<1>5. Clients!TypeOK'
    BY <1>2, <1>3 DEF ClientsInv, Clients!TypeOK
<1>6. \A t \in Sockets : socket'[Clients!Website][t] # "free" => socket[Clients!Website][t] # "free"
    BY <1>2, <1>3, ClientsAreTwo DEF Clients!Live
<1>7. QED BY <1>2, <1>4, <1>5, <1>6, ClientsAreTwo DEF ClientsInv

LEMMA ClientsCloseKeeps ==
    ASSUME ClientsInv, NEW c \in Clients!Clients, NEW s \in Sockets, Clients!CloseEvent(c, s)
    PROVE  ClientsInv'
<1>1. /\ socket[c][s] = "closing" /\ socket' = [socket EXCEPT ![c][s] = "free"]
      /\ timer' = IF Clients!Wants(c) THEN timer \cup {c} ELSE timer
      /\ UNCHANGED <<owned, gone>> /\ refused' \in BOOLEAN
    BY DEF Clients!CloseEvent, ClientsInv, Clients!TypeOK
<1>2. /\ socket' \in [Clients!Clients -> [Sockets -> {"free", "connecting", "open", "closing"}]]
      /\ \A d \in Clients!Clients, t \in Sockets :
            socket'[d][t] = IF d = c /\ t = s THEN "free" ELSE socket[d][t]
    BY <1>1, ClientsTyped
<1>3. Clients!TypeOK'
    BY <1>1, <1>2 DEF ClientsInv, Clients!TypeOK
<1>4. \A d \in Clients!Clients : Clients!Live(d)' \subseteq Clients!Live(d)
    BY <1>2 DEF Clients!Live
<1>5. ASSUME NEW t \in Sockets, socket'[Clients!Website][t] # "free"
      PROVE  t \in owned'[Clients!Website] /\ Clients!Website \notin timer'
    <2>1. socket[Clients!Website][t] # "free" /\ (c = Clients!Website => t # s)
        BY <1>2, <1>5, ClientsAreTwo
    <2>2. t \in owned[Clients!Website] /\ Clients!Website \notin timer
        BY <2>1 DEF ClientsInv
    <2>3. c # Clients!Website
        <3>1. SUFFICES ASSUME c = Clients!Website PROVE FALSE
            OBVIOUS
        <3>2. s \in owned[Clients!Website]
            BY <1>1, <3>1 DEF ClientsInv
        <3>3. owned[Clients!Website] \in {{}} \cup {{u} : u \in Sockets}
            BY ClientsTyped, ClientsAreTwo
        <3>4. QED BY <2>1, <2>2, <3>1, <3>2, <3>3
    <2>4. QED BY <1>1, <2>2, <2>3
<1>6. Clients!Website \in gone' => Clients!Live(Clients!Website)' = {} /\ Clients!Website \notin timer'
    BY <1>1, <1>4, ClientsAreTwo DEF ClientsInv, Clients!Wants
<1>7. QED BY <1>1, <1>3, <1>4, <1>5, <1>6 DEF ClientsInv

LEMMA ClientsTimerKeeps ==
    ASSUME ClientsInv, NEW c \in Clients!Clients, Clients!TimerFires(c)
    PROVE  ClientsInv'
<1>1. /\ c \in timer /\ timer' = timer \ {c} /\ UNCHANGED <<gone, refused>>
    BY DEF Clients!TimerFires
<1>2. PICK s \in Sockets :
        /\ socket' = [socket EXCEPT ![c] =
              [(IF c = Clients!Helius THEN Clients!Closed(socket[c], c) ELSE socket[c])
                  EXCEPT ![s] = "connecting"]]
        /\ owned' = [owned EXCEPT ![c] = {s}]
    BY DEF Clients!TimerFires, Clients!Connect
<1>3. /\ socket' \in [Clients!Clients -> [Sockets -> {"free", "connecting", "open", "closing"}]]
      /\ \A d \in Clients!Clients : d # c => socket'[d] = socket[d] /\ owned'[d] = owned[d]
      /\ owned'[c] = {s}
      /\ owned' \in [Clients!Clients -> {{}} \cup {{u} : u \in Sockets}]
    BY <1>2, ClientsTyped
<1>4. ASSUME NEW t \in Sockets, t # s PROVE socket'[c][t] \notin {"connecting", "open"}
    <2>1. CASE c = Clients!Helius
        BY <1>2, <1>4, <2>1, ClientsTyped
    <2>2. CASE c = Clients!Website
        <3>1. socket[c][t] = "free"
            BY <1>1, <2>2 DEF ClientsInv
        <3>2. QED BY <1>2, <1>4, <2>2, <3>1, ClientsTyped, ClientsAreTwo
    <2>3. QED BY <2>1, <2>2, ClientsAreTwo
<1>5. Clients!TypeOK'
    BY <1>1, <1>3 DEF ClientsInv, Clients!TypeOK
<1>6. \A d \in Clients!Clients : Clients!Live(d)' \subseteq owned'[d]
    BY <1>3, <1>4 DEF ClientsInv, Clients!Live
<1>7. ASSUME NEW t \in Sockets, socket'[Clients!Website][t] # "free"
      PROVE  t \in owned'[Clients!Website] /\ Clients!Website \notin timer'
    <2>1. CASE c = Clients!Website
        <3>1. socket[c][t] = "free"
            BY <1>1, <2>1 DEF ClientsInv
        <3>2. t = s
            BY <1>2, <1>7, <2>1, <3>1, ClientsTyped, ClientsAreTwo
        <3>3. QED BY <1>1, <1>3, <2>1, <3>2
    <2>2. CASE c # Clients!Website
        BY <1>1, <1>3, <1>7, <2>2, ClientsAreTwo DEF ClientsInv
    <2>3. QED BY <2>1, <2>2
<1>8. Clients!Website \in gone' => Clients!Live(Clients!Website)' = {} /\ Clients!Website \notin timer'
    BY <1>1, <1>3, ClientsAreTwo DEF ClientsInv, Clients!Live
<1>9. QED BY <1>5, <1>6, <1>7, <1>8 DEF ClientsInv

LEMMA ClientsLeaveKeeps ==
    ASSUME ClientsInv, NEW c \in Clients!Clients, Clients!Leave(c)
    PROVE  ClientsInv'
<1>1. /\ gone' = gone \cup {c} /\ timer' = timer \ {c} /\ UNCHANGED refused
      /\ socket' = [socket EXCEPT ![c] = Clients!Closed(socket[c], c)]
      /\ owned' = IF c = Clients!Helius THEN [owned EXCEPT ![c] = {}] ELSE owned
    BY DEF Clients!Leave
<1>2. /\ socket' \in [Clients!Clients -> [Sockets -> {"free", "connecting", "open", "closing"}]]
      /\ \A d \in Clients!Clients : d # c => socket'[d] = socket[d] /\ owned'[d] = owned[d]
      /\ owned' \in [Clients!Clients -> {{}} \cup {{u} : u \in Sockets}]
      /\ socket'[c] = Clients!Closed(socket[c], c)
      /\ owned'[Clients!Website] = owned[Clients!Website]
    BY <1>1, ClientsTyped, ClientsAreTwo
<1>3. Clients!Live(c)' = {}
    BY <1>2, ClientsTyped DEF Clients!Live
<1>4. Clients!TypeOK'
    BY <1>1, <1>2 DEF ClientsInv, Clients!TypeOK
<1>5. \A d \in Clients!Clients : Clients!Live(d)' \subseteq owned'[d]
    BY <1>2, <1>3 DEF ClientsInv, Clients!Live
<1>6. ASSUME NEW t \in Sockets, socket'[Clients!Website][t] # "free"
      PROVE  t \in owned'[Clients!Website] /\ Clients!Website \notin timer'
    <2>1. socket[Clients!Website][t] # "free"
        BY <1>2, <1>6, ClientsTyped, ClientsAreTwo
    <2>2. QED BY <1>1, <1>2, <2>1 DEF ClientsInv
<1>7. Clients!Website \in gone' => Clients!Live(Clients!Website)' = {} /\ Clients!Website \notin timer'
    BY <1>1, <1>2, <1>3, ClientsAreTwo DEF ClientsInv, Clients!Live
<1>8. QED BY <1>4, <1>5, <1>6, <1>7 DEF ClientsInv

LEMMA ClientsNextKeeps == ClientsInv /\ [Clients!Next]_(Clients!vars) => ClientsInv'
<1> SUFFICES ASSUME ClientsInv, [Clients!Next]_(Clients!vars) PROVE ClientsInv'
    OBVIOUS
<1>1. CASE Clients!Next
    BY <1>1, ClientsSocketKeeps, ClientsCloseKeeps, ClientsTimerKeeps, ClientsLeaveKeeps
       DEF Clients!Next
<1>2. CASE UNCHANGED Clients!vars
    BY <1>2 DEF Clients!vars, ClientsInv, Clients!TypeOK, Clients!Live
<1>3. QED BY <1>1, <1>2

LEMMA ClientsInit == Clients!Init => ClientsInv
<1> DEFINE first == CHOOSE s \in Sockets : TRUE
<1> SUFFICES ASSUME Clients!Init PROVE ClientsInv
    OBVIOUS
<1>1. first \in Sockets
    BY FeedsAssumption DEF Clients!ReconnectingAssumption
<1>2. /\ socket = [c \in Clients!Clients |-> [s \in Sockets |->
                      IF s = first THEN "connecting" ELSE "free"]]
      /\ owned = [c \in Clients!Clients |-> {first}]
      /\ timer = {} /\ gone = {} /\ refused = FALSE
    BY DEF Clients!Init
<1> HIDE DEF first
<1>3. Clients!TypeOK
    BY <1>1, <1>2 DEF Clients!TypeOK
<1>4. QED BY <1>2, <1>3, ClientsAreTwo DEF ClientsInv, Clients!Live

\* A client holds at most one socket, so at most one of its sockets lives.
LEMMA OneSocketHolds ==
    ASSUME ClientsInv
    PROVE  Clients!OneSocket
<1>1. \A S : Clients!Cardinality(S) = Cardinality(S)
    BY DEF Clients!Cardinality, Cardinality
<1>2. ASSUME NEW c \in Clients!Clients PROVE Cardinality(Clients!Live(c)) <= 1
    <2>1. Clients!Live(c) \subseteq owned[c] /\ owned[c] \in {{}} \cup {{s} : s \in Sockets}
        BY ClientsTyped DEF ClientsInv
    <2>2. Clients!Live(c) = {} \/ \E s \in Sockets : Clients!Live(c) = {s}
        BY <2>1
    <2>3. QED BY <2>2, FS_EmptySet, FS_Singleton
<1>3. QED BY <1>1, <1>2 DEF ClientsInv, Clients!OneSocket

-----------------------------------------------------------------------------
(* The log subscriptions.                                                  *)

LogCalls == [phase : {"none", "connecting", "live", "silent", "sleeping", "ending"},
             at : 0..(Endpoints - 1), aborted : BOOLEAN, watched : BOOLEAN]
LogTables == [Logs!Streams -> [Slots -> LogCalls]]

\* A slot that is free holds nothing the watchdog waits for; a stream has an
\* owner only while the service is started.
LogsInv ==
    /\ Logs!TypeOK /\ Logs!StreamsOwned
    /\ \A s \in Logs!Streams, c \in Slots :
          call[s][c].phase = "none" => ~call[s][c].watched
    /\ \A s \in Logs!Streams : current[s] # {} => started

LEMMA LogsTyped ==
    ASSUME LogsInv
    PROVE  /\ call \in LogTables
           /\ current \in [Logs!Streams -> {{}} \cup {{c} : c \in Slots}]
           /\ rpc \in 0..(Endpoints - 1) /\ failures \in 0..2 /\ started \in BOOLEAN
           /\ marked = Logs!Marks(call) /\ Logs!NoCall \in LogCalls
           /\ Logs!Rotated \in 0..(Endpoints - 1)
           /\ Heartbeat \in Logs!Streams /\ Programs \subseteq Logs!Streams
<1>1. Endpoints \in Nat \ {0} /\ Heartbeat \notin Programs
    BY FeedsAssumption DEF Logs!SubscriptionsAssumption
<1>2. 0 \in 0..(Endpoints - 1)
    BY <1>1
<1>3. Logs!NoCall \in LogCalls
    BY <1>2 DEF Logs!NoCall, LogCalls
<1>4. rpc \in 0..(Endpoints - 1) /\ failures \in 0..2
    BY DEF LogsInv, Logs!TypeOK, Logs!FailureLimit
<1>5. Logs!Rotated \in 0..(Endpoints - 1)
    BY <1>1, <1>4 DEF Logs!Rotated
<1>6. QED BY <1>1, <1>3, <1>4, <1>5
          DEF LogsInv, Logs!TypeOK, LogTables, LogCalls, Logs!Marks, Logs!Streams

\* The marks follow the calls the watchdog waits for.
LEMMA MarksAgree ==
    ASSUME NEW t, NEW u,
           \A s \in Programs, c \in Slots : t[s][c].watched = u[s][c].watched
    PROVE  Logs!Marks(t) = Logs!Marks(u)
BY DEF Logs!Marks

LEMMA LogsTypeAfter ==
    ASSUME call' \in LogTables, current' \in [Logs!Streams -> {{}} \cup {{c} : c \in Slots}],
           rpc' \in 0..(Endpoints - 1), failures' \in 0..2, started' \in BOOLEAN,
           marked' = Logs!Marks(call')
    PROVE  Logs!TypeOK'
<1>1. 3 - 1 = 2
    OBVIOUS
<1>2. failures' \in 0..(Logs!FailureLimit - 1)
    BY <1>1 DEF Logs!FailureLimit
<1>3. marked' = {p \in Programs : \E c \in Slots : call'[p][c].watched}
    BY DEF Logs!Marks
<1>4. QED BY <1>2, <1>3 DEF Logs!TypeOK, LogTables, LogCalls

\* What a step of one call, which leaves its owner and its mark alone, preserves.
LEMMA LogsMoveKeeps ==
    ASSUME LogsInv, NEW s \in Logs!Streams, NEW c \in Slots, NEW new \in LogCalls,
           call' = [call EXCEPT ![s][c] = new],
           new.watched = call[s][c].watched, new.phase # "none",
           call[s][c].phase # "none",
           ~new.aborted => started /\ Logs!Owns(s, c) /\ new.at = rpc,
           UNCHANGED <<current, marked, rpc, started>>, failures' \in 0..2
    PROVE  LogsInv'
<1>1. /\ call' \in LogTables
      /\ \A r \in Logs!Streams, d \in Slots :
            call'[r][d] = IF r = s /\ d = c THEN new ELSE call[r][d]
    BY LogsTyped DEF LogTables
<1>2. \A r \in Programs, d \in Slots : call'[r][d].watched = call[r][d].watched
    BY <1>1, LogsTyped
<1>3. marked' = Logs!Marks(call')
    BY <1>2, MarksAgree, LogsTyped
<1>4. Logs!TypeOK'
    BY <1>1, <1>3, LogsTyped DEF Logs!TypeOK, LogTables, LogCalls, Logs!Marks, Logs!FailureLimit
<1>5. Logs!StreamsOwned'
    BY <1>1 DEF LogsInv, Logs!StreamsOwned, Logs!Owns
<1>6. QED BY <1>1, <1>4, <1>5 DEF LogsInv

LEMMA LogsOneCallKeeps ==
    ASSUME LogsInv, NEW s \in Logs!Streams, NEW c \in Slots,
           \/ Logs!Handshake(s, c) \/ Logs!Silences(s, c) \/ Logs!Retries(s, c)
           \/ Logs!Fails(s, c) /\ ~(s # Heartbeat /\ Logs!Counted >= 3)
    PROVE  LogsInv'
<1> DEFINE old == call[s][c]
<1>1. /\ old \in LogCalls /\ call \in LogTables
      /\ old.phase # "none" /\ ~old.aborted => started /\ Logs!Owns(s, c) /\ old.at = rpc
      /\ Logs!Owns(s, c) => started
    BY LogsTyped DEF LogTables, LogsInv, Logs!StreamsOwned, Logs!Owns
<1>2. ASSUME NEW p \in {"live", "silent", "sleeping"}, old.phase # "none",
             call' = [call EXCEPT ![s][c].phase = p],
             UNCHANGED <<current, marked, rpc, started>>, failures' \in 0..2
      PROVE  LogsInv'
    <2> DEFINE new == [old EXCEPT !.phase = p]
    <2>1. new \in LogCalls /\ new.watched = old.watched /\ new.phase = p
          /\ new.aborted = old.aborted /\ new.at = old.at
        BY <1>1 DEF LogCalls
    <2>2. call' = [call EXCEPT ![s][c] = new]
        BY <1>1, <1>2 DEF LogTables
    <2> HIDE DEF new
    <2>3. new.phase # "none"
        BY <2>1
    <2>4. ~new.aborted => started /\ Logs!Owns(s, c) /\ new.at = rpc
        BY <1>1, <1>2, <2>1
    <2>5. QED BY <1>2, <2>1, <2>2, <2>3, <2>4, LogsMoveKeeps
<1>3. CASE Logs!Handshake(s, c)
    <2>1. failures' \in 0..2
        BY <1>3, LogsTyped DEF Logs!Handshake
    <2>2. QED BY <1>2, <1>3, <2>1 DEF Logs!Handshake
<1>4. CASE Logs!Silences(s, c)
    BY <1>2, <1>4, LogsTyped DEF Logs!Silences
<1>5. CASE Logs!Fails(s, c) /\ ~(s # Heartbeat /\ Logs!Counted >= 3)
    <2>1. /\ call' = [call EXCEPT ![s][c].phase = "sleeping"] /\ old.phase # "none"
          /\ failures' = IF s = Heartbeat THEN failures ELSE Logs!Counted
          /\ UNCHANGED <<current, marked, rpc, started>>
        BY <1>5 DEF Logs!Fails, Logs!FailureLimit
    <2>2. failures' \in 0..2
        BY <1>5, <2>1, LogsTyped DEF Logs!Counted
    <2>3. QED BY <1>2, <2>1, <2>2
<1>6. CASE Logs!Retries(s, c)
    <2> DEFINE new == [old EXCEPT !.phase = "connecting", !.at = rpc, !.aborted = FALSE]
    <2>1. /\ old.phase = "sleeping" /\ Logs!Owns(s, c)
          /\ call' = [call EXCEPT ![s][c].phase = "connecting", ![s][c].at = rpc,
                                  ![s][c].aborted = FALSE]
          /\ current' = [current EXCEPT ![s] = {c}]
          /\ UNCHANGED <<marked, failures, rpc, started>>
        BY <1>6 DEF Logs!Retries, Logs!Wanted
    <2>2. /\ new \in LogCalls /\ new.watched = old.watched /\ new.phase = "connecting"
          /\ new.aborted = FALSE /\ new.at = rpc
        BY <1>1, LogsTyped DEF LogCalls
    <2>3. call' = [call EXCEPT ![s][c] = new]
        BY <1>1, <2>1 DEF LogTables, LogCalls
    <2> HIDE DEF new
    <2>4. UNCHANGED current
        BY <2>1, LogsTyped DEF Logs!Owns
    <2>5. QED BY <1>1, <2>1, <2>2, <2>3, <2>4, LogsMoveKeeps, LogsTyped
<1>7. QED BY <1>3, <1>4, <1>5, <1>6

\* An aborted call is over, or knows that it is aborted; its mark stays.
LEMMA AbortedIs ==
    ASSUME LogsInv, NEW sub \in LogCalls
    PROVE  /\ Logs!Aborted(sub) \in LogCalls
           /\ Logs!Aborted(sub).phase # "none" => Logs!Aborted(sub).aborted
           /\ Logs!Aborted(sub).watched = sub.watched
           /\ Logs!Aborted(sub).phase = "none" => ~Logs!Aborted(sub).watched
<1>1. 0 \in 0..(Endpoints - 1)
    BY LogsTyped DEF LogCalls, Logs!NoCall
<1>2. QED BY <1>1 DEF LogCalls, Logs!Aborted, Logs!NoCall

\* What becomes of the calls of a stream when a call is opened.
LEMMA OpenedIs ==
    ASSUME LogsInv, NEW t \in LogTables, NEW s \in Logs!Streams,
           NEW endpoint \in 0..(Endpoints - 1), NEW w \in BOOLEAN,
           Logs!Free(t, s) # {},
           \A c \in Slots : c \notin current[s] /\ t[s][c].phase # "none" => t[s][c].aborted,
           \A c \in Slots : t[s][c].phase = "none" => ~t[s][c].watched
    PROVE  /\ Logs!Opened(t, s, endpoint, w) \in [Slots -> LogCalls]
           /\ \E f \in Slots :
                /\ Logs!Owner(t, s) = {f} /\ ~t[s][f].watched
                /\ Logs!Opened(t, s, endpoint, w)[f] =
                      [phase |-> "connecting", at |-> endpoint, aborted |-> FALSE, watched |-> w]
                /\ \A c \in Slots : c # f =>
                      /\ Logs!Opened(t, s, endpoint, w)[c].phase # "none" =>
                             Logs!Opened(t, s, endpoint, w)[c].aborted
                      /\ Logs!Opened(t, s, endpoint, w)[c].phase = "none" =>
                             ~Logs!Opened(t, s, endpoint, w)[c].watched
                      /\ Logs!Opened(t, s, endpoint, w)[c].watched = t[s][c].watched
<1> DEFINE f == CHOOSE g \in Logs!Free(t, s) : TRUE
           opened == [phase |-> "connecting", at |-> endpoint, aborted |-> FALSE, watched |-> w]
<1>1. f \in Slots /\ t[s][f].phase = "none"
    BY DEF Logs!Free
<1>2. /\ Logs!Owner(t, s) = {f}
      /\ Logs!Opened(t, s, endpoint, w) =
            [c \in Slots |-> IF c = f THEN opened
                             ELSE IF c \in current[s] THEN Logs!Aborted(t[s][c]) ELSE t[s][c]]
    BY DEF Logs!Owner, Logs!Opened
<1> HIDE DEF f
<1>3. ASSUME NEW c \in Slots
      PROVE  /\ t[s][c] \in LogCalls /\ Logs!Aborted(t[s][c]) \in LogCalls
             /\ Logs!Aborted(t[s][c]).phase # "none" => Logs!Aborted(t[s][c]).aborted
             /\ Logs!Aborted(t[s][c]).watched = t[s][c].watched
             /\ Logs!Aborted(t[s][c]).phase = "none" => ~Logs!Aborted(t[s][c]).watched
    <2>1. t[s][c] \in LogCalls
        BY DEF LogTables
    <2>2. QED BY <2>1, AbortedIs
<1>4. opened \in LogCalls
    BY DEF LogCalls
<1>5. Logs!Opened(t, s, endpoint, w) \in [Slots -> LogCalls]
    BY <1>2, <1>3, <1>4
<1>6. Logs!Opened(t, s, endpoint, w)[f] = opened /\ ~t[s][f].watched
    BY <1>1, <1>2
<1>7. ASSUME NEW c \in Slots, c # f
      PROVE  /\ Logs!Opened(t, s, endpoint, w)[c].phase # "none" =>
                    Logs!Opened(t, s, endpoint, w)[c].aborted
             /\ Logs!Opened(t, s, endpoint, w)[c].phase = "none" =>
                    ~Logs!Opened(t, s, endpoint, w)[c].watched
             /\ Logs!Opened(t, s, endpoint, w)[c].watched = t[s][c].watched
    <2>1. CASE c \in current[s]
        <3>1. Logs!Opened(t, s, endpoint, w)[c] = Logs!Aborted(t[s][c])
            BY <1>2, <1>7, <2>1
        <3>2. QED BY <1>3, <3>1
    <2>2. CASE c \notin current[s]
        <3>1. Logs!Opened(t, s, endpoint, w)[c] = t[s][c]
            BY <1>2, <1>7, <2>2
        <3>2. QED BY <2>2, <3>1
    <2>3. QED BY <2>1, <2>2
<1>8. QED BY <1>1, <1>2, <1>5, <1>6, <1>7


\* Every stream on the next endpoint, with a call of its own.
LEMMA RestartAllKeeps ==
    ASSUME LogsInv, NEW t \in LogTables, started,
           \A s \in Logs!Streams, c \in Slots :
              c \notin current[s] /\ t[s][c].phase # "none" => t[s][c].aborted,
           \A s \in Logs!Streams, c \in Slots : t[s][c].phase = "none" => ~t[s][c].watched,
           Logs!RestartAll(t), UNCHANGED started, failures' \in 0..2, marked' = Logs!Marks(t)
    PROVE  LogsInv'
<1>1. /\ \A s \in Logs!Streams : Logs!Free(t, s) # {}
      /\ rpc' = Logs!Rotated
      /\ call' = [s \in Logs!Streams |-> Logs!Opened(t, s, Logs!Rotated, FALSE)]
      /\ current' = [s \in Logs!Streams |-> Logs!Owner(t, s)]
    BY DEF Logs!RestartAll, Logs!Restarted
<1>2. rpc' \in 0..(Endpoints - 1)
    BY <1>1, LogsTyped
<1>3. ASSUME NEW s \in Logs!Streams
      PROVE  /\ call'[s] \in [Slots -> LogCalls]
             /\ \E f \in Slots :
                  /\ current'[s] = {f} /\ ~t[s][f].watched
                  /\ call'[s][f] = [phase |-> "connecting", at |-> rpc', aborted |-> FALSE,
                                    watched |-> FALSE]
                  /\ \A c \in Slots : c # f =>
                        /\ call'[s][c].phase # "none" => call'[s][c].aborted
                        /\ call'[s][c].phase = "none" => ~call'[s][c].watched
                        /\ call'[s][c].watched = t[s][c].watched
    <2>1. call'[s] = Logs!Opened(t, s, rpc', FALSE) /\ current'[s] = Logs!Owner(t, s)
        BY <1>1
    <2>2. Logs!Free(t, s) # {}
        BY <1>1
    <2>3. /\ \A c \in Slots : c \notin current[s] /\ t[s][c].phase # "none" => t[s][c].aborted
          /\ \A c \in Slots : t[s][c].phase = "none" => ~t[s][c].watched
        OBVIOUS
    <2>4. \E f \in Slots :
            /\ Logs!Owner(t, s) = {f} /\ ~t[s][f].watched
            /\ Logs!Opened(t, s, rpc', FALSE)[f] =
                  [phase |-> "connecting", at |-> rpc', aborted |-> FALSE, watched |-> FALSE]
            /\ \A c \in Slots : c # f =>
                  /\ Logs!Opened(t, s, rpc', FALSE)[c].phase # "none" =>
                         Logs!Opened(t, s, rpc', FALSE)[c].aborted
                  /\ Logs!Opened(t, s, rpc', FALSE)[c].phase = "none" =>
                         ~Logs!Opened(t, s, rpc', FALSE)[c].watched
                  /\ Logs!Opened(t, s, rpc', FALSE)[c].watched = t[s][c].watched
        BY <1>2, <2>2, <2>3, OpenedIs, Zenon
    <2>5. Logs!Opened(t, s, rpc', FALSE) \in [Slots -> LogCalls]
        BY <1>2, <2>2, <2>3, OpenedIs, Zenon
    <2>6. QED BY <2>1, <2>4, <2>5
<1>4. /\ call' \in LogTables
      /\ current' \in [Logs!Streams -> {{}} \cup {{c} : c \in Slots}]
    BY <1>1, <1>3 DEF LogTables
<1>5. ASSUME NEW s \in Logs!Streams, NEW c \in Slots
      PROVE  /\ call'[s][c].watched = t[s][c].watched
             /\ call'[s][c].phase = "none" => ~call'[s][c].watched
             /\ call'[s][c].phase # "none" /\ ~call'[s][c].aborted =>
                    current'[s] = {c} /\ call'[s][c].at = rpc'
    <2>1. PICK f \in Slots :
            /\ current'[s] = {f} /\ ~t[s][f].watched
            /\ call'[s][f] = [phase |-> "connecting", at |-> rpc', aborted |-> FALSE,
                              watched |-> FALSE]
            /\ \A d \in Slots : d # f =>
                  /\ call'[s][d].phase # "none" => call'[s][d].aborted
                  /\ call'[s][d].phase = "none" => ~call'[s][d].watched
                  /\ call'[s][d].watched = t[s][d].watched
        BY <1>3
    <2>2. CASE c = f
        <3>1. t[s][f].watched = FALSE
            <4>1. t[s][f] \in LogCalls
                BY DEF LogTables
            <4>2. QED BY <2>1, <4>1 DEF LogCalls
        <3>2. /\ call'[s][f].watched = FALSE /\ call'[s][f].phase = "connecting"
              /\ call'[s][f].at = rpc'
            BY <2>1
        <3>3. QED BY <2>1, <2>2, <3>1, <3>2
    <2>3. CASE c # f
        BY <2>1, <2>3
    <2>4. QED BY <2>2, <2>3
<1>6. marked' = Logs!Marks(call')
    <2>1. \A s \in Programs, c \in Slots : call'[s][c].watched = t[s][c].watched
        BY <1>5, LogsTyped
    <2>2. QED BY <2>1, MarksAgree
<1>7. Logs!TypeOK'
    BY <1>2, <1>4, <1>6, LogsTyped, LogsTypeAfter
<1>8. Logs!StreamsOwned'
    BY <1>5 DEF Logs!StreamsOwned, Logs!Owns
<1>9. QED BY <1>5, <1>7, <1>8 DEF LogsInv

LEMMA LogsRestartsKeep ==
    ASSUME LogsInv,
           \/ Logs!WatchdogRotates
           \/ \E s \in Logs!Streams, c \in Slots :
                 Logs!Fails(s, c) /\ s # Heartbeat /\ Logs!Counted >= 3
    PROVE  LogsInv'
<1>1. CASE Logs!WatchdogRotates
    <2>1. started /\ Logs!RestartAll(call) /\ UNCHANGED <<marked, failures, started>>
        BY <1>1 DEF Logs!WatchdogRotates
    <2>2. \A s \in Logs!Streams, c \in Slots :
             c \notin current[s] /\ call[s][c].phase # "none" => call[s][c].aborted
        BY DEF LogsInv, Logs!StreamsOwned, Logs!Owns
    <2>3. QED BY <2>1, <2>2, RestartAllKeeps, LogsTyped DEF LogsInv
<1>2. ASSUME NEW s \in Logs!Streams, NEW c \in Slots,
             Logs!Fails(s, c), s # Heartbeat, Logs!Counted >= 3
      PROVE  LogsInv'
    <2> DEFINE t == [call EXCEPT ![s][c] = Logs!NoCall]
    <2>1. /\ Logs!Owns(s, c) /\ Logs!RestartAll(t) /\ failures' = 0 /\ marked' = Logs!Marks(t)
          /\ UNCHANGED started
        BY <1>2 DEF Logs!Fails, Logs!FailureLimit
    <2>2. /\ t \in LogTables
          /\ \A r \in Logs!Streams, d \in Slots :
                t[r][d] = IF r = s /\ d = c THEN Logs!NoCall ELSE call[r][d]
        BY LogsTyped DEF LogTables
    <2> HIDE DEF t
    <2>3. started
        BY <2>1 DEF LogsInv, Logs!Owns
    <2>4. \A r \in Logs!Streams, d \in Slots :
             d \notin current[r] /\ t[r][d].phase # "none" => t[r][d].aborted
        BY <2>2 DEF LogsInv, Logs!StreamsOwned, Logs!Owns, Logs!NoCall
    <2>5. \A r \in Logs!Streams, d \in Slots : t[r][d].phase = "none" => ~t[r][d].watched
        BY <2>2 DEF LogsInv, Logs!NoCall
    <2>6. QED BY <2>1, <2>2, <2>3, <2>4, <2>5, RestartAllKeeps
<1>3. QED BY <1>1, <1>2

LEMMA LogsReturnsKeeps ==
    ASSUME LogsInv, NEW s \in Logs!Streams, NEW c \in Slots, Logs!Returns(s, c)
    PROVE  LogsInv'
<1>1. /\ call' = [call EXCEPT ![s][c] = Logs!NoCall] /\ marked' = Logs!Marks(call')
      /\ UNCHANGED <<current, failures, rpc, started>>
    BY DEF Logs!Returns
<1>2. /\ call' \in LogTables
      /\ \A r \in Logs!Streams, d \in Slots :
            call'[r][d] = IF r = s /\ d = c THEN Logs!NoCall ELSE call[r][d]
    BY <1>1, LogsTyped DEF LogTables
<1>3. Logs!TypeOK'
    BY <1>1, <1>2, LogsTyped
       DEF Logs!TypeOK, LogTables, LogCalls, Logs!Marks, Logs!FailureLimit
<1>4. Logs!StreamsOwned'
    BY <1>1, <1>2 DEF LogsInv, Logs!StreamsOwned, Logs!Owns, Logs!NoCall
<1>5. QED BY <1>1, <1>2, <1>3, <1>4 DEF LogsInv, Logs!NoCall

LEMMA LogsWatchdogKeeps ==
    ASSUME LogsInv, NEW p \in Programs, Logs!WatchdogRestarts(p)
    PROVE  LogsInv'
<1>1. /\ started /\ Logs!Free(call, p) # {} /\ marked' = marked \cup {p}
      /\ call' = [call EXCEPT ![p] = Logs!Opened(call, p, rpc, TRUE)]
      /\ current' = [current EXCEPT ![p] = Logs!Owner(call, p)]
      /\ UNCHANGED <<failures, rpc, started>>
    BY DEF Logs!WatchdogRestarts
<1>2. /\ \A c \in Slots :
            c \notin current[p] /\ call[p][c].phase # "none" => call[p][c].aborted
      /\ \A c \in Slots : call[p][c].phase = "none" => ~call[p][c].watched
    BY LogsTyped DEF LogsInv, Logs!StreamsOwned, Logs!Owns
<1>3. PICK f \in Slots :
        /\ Logs!Owner(call, p) = {f} /\ ~call[p][f].watched
        /\ Logs!Opened(call, p, rpc, TRUE)[f] =
              [phase |-> "connecting", at |-> rpc, aborted |-> FALSE, watched |-> TRUE]
        /\ \A c \in Slots : c # f =>
              /\ Logs!Opened(call, p, rpc, TRUE)[c].phase # "none" =>
                     Logs!Opened(call, p, rpc, TRUE)[c].aborted
              /\ Logs!Opened(call, p, rpc, TRUE)[c].phase = "none" =>
                     ~Logs!Opened(call, p, rpc, TRUE)[c].watched
              /\ Logs!Opened(call, p, rpc, TRUE)[c].watched = call[p][c].watched
    <2>1. /\ call \in LogTables /\ p \in Logs!Streams /\ rpc \in 0..(Endpoints - 1)
          /\ TRUE \in BOOLEAN /\ Logs!Free(call, p) # {}
        BY <1>1, LogsTyped
    <2>2. call \in LogTables /\ p \in Logs!Streams
        BY <2>1
    <2>3. QED BY <1>2, <2>1, <2>2, OpenedIs, ZenonT(30)
<1>4. Logs!Opened(call, p, rpc, TRUE) \in [Slots -> LogCalls]
    <2>1. /\ call \in LogTables /\ p \in Logs!Streams /\ rpc \in 0..(Endpoints - 1)
          /\ TRUE \in BOOLEAN /\ Logs!Free(call, p) # {}
        BY <1>1, LogsTyped
    <2>2. QED BY <1>2, <2>1, OpenedIs
<1>5. /\ call' \in LogTables /\ call'[p] = Logs!Opened(call, p, rpc, TRUE)
      /\ \A s \in Logs!Streams : s # p => call'[s] = call[s] /\ current'[s] = current[s]
      /\ current'[p] = {f}
      /\ current' \in [Logs!Streams -> {{}} \cup {{c} : c \in Slots}]
    BY <1>1, <1>3, <1>4, LogsTyped DEF LogTables
<1>6. /\ call'[p][f] = [phase |-> "connecting", at |-> rpc, aborted |-> FALSE, watched |-> TRUE]
      /\ \A c \in Slots : c # f =>
            /\ call'[p][c].phase # "none" => call'[p][c].aborted
            /\ call'[p][c].phase = "none" => ~call'[p][c].watched
    BY <1>3, <1>5
<1>7. marked' = Logs!Marks(call')
    <2>1. call'[p][f].watched
        BY <1>6
    <2>2. \A q \in Programs : q # p => call'[q] = call[q]
        BY <1>5, LogsTyped
    <2>3. QED BY <1>1, <2>1, <2>2, LogsTyped DEF Logs!Marks
<1>8. Logs!TypeOK'
    BY <1>1, <1>5, <1>7, LogsTyped, LogsTypeAfter
<1>9. Logs!StreamsOwned'
    <2>1. ASSUME NEW c \in Slots, call'[p][c].phase # "none", ~call'[p][c].aborted
          PROVE  started' /\ current'[p] = {c} /\ call'[p][c].at = rpc'
        <3>1. c = f
            BY <1>6, <2>1
        <3>2. call'[p][f].at = rpc
            BY <1>6
        <3>3. QED BY <1>1, <1>5, <3>1, <3>2
    <2>2. ASSUME NEW s \in Logs!Streams, s # p, NEW c \in Slots,
                 call'[s][c].phase # "none", ~call'[s][c].aborted
          PROVE  started' /\ current'[s] = {c} /\ call'[s][c].at = rpc'
        BY <1>1, <1>5, <2>2 DEF LogsInv, Logs!StreamsOwned, Logs!Owns
    <2>3. QED BY <2>1, <2>2 DEF Logs!StreamsOwned, Logs!Owns
<1>10. ASSUME NEW s \in Logs!Streams, NEW c \in Slots, call'[s][c].phase = "none"
       PROVE  ~call'[s][c].watched
    <2>1. CASE s = p /\ c = f
        BY <1>6, <1>10, <2>1
    <2>2. CASE s = p /\ c # f
        BY <1>6, <1>10, <2>2
    <2>3. CASE s # p
        BY <1>5, <1>10, <2>3 DEF LogsInv
    <2>4. QED BY <2>1, <2>2, <2>3
<1>11. QED BY <1>1, <1>8, <1>9, <1>10 DEF LogsInv

LEMMA LogsStopKeeps ==
    ASSUME LogsInv, Logs!Stop
    PROVE  LogsInv'
<1>1. /\ started' = FALSE /\ current' = [s \in Logs!Streams |-> {}]
      /\ call' = [s \in Logs!Streams |-> [c \in Slots |->
                     IF c \in current[s] THEN Logs!Aborted(call[s][c]) ELSE call[s][c]]]
      /\ UNCHANGED <<marked, failures, rpc>>
    BY DEF Logs!Stop
<1>2. ASSUME NEW s \in Logs!Streams, NEW c \in Slots
      PROVE  /\ call'[s][c] \in LogCalls /\ call'[s][c].watched = call[s][c].watched
             /\ call'[s][c].phase # "none" => call'[s][c].aborted
             /\ call'[s][c].phase = "none" => ~call'[s][c].watched
    <2>1. call[s][c] \in LogCalls
        BY LogsTyped DEF LogTables
    <2>2. CASE c \in current[s]
        <3>1. call'[s][c] = Logs!Aborted(call[s][c])
            BY <1>1, <2>2
        <3>2. QED BY <2>1, <3>1, AbortedIs
    <2>3. CASE c \notin current[s]
        <3>1. call'[s][c] = call[s][c]
            BY <1>1, <2>3
        <3>2. QED BY <2>1, <2>3, <3>1 DEF LogsInv, Logs!StreamsOwned, Logs!Owns
    <2>4. QED BY <2>2, <2>3
<1>3. call' \in LogTables
    BY <1>1, <1>2 DEF LogTables
<1>4. marked' = Logs!Marks(call')
    <2>1. \A s \in Programs, c \in Slots : call'[s][c].watched = call[s][c].watched
        BY <1>2, LogsTyped
    <2>2. QED BY <1>1, <2>1, MarksAgree, LogsTyped
<1>5. Logs!TypeOK'
    <2>1. current' \in [Logs!Streams -> {{}} \cup {{c} : c \in Slots}] /\ started' \in BOOLEAN
        BY <1>1
    <2>2. QED BY <1>1, <1>3, <1>4, <2>1, LogsTyped, LogsTypeAfter
<1>6. QED BY <1>1, <1>2, <1>5 DEF LogsInv, Logs!StreamsOwned

LEMMA LogsNextKeeps == LogsInv /\ [Logs!Next]_(Logs!vars) => LogsInv'
<1> SUFFICES ASSUME LogsInv, [Logs!Next]_(Logs!vars) PROVE LogsInv'
    OBVIOUS
<1>1. ASSUME NEW s \in Logs!Streams, NEW c \in Slots,
             \/ Logs!Handshake(s, c) \/ Logs!Silences(s, c) \/ Logs!Fails(s, c)
             \/ Logs!Retries(s, c) \/ Logs!Returns(s, c)
      PROVE  LogsInv'
    BY <1>1, LogsOneCallKeeps, LogsRestartsKeep, LogsReturnsKeeps
<1>2. CASE Logs!Stop \/ Logs!WatchdogRotates \/ \E p \in Programs : Logs!WatchdogRestarts(p)
    BY <1>2, LogsStopKeeps, LogsRestartsKeep, LogsWatchdogKeeps
<1>3. CASE UNCHANGED Logs!vars
    BY <1>3 DEF Logs!vars, LogsInv, Logs!TypeOK, Logs!StreamsOwned, Logs!Owns
<1>4. QED BY <1>1, <1>2, <1>3 DEF Logs!Next

LEMMA LogsInit == Logs!Init => LogsInv
<1> DEFINE first == CHOOSE c \in Slots : TRUE
           fresh == [Logs!NoCall EXCEPT !.phase = "connecting"]
<1> SUFFICES ASSUME Logs!Init PROVE LogsInv
    OBVIOUS
<1>1. first \in Slots /\ Endpoints \in Nat \ {0}
    BY FeedsAssumption DEF Logs!SubscriptionsAssumption
<1>2. /\ current = [s \in Logs!Streams |-> {first}]
      /\ marked = {} /\ failures = 0 /\ rpc = 0 /\ started = TRUE
      /\ call = [s \in Logs!Streams |-> [c \in Slots |->
                    IF c \in current[s] THEN fresh ELSE Logs!NoCall]]
    BY DEF Logs!Init
<1>3. 0 \in 0..(Endpoints - 1)
    BY <1>1
<1>4. /\ Logs!NoCall \in LogCalls /\ fresh \in LogCalls
      /\ ~Logs!NoCall.watched /\ ~fresh.watched /\ Logs!NoCall.phase = "none" /\ fresh.at = 0
    BY <1>3 DEF LogCalls, Logs!NoCall
<1> HIDE DEF first, fresh
<1>5. \A s \in Logs!Streams : current[s] = {first}
    BY <1>2
<1>6. ASSUME NEW s \in Logs!Streams, NEW c \in Slots
      PROVE  call[s][c] = IF c = first THEN fresh ELSE Logs!NoCall
    BY <1>2, <1>5
<1>7. call \in LogTables
    BY <1>2, <1>4 DEF LogTables
<1>8. marked = Logs!Marks(call)
    BY <1>2, <1>4, <1>6 DEF Logs!Marks, Logs!Streams
<1>9. Logs!TypeOK
    <2>1. failures \in 0..(Logs!FailureLimit - 1)
        BY <1>2 DEF Logs!FailureLimit
    <2>2. current \in [Logs!Streams -> {{}} \cup {{c} : c \in Slots}]
        BY <1>1, <1>2
    <2>3. rpc \in 0..(Endpoints - 1) /\ started \in BOOLEAN
        BY <1>2, <1>3
    <2>4. marked = {p \in Programs : \E c \in Slots : call[p][c].watched}
        BY <1>8 DEF Logs!Marks
    <2>5. QED BY <1>7, <2>1, <2>2, <2>3, <2>4 DEF Logs!TypeOK, LogTables, LogCalls
<1>10. QED BY <1>2, <1>4, <1>5, <1>6, <1>9 DEF LogsInv, Logs!StreamsOwned, Logs!Owns


-----------------------------------------------------------------------------
(* The frames of the plugin.                                               *)

\* The bytes on their way: those not yet split, then those on the wire.
At(i) == IF i <= Len(buffer) THEN buffer[i] ELSE wire[i - Len(buffer)]
Total == Len(buffer) + Len(wire)
Heads == {i \in 1..Total : i % 2 = 1}

\* As long as nothing was cut they are whole frames.
Whole ==
    \A i \in Heads :
        i < Total /\ At(i).part = "head" /\ At(i + 1) = Geyser!FrameTail(At(i).of)

\* What was handed over was written before what is on the way, and this before
\* what waits in the channel.
Ordered ==
    /\ \A i, j \in Heads : i < j => At(i).of < At(j).of
    /\ \A i \in Heads :
          /\ At(i).of <= written
          /\ \A j \in 1..Len(channel) : At(i).of < channel[j]
          /\ \A j \in 1..Len(handed) : handed[j] < At(i).of

HandedInOrder ==
    /\ \A i, j \in 1..Len(handed) : i < j => handed[i] < handed[j]
    /\ \A i \in 1..Len(handed) :
          /\ handed[i] # Geyser!Garbled /\ handed[i] <= written
          /\ \A j \in 1..Len(channel) : handed[i] < channel[j]

Queued ==
    /\ \A i, j \in 1..Len(channel) : i < j => channel[i] < channel[j]
    /\ \A i \in 1..Len(channel) : channel[i] <= written

GeyserInv ==
    /\ Geyser!TypeOK /\ Len(buffer) < 2 /\ Queued
    /\ ~cut => Whole /\ Ordered /\ HandedInOrder

LEMMA GeyserTyped ==
    ASSUME GeyserInv
    PROVE  /\ Len(buffer) \in {0, 1} /\ Len(wire) \in Nat /\ Total \in Nat
           /\ Len(channel) \in Nat /\ Len(handed) \in Nat
           /\ written \in Nat /\ MaxWrites \in Nat /\ Capacity \in Nat /\ MaxBreaks \in Nat
           /\ wire \in Seq(Geyser!Bytes) /\ buffer \in Seq(Geyser!Bytes)
           /\ channel \in Seq(1..MaxWrites) /\ handed \in Seq(0..MaxWrites)
           /\ \A i \in 1..Len(channel) : channel[i] \in 1..MaxWrites
           /\ \A i \in 1..Len(handed) : handed[i] \in 0..MaxWrites
           /\ \A i \in 1..Total : At(i) \in Geyser!Bytes /\ At(i).of \in 1..MaxWrites
           /\ cut \in BOOLEAN
<1>1. /\ wire \in Seq(Geyser!Bytes) /\ buffer \in Seq(Geyser!Bytes)
      /\ channel \in Seq(1..MaxWrites) /\ handed \in Seq(0..MaxWrites)
      /\ written \in 0..MaxWrites /\ cut \in BOOLEAN
    BY DEF GeyserInv, Geyser!TypeOK
<1>2. MaxWrites \in Nat /\ Capacity \in Nat /\ MaxBreaks \in Nat
    BY FeedsAssumption DEF Geyser!GeyserStreamAssumption
<1>3. Len(buffer) \in Nat /\ Len(wire) \in Nat /\ Len(channel) \in Nat /\ Len(handed) \in Nat
    BY <1>1, LenProperties
<1>4. Len(buffer) \in {0, 1} /\ Total \in Nat
    <2>1. Len(buffer) < 2
        BY DEF GeyserInv
    <2>2. \A n \in Nat : n < 2 => n \in {0, 1}
        OBVIOUS
    <2>3. Len(buffer) \in {0, 1}
        BY <1>3, <2>1, <2>2
    <2>4. Total \in Nat
        BY <1>3 DEF Total
    <2>5. QED BY <2>3, <2>4
<1>5. ASSUME NEW i \in 1..Total
      PROVE  At(i) \in Geyser!Bytes /\ At(i).of \in 1..MaxWrites
    <2>1. CASE i <= Len(buffer)
        <3>1. At(i) \in Geyser!Bytes
            BY <1>1, <1>3, <2>1, ElementOfSeq DEF At
        <3>2. QED BY <3>1 DEF Geyser!Bytes
    <2>2. CASE ~(i <= Len(buffer))
        <3>1. i - Len(buffer) \in 1..Len(wire)
            BY <1>3, <2>2 DEF Total
        <3>2. At(i) \in Geyser!Bytes
            BY <1>1, <2>2, <3>1, ElementOfSeq DEF At
        <3>3. QED BY <3>2 DEF Geyser!Bytes
    <2>3. QED BY <2>1, <2>2
<1>6. /\ \A i \in 1..Len(channel) : channel[i] \in 1..MaxWrites
      /\ \A i \in 1..Len(handed) : handed[i] \in 0..MaxWrites
    BY <1>1, ElementOfSeq
<1>7. written \in Nat
    BY <1>1, <1>2
<1>8. QED BY <1>1, <1>2, <1>3, <1>4, <1>5, <1>6, <1>7

\* The channel moves on, and what is under way and was handed over stays: every
\* update in the channel was there, or is a new one.
LEMMA GeyserChannelKeeps ==
    ASSUME GeyserInv, UNCHANGED <<wire, buffer, handed>>, cut' = FALSE => cut = FALSE,
           written' \in Nat, written <= written',
           \A j \in 1..Len(channel') :
              \/ channel'[j] \in Nat /\ channel'[j] > written
              \/ \E k \in 1..Len(channel) : channel'[j] = channel[k]
    PROVE  ~cut' /\ cut' \in BOOLEAN => Whole' /\ Ordered' /\ HandedInOrder'
<1> SUFFICES ASSUME ~cut', cut' \in BOOLEAN PROVE Whole' /\ Ordered' /\ HandedInOrder'
    OBVIOUS
<1>1. Whole /\ Ordered /\ HandedInOrder
    BY DEF GeyserInv
<1>2. /\ Total' = Total /\ Heads' = Heads /\ Heads \subseteq 1..Total
      /\ \A i : At(i)' = At(i)
    BY DEF Total, Heads, At
<1>3. Whole'
    BY <1>1, <1>2 DEF Whole, Geyser!FrameTail
<1>4. ASSUME NEW i \in Heads
      PROVE  /\ At(i)'.of <= written'
             /\ \A j \in 1..Len(channel') : At(i)'.of < channel'[j]
             /\ \A j \in 1..Len(handed') : handed'[j] < At(i)'.of
    <2>1. At(i)' = At(i) /\ At(i).of \in Nat /\ At(i).of <= written
        BY <1>1, <1>2, GeyserTyped DEF Ordered
    <2>2. At(i).of <= written'
        BY <2>1, GeyserTyped
    <2>3. ASSUME NEW j \in 1..Len(channel') PROVE At(i).of < channel'[j]
        <3>1. CASE channel'[j] \in Nat /\ channel'[j] > written
            BY <2>1, <3>1, GeyserTyped
        <3>2. CASE \E k \in 1..Len(channel) : channel'[j] = channel[k]
            BY <1>1, <3>2 DEF Ordered
        <3>3. QED BY <3>1, <3>2
    <2>4. QED BY <1>1, <2>1, <2>2, <2>3 DEF Ordered
<1>5. Ordered'
    BY <1>1, <1>2, <1>4 DEF Ordered
<1>6. ASSUME NEW i \in 1..Len(handed)
      PROVE  /\ handed[i] # Geyser!Garbled /\ handed[i] <= written'
             /\ \A j \in 1..Len(channel') : handed[i] < channel'[j]
    <2>1. handed[i] \in Nat /\ handed[i] <= written /\ handed[i] # Geyser!Garbled
        BY <1>1, GeyserTyped DEF HandedInOrder
    <2>2. handed[i] <= written'
        BY <2>1, GeyserTyped
    <2>3. ASSUME NEW j \in 1..Len(channel') PROVE handed[i] < channel'[j]
        <3>1. CASE channel'[j] \in Nat /\ channel'[j] > written
            <4>1. written \in Nat
                BY GeyserTyped
            <4>2. QED BY <2>1, <3>1, <4>1
        <3>2. CASE \E k \in 1..Len(channel) : channel'[j] = channel[k]
            <4>1. \A k \in 1..Len(channel) : handed[i] < channel[k]
                BY <1>1 DEF HandedInOrder
            <4>2. QED BY <3>2, <4>1
        <3>3. QED BY <3>1, <3>2
    <2>4. QED BY <2>1, <2>2, <2>3
<1>7. HandedInOrder'
    BY <1>1, <1>6 DEF HandedInOrder
<1>8. QED BY <1>3, <1>5, <1>7


LEMMA GeyserUpdateKeeps ==
    ASSUME GeyserInv, Geyser!UpdateAccount
    PROVE  GeyserInv'
<1> DEFINE w == written + 1
<1>1. /\ written < MaxWrites /\ written' = w
      /\ channel' = IF Len(channel) >= Capacity THEN channel ELSE Append(channel, w)
      /\ UNCHANGED <<wire, stream, client, buffer, handed, fetching, debounced, breaks, cut>>
    BY DEF Geyser!UpdateAccount, Geyser!Accepted, Geyser!connection, Geyser!handler
<1>2. /\ w \in 1..MaxWrites /\ w \in Nat /\ w > written /\ written <= w /\ w \in 0..MaxWrites
    BY <1>1, GeyserTyped
<1>q. \A i \in 1..Len(channel) : channel[i] < w /\ channel[i] <= w
    <2> TAKE i \in 1..Len(channel)
    <2>1. channel[i] <= written
        BY DEF GeyserInv, Queued
    <2>2. channel[i] \in 1..MaxWrites /\ MaxWrites \in Nat /\ written \in Nat
        BY GeyserTyped
    <2>3. channel[i] \in Nat
        BY <2>2
    <2>4. QED BY <2>1, <2>2, <2>3
<1>3. CASE Len(channel) >= Capacity
    <2>1. UNCHANGED channel
        BY <1>1, <1>3
    <2>2. Queued'
        BY <1>1, <1>q, <2>1 DEF GeyserInv, Queued
    <2>3. ~cut' /\ cut' \in BOOLEAN => Whole' /\ Ordered' /\ HandedInOrder'
        BY <1>1, <1>2, <2>1, GeyserChannelKeeps
    <2>4. Geyser!TypeOK' /\ (Len(buffer) < 2)'
        BY <1>1, <1>2, <2>1 DEF GeyserInv, Geyser!TypeOK
    <2>5. QED BY <1>1, <2>2, <2>3, <2>4, GeyserTyped DEF GeyserInv
<1>4. CASE ~(Len(channel) >= Capacity)
    <2>1. channel' = Append(channel, w)
        BY <1>1, <1>4
    <2>2. /\ channel' \in Seq(1..MaxWrites) /\ Len(channel') = Len(channel) + 1
          /\ \A j \in 1..Len(channel) : channel'[j] = channel[j]
          /\ channel'[Len(channel) + 1] = w
        BY <1>2, <2>1, GeyserTyped, AppendProperties
    <2>3. \A j \in 1..Len(channel') : j \in 1..Len(channel) \/ j = Len(channel) + 1
        BY <2>2, GeyserTyped
    <2>4. Queued'
        <3>1. \A j \in 1..Len(channel) : channel[j] < w /\ channel[j] <= w
            BY <1>q
        <3>2. ASSUME NEW i \in 1..Len(channel'), NEW j \in 1..Len(channel'), i < j
              PROVE  channel'[i] < channel'[j]
            <4>1. CASE j \in 1..Len(channel)
                <5>1. i \in 1..Len(channel)
                    BY <3>2, <4>1, GeyserTyped
                <5>2. QED BY <2>2, <3>2, <4>1, <5>1 DEF GeyserInv, Queued
            <4>2. CASE j = Len(channel) + 1
                <5>1. i \in 1..Len(channel)
                    BY <3>2, <4>2, GeyserTyped
                <5>2. QED BY <2>2, <3>1, <4>2, <5>1
            <4>3. QED BY <2>3, <4>1, <4>2
        <3>3. \A j \in 1..Len(channel') : channel'[j] <= written'
            BY <1>1, <1>2, <2>2, <2>3, <3>1
        <3>4. QED BY <3>2, <3>3 DEF Queued
    <2>5. ~cut' /\ cut' \in BOOLEAN => Whole' /\ Ordered' /\ HandedInOrder'
        <3>1. \A j \in 1..Len(channel') :
                 \/ channel'[j] \in Nat /\ channel'[j] > written
                 \/ \E k \in 1..Len(channel) : channel'[j] = channel[k]
            BY <1>2, <2>2, <2>3
        <3>2. QED BY <1>1, <1>2, <3>1, GeyserChannelKeeps
    <2>6. Geyser!TypeOK' /\ (Len(buffer) < 2)'
        <3>1. Len(channel') <= Capacity
            BY <1>4, <2>2, GeyserTyped
        <3>2. QED BY <1>1, <1>2, <2>2, <3>1 DEF GeyserInv, Geyser!TypeOK
    <2>7. QED BY <1>1, <2>4, <2>5, <2>6, GeyserTyped DEF GeyserInv
<1>5. QED BY <1>3, <1>4

\* The plugin's thread takes the first update of the channel.
LEMMA GeyserTakes ==
    ASSUME GeyserInv, channel # << >>, channel' = Tail(channel), written' = written
    PROVE  /\ channel' \in Seq(1..MaxWrites) /\ Len(channel') <= Capacity /\ Queued'
           /\ Head(channel) = channel[1] /\ Head(channel) \in 1..MaxWrites
           /\ 1 \in 1..Len(channel)
           /\ \A j \in 1..Len(channel') : j + 1 \in 1..Len(channel) /\ channel'[j] = channel[j + 1]
<1>1. channel \in Seq(1..MaxWrites) /\ Len(channel) \in Nat
    BY GeyserTyped
<1>2. /\ channel' \in Seq(1..MaxWrites) /\ Len(channel') = Len(channel) - 1
      /\ \A j \in 1..Len(channel') : channel'[j] = channel[j + 1]
      /\ Head(channel) \in 1..MaxWrites
    BY <1>1, HeadTailProperties
<1>3. Len(channel) \in Nat \ {0}
    BY <1>1, EmptySeq
<1>4. 1 \in 1..Len(channel)
    BY <1>3
<1>5. Head(channel) = channel[1]
    OBVIOUS
<1>6. \A j \in 1..Len(channel') : j + 1 \in 1..Len(channel) /\ channel'[j] = channel[j + 1]
    BY <1>2, <1>3
<1>7. Len(channel') <= Capacity
    <2>1. Len(channel) <= Capacity
        BY DEF GeyserInv, Geyser!TypeOK
    <2>2. Capacity \in Nat
        BY GeyserTyped
    <2>3. QED BY <1>2, <1>3, <2>1, <2>2
<1>8. Queued'
    <2>1. Queued
        BY DEF GeyserInv
    <2>2. \A i, j \in 1..Len(channel') : i < j => channel'[i] < channel'[j]
        BY <1>6, <2>1 DEF Queued
    <2>3. QED BY <1>6, <2>1, <2>2 DEF Queued
<1>9. QED BY <1>2, <1>4, <1>5, <1>6, <1>7, <1>8

\* An update nobody takes, or that is lost with its connection.
LEMMA GeyserLosesKeeps ==
    ASSUME GeyserInv,
           Geyser!WriteFails \/ (Geyser!WriteFrame /\ ~Geyser!Accepts)
    PROVE  GeyserInv'
<1>1. /\ channel # << >> /\ channel' = Tail(channel)
      /\ UNCHANGED <<written, buffer, handed, fetching, debounced>>
    BY DEF Geyser!WriteFails, Geyser!WriteFrame, Geyser!handler
<1>2. /\ stream' \in {"none", "up", "stale"} /\ breaks' \in 0..MaxBreaks
      /\ client' \in {"down", "queued", "up", "dropped", "stopped"}
      /\ client' = "up" => stream' = "up"
    <2>1. CASE Geyser!WriteFails
        <3>1. stream' = "none" /\ client' = "dropped"
            BY <2>1 DEF Geyser!WriteFails
        <3>2. breaks' = breaks + 1 /\ breaks < MaxBreaks /\ breaks \in 0..MaxBreaks
            BY <2>1 DEF Geyser!WriteFails, GeyserInv, Geyser!TypeOK
        <3>3. breaks' \in 0..MaxBreaks
            BY <3>2, GeyserTyped
        <3>4. QED BY <3>1, <3>3
    <2>2. CASE Geyser!WriteFrame /\ ~Geyser!Accepts
        BY <2>2 DEF Geyser!WriteFrame, Geyser!Accepts, GeyserInv, Geyser!TypeOK
    <2>3. QED BY <2>1, <2>2
<1>3. \/ UNCHANGED <<wire, cut>>
      \/ wire' = Append(wire, Geyser!FrameHead(Head(channel))) /\ cut' = TRUE
    BY DEF Geyser!WriteFails, Geyser!WriteFrame
<1>4. Geyser!FrameHead(Head(channel)) \in Geyser!Bytes
    BY <1>1, GeyserTakes DEF Geyser!FrameHead, Geyser!Bytes
<1>5. wire' \in Seq(Geyser!Bytes) /\ cut' \in BOOLEAN
    <2>1. Append(wire, Geyser!FrameHead(Head(channel))) \in Seq(Geyser!Bytes)
        BY <1>4, GeyserTyped, AppendProperties
    <2>2. wire \in Seq(Geyser!Bytes) /\ cut \in BOOLEAN
        BY GeyserTyped
    <2>3. QED BY <1>3, <2>1, <2>2
<1>6. Geyser!TypeOK' /\ (Len(buffer) < 2)'
    BY <1>1, <1>2, <1>5, GeyserTakes DEF GeyserInv, Geyser!TypeOK
<1>7. ~cut' => Whole' /\ Ordered' /\ HandedInOrder'
    <2>1. SUFFICES ASSUME ~cut' PROVE Whole' /\ Ordered' /\ HandedInOrder'
        OBVIOUS
    <2>2. UNCHANGED <<wire, cut>>
        BY <1>3, <2>1
    <2>3. \A j \in 1..Len(channel') : \E k \in 1..Len(channel) : channel'[j] = channel[k]
        BY <1>1, GeyserTakes
    <2>4. written' \in Nat /\ written <= written'
        BY <1>1, GeyserTyped
    <2>5. QED BY <1>1, <1>5, <2>1, <2>2, <2>3, <2>4, GeyserChannelKeeps
<1>8. QED BY <1>1, <1>6, <1>7, GeyserTakes DEF GeyserInv


\* As long as nothing was cut an even number of pieces is on its way.
LEMMA WholeIsEven ==
    ASSUME GeyserInv, ~cut
    PROVE  Total % 2 = 0
<1>1. Total \in Nat /\ Whole
    BY GeyserTyped DEF GeyserInv
<1>2. Total % 2 = 1 => Total \in Heads
    BY <1>1 DEF Heads
<1>3. Total \notin Heads
    BY <1>1 DEF Whole
<1>4. QED BY <1>1, <1>2, <1>3

LEMMA GeyserWritesKeeps ==
    ASSUME GeyserInv, Geyser!WriteFrame, Geyser!Accepts
    PROVE  GeyserInv'
<1> DEFINE w == Head(channel)
           frame == <<Geyser!FrameHead(w), Geyser!FrameTail(w)>>
<1>1. /\ channel # << >> /\ channel' = Tail(channel) /\ wire' = wire \o frame
      /\ stream' = "up" /\ client' = "up"
      /\ UNCHANGED <<written, buffer, handed, fetching, debounced, breaks, cut>>
    BY DEF Geyser!WriteFrame, Geyser!handler
<1>2. /\ w \in 1..MaxWrites /\ w = channel[1] /\ 1 \in 1..Len(channel) /\ w \in Nat
      /\ w <= written
    <2>1. w \in 1..MaxWrites /\ w = channel[1] /\ 1 \in 1..Len(channel)
        BY <1>1, GeyserTakes
    <2>2. QED BY <2>1, GeyserTyped DEF GeyserInv, Queued
<1>3. /\ Geyser!FrameHead(w) \in Geyser!Bytes /\ Geyser!FrameTail(w) \in Geyser!Bytes
      /\ Geyser!FrameHead(w).of = w /\ Geyser!FrameHead(w).part = "head"
    BY <1>2 DEF Geyser!Bytes, Geyser!FrameHead, Geyser!FrameTail
<1>4. /\ frame \in Seq(Geyser!Bytes) /\ Len(frame) = 2
      /\ frame[1] = Geyser!FrameHead(w) /\ frame[2] = Geyser!FrameTail(w)
    BY <1>3
<1> HIDE DEF frame, w
<1>5. /\ wire' \in Seq(Geyser!Bytes) /\ Len(wire') = Len(wire) + 2
      /\ \A i \in 1..Len(wire) + 2 : wire'[i] =
            IF i <= Len(wire) THEN wire[i] ELSE frame[i - Len(wire)]
    <2>1. wire \in Seq(Geyser!Bytes)
        BY GeyserTyped
    <2>2. /\ wire \o frame \in Seq(Geyser!Bytes) /\ Len(wire \o frame) = Len(wire) + Len(frame)
          /\ \A i \in 1..Len(wire) + Len(frame) : (wire \o frame)[i] =
                IF i <= Len(wire) THEN wire[i] ELSE frame[i - Len(wire)]
        BY <1>4, <2>1, ConcatProperties
    <2>3. QED BY <1>1, <1>4, <2>2
<1> PICK n \in Nat : n = Total
    BY GeyserTyped
<1>6. /\ Total' = n + 2
      /\ \A i \in 1..n : At(i)' = At(i)
      /\ At(n + 1)' = Geyser!FrameHead(w) /\ At(n + 2)' = Geyser!FrameTail(w)
    <2>1. Len(buffer) \in Nat /\ Len(wire) \in Nat /\ buffer' = buffer
        BY <1>1, GeyserTyped
    <2>2. Total' = n + 2
        BY <1>5, <2>1 DEF Total
    <2>3. ASSUME NEW i \in 1..n PROVE At(i)' = At(i)
        <3>1. CASE i <= Len(buffer)
            BY <2>1, <3>1 DEF At
        <3>2. CASE ~(i <= Len(buffer))
            <4>1. i - Len(buffer) \in 1..Len(wire)
                BY <2>1, <3>2 DEF Total
            <4>2. wire'[i - Len(buffer)] = wire[i - Len(buffer)]
                BY <1>5, <2>1, <4>1
            <4>3. QED BY <2>1, <3>2, <4>2 DEF At
        <3>3. QED BY <3>1, <3>2
    <2>4. /\ wire'[Len(wire) + 1] = Geyser!FrameHead(w)
          /\ wire'[Len(wire) + 2] = Geyser!FrameTail(w)
        BY <1>4, <1>5, <2>1
    <2>5. At(n + 1)' = Geyser!FrameHead(w) /\ At(n + 2)' = Geyser!FrameTail(w)
        <3>1. /\ n + 1 - Len(buffer) = Len(wire) + 1 /\ ~(n + 1 <= Len(buffer))
              /\ n + 2 - Len(buffer) = Len(wire) + 2 /\ ~(n + 2 <= Len(buffer))
            BY <2>1 DEF Total
        <3>2. QED BY <2>1, <2>4, <3>1 DEF At
    <2>6. QED BY <2>2, <2>3, <2>5
<1>7. Geyser!TypeOK' /\ (Len(buffer) < 2)' /\ Queued'
    BY <1>1, <1>5, GeyserTakes DEF GeyserInv, Geyser!TypeOK
<1>8. ASSUME ~cut'
      PROVE  Whole' /\ Ordered' /\ HandedInOrder'
    <2>1. Whole /\ Ordered /\ HandedInOrder /\ Queued /\ n % 2 = 0
        BY <1>1, <1>8, WholeIsEven, GeyserTyped DEF GeyserInv
    <2>2. \A i \in Heads' : i \in Heads \/ i = n + 1
        BY <1>6, <2>1 DEF Heads
    <2>3. Heads \subseteq 1..n /\ Heads \subseteq Nat
        BY <2>1 DEF Heads
    <2>4. Whole'
        <3>1. ASSUME NEW i \in Heads
              PROVE  /\ i < Total' /\ At(i)'.part = "head"
                     /\ At(i + 1)' = Geyser!FrameTail(At(i)'.of)
            <4>1. /\ i < n /\ i \in 1..n /\ At(i).part = "head"
                  /\ At(i + 1) = Geyser!FrameTail(At(i).of)
                BY <2>1, <2>3 DEF Whole
            <4>2. i + 1 \in 1..n /\ i < n + 2
                BY <2>1, <4>1
            <4>3. QED BY <1>6, <4>1, <4>2
        <3>2. /\ n + 1 < Total' /\ At(n + 1)'.part = "head"
              /\ At(n + 1 + 1)' = Geyser!FrameTail(At(n + 1)'.of)
            <4>1. n + 1 + 1 = n + 2 /\ n + 1 < n + 2
                BY <2>1
            <4>2. QED BY <1>3, <1>6, <4>1
        <3>3. QED BY <2>2, <3>1, <3>2 DEF Whole, Geyser!FrameTail
    <2>5. ASSUME NEW i \in Heads
          PROVE  /\ At(i)' = At(i) /\ At(i).of < w /\ At(i).of <= written
                 /\ \A j \in 1..Len(channel') : At(i).of < channel'[j]
                 /\ \A j \in 1..Len(handed) : handed[j] < At(i).of
        BY <1>1, <1>2, <1>6, <2>1, <2>3, GeyserTakes DEF Ordered
    <2>6. /\ \A j \in 1..Len(channel') : w < channel'[j]
          /\ \A j \in 1..Len(handed) : handed[j] < w
        <3>1. \A j \in 1..Len(channel') : j + 1 \in 1..Len(channel) /\ channel'[j] = channel[j + 1]
            BY <1>1, GeyserTakes
        <3>2. \A j \in 1..Len(channel') : 1 < j + 1
            OBVIOUS
        <3>3. QED BY <1>2, <2>1, <3>1, <3>2 DEF Queued, HandedInOrder
    <2>7. Ordered'
        <3>1. ASSUME NEW i \in Heads'
              PROVE  /\ At(i)'.of <= written'
                     /\ \A j \in 1..Len(channel') : At(i)'.of < channel'[j]
                     /\ \A j \in 1..Len(handed') : handed'[j] < At(i)'.of
            BY <1>1, <1>2, <1>3, <1>6, <2>2, <2>5, <2>6
        <3>2. ASSUME NEW i \in Heads', NEW j \in Heads', i < j
              PROVE  At(i)'.of < At(j)'.of
            <4>1. CASE j \in Heads
                <5>1. i \in Heads
                    BY <2>1, <2>2, <2>3, <3>2, <4>1
                <5>2. QED BY <2>1, <2>5, <3>2, <4>1, <5>1 DEF Ordered
            <4>2. CASE j = n + 1
                <5>1. i \in Heads
                    BY <2>1, <2>2, <3>2, <4>2
                <5>2. QED BY <1>3, <1>6, <2>5, <4>2, <5>1
            <4>3. QED BY <2>2, <4>1, <4>2
        <3>3. QED BY <3>1, <3>2 DEF Ordered
    <2>8. HandedInOrder'
        BY <1>1, <2>1, GeyserTakes DEF HandedInOrder
    <2>9. QED BY <2>4, <2>7, <2>8
<1>9. QED BY <1>7, <1>8 DEF GeyserInv


\* A piece that completes no frame moves to the buffer.
LEMMA GeyserBuffersKeeps ==
    ASSUME GeyserInv, Geyser!OnData, Len(buffer) = 0
    PROVE  GeyserInv'
<1>1. /\ wire # << >> /\ wire' = Tail(wire)
      /\ UNCHANGED <<written, channel, stream, client, breaks, cut>>
    BY DEF Geyser!OnData
<1>2. /\ buffer \in Seq(Geyser!Bytes) /\ wire \in Seq(Geyser!Bytes)
      /\ Len(wire) \in Nat
    BY GeyserTyped
<1>3. /\ Head(wire) \in Geyser!Bytes /\ Head(wire) = wire[1]
      /\ wire' \in Seq(Geyser!Bytes) /\ Len(wire') = Len(wire) - 1
      /\ \A i \in 1..Len(wire') : wire'[i] = wire[i + 1]
    BY <1>1, <1>2, HeadTailProperties
<1>4. /\ Geyser!Buffered \in Seq(Geyser!Bytes) /\ Len(Geyser!Buffered) = 1
      /\ Geyser!Buffered[1] = wire[1]
    <2>1. /\ Append(buffer, Head(wire)) \in Seq(Geyser!Bytes)
          /\ Len(Append(buffer, Head(wire))) = Len(buffer) + 1
          /\ Append(buffer, Head(wire))[Len(buffer) + 1] = Head(wire)
        BY <1>2, <1>3, AppendProperties
    <2>2. QED BY <1>3, <2>1 DEF Geyser!Buffered
<1>5. buffer' = Geyser!Buffered /\ UNCHANGED <<handed, fetching, debounced>>
    BY <1>4 DEF Geyser!OnData, Geyser!handler
<1>6. Total' = Total /\ \A i \in 1..Total : At(i)' = At(i)
    <2>1. Len(wire) \in Nat \ {0}
        BY <1>1, <1>2, EmptySeq
    <2>2. Total' = Total /\ Total = Len(wire)
        <3>1. Len(buffer') = 1
            BY <1>4, <1>5
        <3>2. Len(wire) = 0 + Len(wire) /\ 1 + (Len(wire) - 1) = Len(wire)
            BY <2>1
        <3>3. QED BY <1>3, <3>1, <3>2 DEF Total
    <2>3. ASSUME NEW i \in 1..Total PROVE At(i)' = At(i)
        <3>1. At(i) = wire[i]
            BY <2>2 DEF At
        <3>2. CASE i = 1
            BY <1>4, <1>5, <3>1, <3>2 DEF At
        <3>3. CASE i # 1
            <4>1. i - 1 \in 1..Len(wire') /\ ~(i <= 1) /\ i - 1 + 1 = i
                BY <1>3, <2>1, <2>2, <3>3
            <4>2. At(i)' = wire'[i - 1]
                BY <1>4, <1>5, <4>1 DEF At
            <4>3. QED BY <1>3, <3>1, <4>1, <4>2
        <3>4. QED BY <3>2, <3>3
    <2>4. QED BY <2>2, <2>3
<1>7. Geyser!TypeOK' /\ (Len(buffer) < 2)' /\ Queued'
    <2>1. Geyser!TypeOK'
        BY <1>1, <1>3, <1>4, <1>5 DEF GeyserInv, Geyser!TypeOK
    <2>2. (Len(buffer) < 2)'
        <3>1. Len(buffer') = 1
            BY <1>4, <1>5
        <3>2. QED BY <3>1
    <2>3. Queued'
        BY <1>1 DEF GeyserInv, Queued
    <2>4. QED BY <2>1, <2>2, <2>3
<1>8. ASSUME ~cut'
      PROVE  Whole' /\ Ordered' /\ HandedInOrder'
    <2>1. Whole /\ Ordered /\ HandedInOrder /\ Total \in Nat
        BY <1>1, <1>8, GeyserTyped DEF GeyserInv
    <2>2. Heads' = Heads /\ \A i \in Heads : i \in 1..Total
        BY <1>6 DEF Heads
    <2>3. \A i \in Heads : At(i)' = At(i)
        BY <1>6, <2>2
    <2>4. Whole'
        <3>1. ASSUME NEW i \in Heads
              PROVE  /\ i < Total' /\ At(i)'.part = "head"
                     /\ At(i + 1)' = Geyser!FrameTail(At(i)'.of)
            <4>1. /\ i < Total /\ i \in 1..Total /\ At(i).part = "head"
                  /\ At(i + 1) = Geyser!FrameTail(At(i).of)
                BY <2>1, <2>2 DEF Whole
            <4>2. i + 1 \in 1..Total
                BY <2>1, <4>1
            <4>3. QED BY <1>6, <4>1, <4>2
        <3>2. QED BY <2>2, <3>1 DEF Whole, Geyser!FrameTail
    <2>5. Ordered'
        BY <1>1, <1>5, <2>1, <2>2, <2>3 DEF Ordered
    <2>6. HandedInOrder'
        BY <1>1, <1>5, <2>1 DEF HandedInOrder
    <2>7. QED BY <2>4, <2>5, <2>6
<1>9. QED BY <1>7, <1>8 DEF GeyserInv

LEMMA AppendToOne ==
    ASSUME NEW S, NEW s \in Seq(S), NEW e \in S
    PROVE  Len(s) = 1 =>
             /\ Append(s, e) \in Seq(S) /\ Len(Append(s, e)) = 2
             /\ Append(s, e)[1] = s[1] /\ Append(s, e)[2] = e
<1>1. /\ Append(s, e) \in Seq(S)
      /\ Len(Append(s, e)) = Len(s) + 1
      /\ \A i \in 1..Len(s) : Append(s, e)[i] = s[i]
      /\ Append(s, e)[Len(s) + 1] = e
    BY AppendProperties
<1>2. QED BY <1>1

\* A piece that completes a frame: the update of the frame is handed over.
LEMMA GeyserHandsKeeps ==
    ASSUME GeyserInv, Geyser!OnData, Len(buffer) = 1
    PROVE  GeyserInv'
<1> DEFINE bytes == Geyser!Buffered
           w == Geyser!Frame(bytes)
<1>1. /\ wire # << >> /\ wire' = Tail(wire)
      /\ UNCHANGED <<written, channel, stream, client, breaks, cut>>
    BY DEF Geyser!OnData
<1>2. /\ buffer \in Seq(Geyser!Bytes) /\ wire \in Seq(Geyser!Bytes)
      /\ Len(wire) \in Nat \ {0}
    BY <1>1, GeyserTyped, EmptySeq
<1>3. /\ Head(wire) \in Geyser!Bytes /\ Head(wire) = wire[1]
      /\ wire' \in Seq(Geyser!Bytes) /\ Len(wire') = Len(wire) - 1
      /\ \A i \in 1..Len(wire') : wire'[i] = wire[i + 1]
    BY <1>1, <1>2, HeadTailProperties
<1>4. /\ bytes \in Seq(Geyser!Bytes) /\ Len(bytes) = 2
      /\ bytes[1] = buffer[1] /\ bytes[2] = wire[1]
    <2>1. buffer \in Seq(Geyser!Bytes) /\ Head(wire) \in Geyser!Bytes
        BY <1>2, <1>3
    <2>2. /\ bytes \in Seq(Geyser!Bytes) /\ bytes[1] = buffer[1] /\ bytes[2] = Head(wire)
          /\ Len(bytes) = 2
        BY <2>1, AppendToOne DEF Geyser!Buffered
    <2>3. QED BY <1>3, <2>2
<1>5. /\ buffer' = Geyser!Rest(bytes) /\ handed' = Append(handed, w)
      /\ fetching' \in BOOLEAN /\ debounced' \in BOOLEAN
    <2>1. buffer' = Geyser!Rest(bytes) /\ Geyser!OnUpdate(w)
        BY <1>4 DEF Geyser!OnData
    <2>2. fetching \in BOOLEAN /\ debounced \in BOOLEAN
        BY DEF GeyserInv, Geyser!TypeOK
    <2>3. QED BY <2>1, <2>2 DEF Geyser!OnUpdate
<1>6. buffer' = << >> /\ Len(buffer') = 0 /\ buffer' \in Seq(Geyser!Bytes)
    <2>1. buffer' = SubSeq(bytes, 3, 2)
        BY <1>4, <1>5 DEF Geyser!Rest
    <2>2. buffer' = << >>
        BY <2>1, SubSeqEmpty
    <2>3. QED BY <2>2, EmptySeq
<1>7. w \in 0..MaxWrites
    <2>1. bytes[1] \in Geyser!Bytes /\ MaxWrites \in Nat
        <3>1. 1 \in 1..Len(bytes)
            BY <1>4
        <3>2. QED BY <1>4, <3>1, GeyserTyped, ElementOfSeq
    <2>2. bytes[1].of \in 0..MaxWrites /\ 0 \in 0..MaxWrites
        BY <2>1 DEF Geyser!Bytes
    <2>3. QED BY <2>2 DEF Geyser!Frame, Geyser!Garbled
<1>8. /\ handed' \in Seq(0..MaxWrites) /\ Len(handed') = Len(handed) + 1
      /\ \A i \in 1..Len(handed) : handed'[i] = handed[i]
      /\ handed'[Len(handed) + 1] = w
    BY <1>5, <1>7, GeyserTyped, AppendProperties
<1>9. Geyser!TypeOK' /\ (Len(buffer) < 2)' /\ Queued'
    BY <1>1, <1>3, <1>5, <1>6, <1>8 DEF GeyserInv, Geyser!TypeOK, Queued
<1> PICK n \in Nat : n = Total
    BY GeyserTyped
<1>10. /\ n = Len(wire) + 1 /\ Total' = n - 2
       /\ At(1) = buffer[1] /\ At(2) = wire[1]
       /\ \A i \in 1..n - 2 : At(i)' = At(i + 2)
    <2>1. n = Len(wire) + 1 /\ Total' = n - 2
        BY <1>2, <1>3, <1>6 DEF Total
    <2>2. At(1) = buffer[1] /\ At(2) = wire[1]
        BY DEF At
    <2>3. ASSUME NEW i \in 1..n - 2 PROVE At(i)' = At(i + 2)
        <3>1. i \in 1..Len(wire') /\ ~(i <= 0) /\ ~(i + 2 <= 1) /\ i + 2 - 1 = i + 1 /\ i - 0 = i
            BY <1>2, <1>3, <2>1
        <3>2. At(i)' = wire'[i]
            BY <1>6, <3>1 DEF At
        <3>3. At(i + 2) = wire[i + 1]
            BY <3>1 DEF At
        <3>4. QED BY <1>3, <3>1, <3>2, <3>3
    <2>4. QED BY <2>1, <2>2, <2>3
<1>11. ASSUME ~cut'
       PROVE  Whole' /\ Ordered' /\ HandedInOrder'
    <2>1. Whole /\ Ordered /\ HandedInOrder
        BY <1>1, <1>11 DEF GeyserInv
    <2>2. 1 \in Heads
        <3>1. 1 \in 1..n /\ 1 % 2 = 1
            BY <1>2, <1>10
        <3>2. QED BY <3>1 DEF Heads
    <2>3. w = At(1).of /\ w \in 1..MaxWrites
        <3>1. At(2) = Geyser!FrameTail(At(1).of)
            BY <2>1, <2>2 DEF Whole
        <3>2. w = At(1).of
            BY <1>4, <1>10, <3>1 DEF Geyser!Frame
        <3>3. 1 \in 1..Total
            BY <2>2 DEF Heads
        <3>4. QED BY <3>2, <3>3, GeyserTyped
    <2>4. \A i \in Heads' : i \in 1..n - 2 /\ i + 2 \in Heads /\ At(i)' = At(i + 2)
        <3>1. ASSUME NEW i \in Heads'
              PROVE  i \in 1..n - 2 /\ i + 2 \in 1..n /\ (i + 2) % 2 = 1
            <4>1. i \in 1..n - 2 /\ i % 2 = 1
                BY <1>10 DEF Heads
            <4>2. QED BY <4>1
        <3>2. QED BY <1>10, <3>1 DEF Heads
    <2>5. Whole'
        <3>1. ASSUME NEW i \in Heads'
              PROVE  /\ i < Total' /\ At(i)'.part = "head"
                     /\ At(i + 1)' = Geyser!FrameTail(At(i)'.of)
            <4>1. /\ i \in 1..n - 2 /\ i + 2 < n /\ At(i + 2).part = "head"
                  /\ At(i + 2 + 1) = Geyser!FrameTail(At(i + 2).of) /\ At(i)' = At(i + 2)
                BY <2>1, <2>4 DEF Whole
            <4>2. i + 1 \in 1..n - 2 /\ i + 1 + 2 = i + 2 + 1 /\ i < n - 2
                BY <4>1
            <4>3. QED BY <1>10, <4>1, <4>2
        <3>2. QED BY <3>1 DEF Whole, Geyser!FrameTail
    <2>6. Ordered'
        <3>1. ASSUME NEW i \in Heads'
              PROVE  /\ At(i)'.of <= written'
                     /\ \A j \in 1..Len(channel') : At(i)'.of < channel'[j]
                     /\ \A j \in 1..Len(handed') : handed'[j] < At(i)'.of
            <4>1. i + 2 \in Heads /\ At(i)' = At(i + 2) /\ 1 < i + 2
                BY <2>4
            <4>2. /\ At(i)'.of <= written
                  /\ \A j \in 1..Len(channel) : At(i)'.of < channel[j]
                BY <2>1, <4>1 DEF Ordered
            <4>3. \A j \in 1..Len(handed) : handed[j] < At(i)'.of
                BY <2>1, <4>1 DEF Ordered
            <4>4. w < At(i)'.of
                BY <2>1, <2>2, <2>3, <4>1 DEF Ordered
            <4>5. \A j \in 1..Len(handed') : j \in 1..Len(handed) \/ j = Len(handed) + 1
                BY <1>8, GeyserTyped
            <4>6. QED BY <1>1, <1>8, <4>2, <4>3, <4>4, <4>5
        <3>2. ASSUME NEW i \in Heads', NEW j \in Heads', i < j
              PROVE  At(i)'.of < At(j)'.of
            <4>1. /\ i + 2 \in Heads /\ At(i)' = At(i + 2) /\ i \in 1..n - 2
                  /\ j + 2 \in Heads /\ At(j)' = At(j + 2) /\ j \in 1..n - 2
                BY <2>4
            <4>2. i + 2 < j + 2
                BY <3>2, <4>1
            <4>3. QED BY <2>1, <4>1, <4>2 DEF Ordered
        <3>3. QED BY <3>1, <3>2 DEF Ordered
    <2>7. HandedInOrder'
        <3>1. /\ \A j \in 1..Len(handed) : handed[j] < w
              /\ w # 0 /\ w <= written /\ \A j \in 1..Len(channel) : w < channel[j]
            BY <2>1, <2>2, <2>3 DEF Ordered
        <3>2. \A i \in 1..Len(handed') : i \in 1..Len(handed) \/ i = Len(handed) + 1
            BY <1>8, GeyserTyped
        <3>3. ASSUME NEW i \in 1..Len(handed')
              PROVE  /\ handed'[i] # Geyser!Garbled /\ handed'[i] <= written'
                     /\ \A j \in 1..Len(channel') : handed'[i] < channel'[j]
            BY <1>1, <1>8, <2>1, <3>1, <3>2 DEF HandedInOrder, Geyser!Garbled
        <3>4. ASSUME NEW i \in 1..Len(handed'), NEW j \in 1..Len(handed'), i < j
              PROVE  handed'[i] < handed'[j]
            <4>1. i \in 1..Len(handed)
                BY <1>8, <3>4, GeyserTyped
            <4>2. CASE j \in 1..Len(handed)
                BY <1>8, <2>1, <3>4, <4>1, <4>2 DEF HandedInOrder
            <4>3. CASE j = Len(handed) + 1
                BY <1>8, <3>1, <4>1, <4>3
            <4>4. QED BY <3>2, <4>2, <4>3
        <3>5. QED BY <3>3, <3>4 DEF HandedInOrder
    <2>8. QED BY <2>5, <2>6, <2>7
<1>12. QED BY <1>9, <1>11 DEF GeyserInv


\* A broken connection takes what is on the wire with it.
LEMMA GeyserDisconnectKeeps ==
    ASSUME GeyserInv, Geyser!ClientBreaks \/ Geyser!Stop
    PROVE  GeyserInv'
<1>1. /\ client' \in {"down", "stopped"} /\ wire' = << >>
      /\ stream' = (IF stream = "up" THEN "stale" ELSE stream)
      /\ cut' = (cut \/ buffer # << >>)
      /\ UNCHANGED <<written, channel, buffer, handed, fetching, debounced>>
    BY DEF Geyser!ClientBreaks, Geyser!Stop, Geyser!Disconnects, Geyser!handler
<1>2. breaks' \in 0..MaxBreaks
    <2>1. breaks \in 0..MaxBreaks /\ (UNCHANGED breaks \/ (breaks' = breaks + 1 /\ breaks < MaxBreaks))
        BY DEF Geyser!ClientBreaks, Geyser!Stop, GeyserInv, Geyser!TypeOK
    <2>2. QED BY <2>1, GeyserTyped
<1>3. wire' \in Seq(Geyser!Bytes) /\ Len(wire') = 0
    BY <1>1, EmptySeq
<1>4. Geyser!TypeOK' /\ (Len(buffer) < 2)' /\ Queued'
    <2>1. Geyser!TypeOK'
        BY <1>1, <1>2, <1>3 DEF GeyserInv, Geyser!TypeOK
    <2>2. QED BY <1>1, <2>1 DEF GeyserInv, Queued
<1>5. ASSUME ~cut'
      PROVE  Whole' /\ Ordered' /\ HandedInOrder'
    <2>1. ~cut /\ buffer = << >> /\ Len(buffer') = 0
        BY <1>1, <1>5, EmptySeq
    <2>2. Total' = 0
        BY <1>3, <2>1 DEF Total
    <2>3. Heads' = {}
        BY <2>2 DEF Heads
    <2>4. Whole' /\ Ordered'
        BY <2>3 DEF Whole, Ordered
    <2>5. HandedInOrder'
        BY <1>1, <2>1 DEF GeyserInv, HandedInOrder
    <2>6. QED BY <2>4, <2>5
<1>6. QED BY <1>4, <1>5 DEF GeyserInv

\* Steps that move no update.
LEMMA GeyserQuietKeeps ==
    ASSUME GeyserInv,
           \/ Geyser!Connects \/ Geyser!ReadsEnd \/ Geyser!DebounceEnds \/ Geyser!FetchEnds
           \/ UNCHANGED Geyser!vars
    PROVE  GeyserInv'
<1>1. UNCHANGED <<written, channel, wire, stream, buffer, handed, breaks, cut>>
    BY DEF Geyser!Connects, Geyser!ReadsEnd, Geyser!DebounceEnds, Geyser!FetchEnds,
           Geyser!vars, Geyser!connection, Geyser!handler
<1>2. /\ client' \in {"down", "queued", "up", "dropped", "stopped"}
      /\ client' = "up" => client = "up"
      /\ fetching' \in BOOLEAN /\ debounced' \in BOOLEAN
    BY DEF Geyser!Connects, Geyser!ReadsEnd, Geyser!DebounceEnds, Geyser!FetchEnds,
           Geyser!vars, Geyser!connection, Geyser!handler, GeyserInv, Geyser!TypeOK
<1>3. Geyser!TypeOK' /\ (Len(buffer) < 2)' /\ Queued'
    BY <1>1, <1>2 DEF GeyserInv, Geyser!TypeOK, Queued
<1>4. /\ Total' = Total /\ Heads' = Heads
      /\ \A i : At(i)' = At(i)
    BY <1>1 DEF Total, Heads, At
<1>5. ~cut' => Whole' /\ Ordered' /\ HandedInOrder'
    BY <1>1, <1>4 DEF GeyserInv, Whole, Ordered, HandedInOrder, Geyser!FrameTail
<1>6. QED BY <1>3, <1>5 DEF GeyserInv

LEMMA GeyserNextKeeps == GeyserInv /\ [Geyser!Next]_(Geyser!vars) => GeyserInv'
<1> SUFFICES ASSUME GeyserInv, [Geyser!Next]_(Geyser!vars) PROVE GeyserInv'
    OBVIOUS
<1>1. CASE Geyser!UpdateAccount
    BY <1>1, GeyserUpdateKeeps
<1>2. CASE Geyser!WriteFrame \/ Geyser!WriteFails
    BY <1>2, GeyserWritesKeeps, GeyserLosesKeeps
<1>3. CASE Geyser!OnData
    BY <1>3, GeyserTyped, GeyserBuffersKeeps, GeyserHandsKeeps
<1>4. CASE Geyser!ClientBreaks \/ Geyser!Stop
    BY <1>4, GeyserDisconnectKeeps
<1>5. CASE \/ Geyser!Connects \/ Geyser!ReadsEnd \/ Geyser!DebounceEnds \/ Geyser!FetchEnds
           \/ UNCHANGED Geyser!vars
    BY <1>5, GeyserQuietKeeps
<1>6. QED BY <1>1, <1>2, <1>3, <1>4, <1>5 DEF Geyser!Next

LEMMA GeyserInit == Geyser!Init => GeyserInv
<1> SUFFICES ASSUME Geyser!Init PROVE GeyserInv
    OBVIOUS
<1>1. /\ MaxWrites \in Nat /\ Capacity \in Nat /\ MaxBreaks \in Nat
    BY FeedsAssumption DEF Geyser!GeyserStreamAssumption
<1>2. /\ written = 0 /\ channel = << >> /\ wire = << >> /\ buffer = << >> /\ handed = << >>
      /\ breaks = 0 /\ cut = FALSE /\ stream = "none" /\ client = "down"
      /\ fetching = FALSE /\ debounced = FALSE
    BY DEF Geyser!Init
<1>3. Len(channel) = 0 /\ Len(wire) = 0 /\ Len(buffer) = 0 /\ Len(handed) = 0
    BY <1>2, EmptySeq
<1>4. /\ channel \in Seq(1..MaxWrites) /\ wire \in Seq(Geyser!Bytes)
      /\ buffer \in Seq(Geyser!Bytes) /\ handed \in Seq(0..MaxWrites)
    BY <1>2, EmptySeq
<1>5. written \in 0..MaxWrites /\ breaks \in 0..MaxBreaks /\ Len(channel) <= Capacity
    BY <1>1, <1>2, <1>3
<1>6. Geyser!TypeOK
    BY <1>2, <1>4, <1>5 DEF Geyser!TypeOK
<1>7. Heads = {}
    BY <1>3 DEF Heads, Total
<1>8. Queued /\ Whole /\ Ordered /\ HandedInOrder
    BY <1>3, <1>7 DEF Queued, Whole, Ordered, HandedInOrder
<1>9. QED BY <1>3, <1>6, <1>8 DEF GeyserInv

\* Nothing is asked of the frames but that none was cut.
LEMMA FramesIntactHolds ==
    ASSUME GeyserInv
    PROVE  FramesIntact
<1>1. DOMAIN handed = 1..Len(handed)
    BY GeyserTyped, LenProperties
<1>2. QED BY <1>1 DEF GeyserInv, HandedInOrder, FramesIntact, Geyser!FramesIntact

-----------------------------------------------------------------------------
(* The feeds side by side.                                                 *)

FeedsInv == LogsInv /\ ClientsInv /\ VaultsInv /\ GeyserInv

LEMMA FeedsInitially == Init => FeedsInv
BY LogsInit, ClientsInit, VaultsInit, GeyserInit DEF Init, FeedsInv

\* A step of the system is a step of one feed, and none of the others.
LEMMA FeedsStep == FeedsInv /\ [Next]_vars => FeedsInv'
<1> SUFFICES ASSUME FeedsInv, [Next]_vars PROVE FeedsInv'
    OBVIOUS
<1>1. /\ [Logs!Next]_(Logs!vars) /\ [Clients!Next]_(Clients!vars)
      /\ [Vaults!Next]_(Vaults!vars) /\ [Geyser!Next]_(Geyser!vars)
    BY DEF Next, LogsStep, SocketsStep, VaultsStep, GeyserStep, vars, logs, clients,
           vaultsVars, geyser, Logs!vars, Clients!vars, Vaults!vars, Geyser!vars,
           Geyser!connection, Geyser!handler
<1>2. QED BY <1>1, LogsNextKeeps, ClientsNextKeeps, VaultsNextKeeps, GeyserNextKeeps
          DEF FeedsInv

\* Every stream and socket that is not aborted is the one its owner holds: no
\* rotation, restart, retry, reconnect, removal or stop leaves one behind.
THEOREM FeedsHaveOwners == Spec => []FeedsOwned
<1>1. FeedsInv => FeedsOwned
    BY OneSocketHolds DEF FeedsInv, FeedsOwned, LogsInv, ClientsInv, VaultsInv, GeyserInv
<1>2. QED BY <1>1, FeedsInitially, FeedsStep, PTL DEF Spec

\* However the bytes are split, and however often the connection breaks between
\* two frames, the bot is given what the validator wrote, once and in order.
THEOREM FramesArriveWhole == Spec => []FramesIntact
<1>1. FeedsInv => FramesIntact
    BY FramesIntactHolds DEF FeedsInv
<1>2. QED BY <1>1, FeedsInitially, FeedsStep, PTL DEF Spec

==============================================================================
