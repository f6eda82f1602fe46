---------------------------- MODULE SharedFetches ----------------------------
(***************************************************************************)
(* The values the trading services fetch, keep for a while and share while *)
(* a fetch is under way: the SOL price (paper-broker.ts), the priority fee *)
(* and the tip floor (fee-manager.ts), the blockhash (swap-executor.ts).   *)
(* A promise that rejects while nobody has attached a handler stops the    *)
(* bot (index.ts), so the model keeps who awaits what.                     *)
(***************************************************************************)
EXTENDS Naturals, FiniteSets

CONSTANTS Askers                     \* services that ask and await the answer

\* executeLiveBuy and buildRaydiumSwap start a fetch and await something else first.
Buyer == "buyer"
Router == "router"
Callers == Askers \cup {Buyer, Router}
Nobody == "nobody"
Caches == {"price", "fee", "tip", "blockhash"}
Shared == {"price", "fee", "tip"}

SharedFetchesAssumption == Askers \cap {Buyer, Router, Nobody} = {}

VARIABLES
    age,                             \* cache -> of its value
    inflight,                        \* _solPriceInflight, ...: whose fetch is shared
    asks,                            \* caller -> the cache it waits for
    fetches,                         \* callers that wait for a fetch of their own
    panic,                           \* those that ask in a panic sale
    cooling,                         \* jupiterPriceCooldownUntil
    awaits,                          \* Buyer and Router: what they await first
    fatal                            \* an unhandled rejection: the bot shuts down

vars == <<age, inflight, asks, fetches, panic, cooling, awaits, fatal>>

TypeOK ==
    /\ age \in [Caches -> {"none", "fresh", "stale"}]
    /\ inflight \in [Shared -> Callers \cup {Nobody}]
    /\ asks \in [Callers -> Caches \cup {"nothing"}]
    /\ fetches \subseteq Callers /\ panic \subseteq Callers
    /\ cooling \in BOOLEAN /\ fatal \in BOOLEAN
    /\ awaits \in [{Buyer, Router} -> {"nothing", "quote", "read", "fetch"}]

Init ==
    /\ age = [k \in Caches |-> "none"]
    /\ inflight = [k \in Shared |-> Nobody]
    /\ asks = [c \in Callers |-> "nothing"]
    /\ fetches = {} /\ panic = {}
    /\ cooling = FALSE /\ fatal = FALSE
    /\ awaits = [c \in {Buyer, Router} |-> "nothing"]

-----------------------------------------------------------------------------
(* Asking.                                                                 *)

\* Answered without a wait.  In a panic sale the fee is fetched afresh.
AtOnce(k, urgent) ==
    \/ age[k] = "fresh" /\ ~(k = "fee" /\ urgent)
    \/ k = "price" /\ cooling

\* Shared with other callers: never in a panic sale, and never a blockhash.
Sharing(k, urgent) == k \in Shared /\ ~urgent

Ask(c, k, urgent) ==
    /\ asks[c] = "nothing"
    /\ IF AtOnce(k, urgent) THEN UNCHANGED <<asks, fetches, inflight, panic>>
       ELSE /\ asks' = [asks EXCEPT ![c] = k]
            /\ panic' = IF urgent THEN panic \cup {c} ELSE panic
            /\ IF Sharing(k, urgent) /\ inflight[k] # Nobody
               THEN UNCHANGED <<fetches, inflight>>
               ELSE /\ fetches' = fetches \cup {c}
                    /\ inflight' = IF Sharing(k, urgent) THEN [inflight EXCEPT ![k] = c]
                                   ELSE inflight

Asks ==
    \E c \in Askers, k \in Shared, urgent \in BOOLEAN :
        /\ urgent => k \in {"fee", "tip"}
        /\ ~AtOnce(k, urgent)
        /\ Ask(c, k, urgent)
        /\ UNCHANGED <<age, cooling, awaits, fatal>>

\* executeLiveBuy asks for the price, reads the balance, and awaits first the
\* prefetched quote, then the balance, then the price.
BeginBuy ==
    /\ awaits[Buyer] = "nothing"
    /\ Ask(Buyer, "price", FALSE)
    /\ \E first \in {"quote", "read"} : awaits' = [awaits EXCEPT ![Buyer] = first]
    /\ UNCHANGED <<age, cooling, fatal>>

\* buildRaydiumSwap asks for a blockhash and reads the vaults.
BeginRoute ==
    /\ awaits[Router] = "nothing"
    /\ Ask(Router, "blockhash", FALSE)
    /\ awaits' = [awaits EXCEPT ![Router] = "read"]
    /\ UNCHANGED <<age, cooling, fatal>>

-----------------------------------------------------------------------------
(* Answers.                                                                *)

\* Who gets the answer of c's fetch: c, and those that share it.
Served(c) ==
    {c} \cup IF asks[c] \in Shared /\ inflight[asks[c]] = c
             THEN {d \in Callers \ fetches : asks[d] = asks[c]} ELSE {}

\* Mutant: the marker outlives the fetch.
Cleared_Never(c) == inflight
Cleared(c) == [k \in Shared |-> IF inflight[k] = c THEN Nobody ELSE inflight[k]]

\* Their turn goes on; those that come to the fetch last are done with it.
Settle(c, served) ==
    /\ asks' = [d \in Callers |-> IF d \in served THEN "nothing" ELSE asks[d]]
    /\ fetches' = fetches \ {c}
    /\ panic' = panic \ served
    /\ inflight' = Cleared(c)
    /\ awaits' = [d \in {Buyer, Router} |->
                     IF d \in served /\ awaits[d] = "fetch" THEN "nothing" ELSE awaits[d]]

\* getBlockhash keeps nothing, nor does a panic sale's fee; a tip floor may
\* come without statistics.
Kept(c) == ~(asks[c] = "blockhash" \/ (asks[c] = "fee" /\ c \in panic))

Answered(c) ==
    /\ c \in fetches
    /\ \E kept \in {Kept(c)} \cup (IF asks[c] = "tip" THEN {FALSE} ELSE {}) :
          age' = IF kept THEN [age EXCEPT ![asks[c]] = "fresh"] ELSE age
    /\ Settle(c, Served(c))
    /\ UNCHANGED <<cooling, fatal>>

\* Whether a failed fetch rejects: never for the fee (the base fee stands in);
\* the price when there is no older one, or when the answer is without it, and
\* not when ten seconds have passed.
Rejects(c) ==
    CASE asks[c] \in {"tip", "blockhash"} -> {TRUE}
      [] asks[c] = "price" -> BOOLEAN
      [] OTHER -> {FALSE}

\* Nobody would handle a rejection: of the promise the callers of the tip share, when
\* no other shares it; of a promise its caller has not come to await yet.
Unhandled(c) ==
    \/ asks[c] = "tip" /\ inflight["tip"] = c /\ Served(c) = {c}
    \/ \E d \in Served(c) \cap {Buyer, Router} : awaits[d] # "fetch"

Failed(c) ==
    /\ c \in fetches
    /\ \E rejects \in Rejects(c) : fatal' = (rejects /\ Unhandled(c))
    /\ Settle(c, Served(c))
    /\ UNCHANGED <<age, cooling>>

\* HTTP 429 for the price: everyone gets the old or the built-in one.
RateLimited(c) ==
    /\ c \in fetches /\ asks[c] = "price"
    /\ cooling' = TRUE
    /\ Settle(c, Served(c))
    /\ UNCHANGED <<age, fatal>>

\* The quote arrives, or the balance or the vaults.
ReadsOn(c) ==
    /\ awaits[c] \in {"quote", "read"}
    /\ awaits' = [awaits EXCEPT ![c] =
                     IF @ = "quote" THEN "read"
                     ELSE IF asks[c] = "nothing" THEN "nothing" ELSE "fetch"]
    /\ UNCHANGED <<age, inflight, asks, fetches, panic, cooling, fatal>>

\* The balance or the vaults cannot be read.  Unless they are awaited by now
\* nobody handles it; else the caller gives up, and its fetch goes on.
ReadFails(c) ==
    /\ awaits[c] \in {"quote", "read"}
    /\ fatal' = (awaits[c] = "quote")
    /\ awaits' = [awaits EXCEPT ![c] = "nothing"]
    /\ UNCHANGED <<age, inflight, asks, fetches, panic, cooling>>

-----------------------------------------------------------------------------
(* Time.                                                                   *)

\* Only an old price still stands in for a new one.
Expires(k) ==
    /\ age[k] = "fresh"
    /\ age' = [age EXCEPT ![k] = IF k = "price" THEN "stale" ELSE "none"]
    /\ UNCHANGED <<inflight, asks, fetches, panic, cooling, awaits, fatal>>

CooldownEnds ==
    /\ cooling /\ cooling' = FALSE
    /\ UNCHANGED <<age, inflight, asks, fetches, panic, awaits, fatal>>

\* startBlockhashPrewarmer, every 300 ms.
Prewarm ==
    /\ age["blockhash"] # "fresh"
    /\ age' = [age EXCEPT !["blockhash"] = "fresh"]
    /\ UNCHANGED <<inflight, asks, fetches, panic, cooling, awaits, fatal>>

-----------------------------------------------------------------------------
Answers(c) == Answered(c) \/ Failed(c) \/ RateLimited(c)

Next ==
    /\ ~fatal
    /\ \/ Asks \/ BeginBuy \/ BeginRoute
       \/ \E c \in Callers : Answers(c)
       \/ \E c \in {Buyer, Router} : ReadsOn(c) \/ ReadFails(c)
       \/ \E k \in Caches : Expires(k)
       \/ CooldownEnds \/ Prewarm

Spec == Init /\ [][Next]_vars

-----------------------------------------------------------------------------
(* Properties.                                                             *)

\* The marker of a shared fetch is set exactly while that fetch runs, and there
\* is one such fetch at a time: a marker left behind would serve its old answer
\* for ever, one cleared too soon would send every caller to the API.
OneFetchAtATime ==
    \A k \in Shared :
        {c \in fetches : asks[c] = k /\ c \notin panic} = {inflight[k]} \ {Nobody}

\* A caller is answered, or the bot shuts down.
CallersAnswered == \A c \in Callers : asks[c] # "nothing" ~> asks[c] = "nothing" \/ fatal

=============================================================================
