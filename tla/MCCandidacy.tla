---------------------------- MODULE MCCandidacy ----------------------------
(***************************************************************************)
(* Candidacy on a few mints: sound ones of every feed, and one with each   *)
(* kind of flaw.                                                           *)
(***************************************************************************)
EXTENDS Candidacy

Sound == [feed |-> "recent", launchpad |-> "pump.fun", suffix |-> TRUE, buys |-> TRUE,
          flags |-> {}, soft |-> {}, chain |-> {}, holders |-> "enough", socials |-> 3,
          organic |-> TRUE, pressure |-> TRUE]

\* bot.ts makes these of the mints the streams push.
Stub == [Sound EXCEPT !.feed = "stream", !.buys = FALSE, !.holders = "few", !.socials = 0,
                      !.organic = FALSE, !.pressure = FALSE]

Flawed ==
    {[Sound EXCEPT !.launchpad = "null", !.suffix = FALSE, !.chain = {"owner"}],
     [Sound EXCEPT !.flags = {"low-market-cap"}],
     [Sound EXCEPT !.buys = FALSE, !.chain = {"danger"}],
     [Sound EXCEPT !.holders = "borderline", !.socials = 1, !.chain = {"borderline", "clusters"}],
     [Sound EXCEPT !.suffix = FALSE, !.soft = {"low-organic-score"}, !.organic = FALSE],
     [Sound EXCEPT !.chain = {"authority"}],
     [Sound EXCEPT !.launchpad = "other"],
     [Sound EXCEPT !.flags = {"jupiter-audit-suspicious"}, !.socials = 0, !.pressure = FALSE]}

Plain == [burst |-> FALSE, adaptive |-> TRUE, rugcheck |-> TRUE, bubblemaps |-> TRUE]
Burst == [Plain EXCEPT !.burst = TRUE, !.adaptive = FALSE, !.bubblemaps = FALSE]

\* An empty curve that fills and rises; a pool drained slowly; a fall.
At(p, l) == [price |-> p, liquidity |-> l]
Rise == <<At(1, 0), At(1, 3), At(2, 6)>>
Drain == <<At(1, 6), At(1, 5), At(1, 4), At(1, 3), At(1, 2)>>
Fall == <<At(2, 3), At(1, 2), At(1, 0)>>

Case(t, c, way) == [token |-> t, config |-> c, course |-> way]
SmallCases ==
    {Case(t, Plain, Rise) : t \in Flawed \cup {Stub}}
    \cup {Case(t, Burst, Rise) : t \in {Sound, [Sound EXCEPT !.chain = {"concentration"}]}}
    \cup {Case(Sound, Plain, way) : way \in {Rise, Drain, Fall}}
    \cup {Case([Sound EXCEPT !.feed = "trending", !.chain = {"concentration"}], Plain, Rise)}

============================================================================
