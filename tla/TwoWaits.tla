------------------------------ MODULE TwoWaits ------------------------------
(***************************************************************************)
(* What the scanner (services/scanner/scanner.service.ts) promises of a    *)
(* mint, whatever is looked up, fails or comes late: it is bought only     *)
(* after the survival wait and the final wait, in this order; putting it   *)
(* off costs attempts, which it never gets back and without which it can   *)
(* only be dropped; an indexing lag repeats the final wait a bounded       *)
(* number of times; and it is judged once.                                 *)
(***************************************************************************)
EXTENDS Naturals

CONSTANTS MaxRecheckAttempts, MaxIndexingLagRetries

VARIABLES
    stage,                       \* of its pending recheck, if there is one
    attempts, lag,               \* rechecks used up; retries for an indexing lag
    young,                       \* it is too new to be judged by its age
    verdict

vars == <<stage, attempts, lag, young, verdict>>

Init ==
    /\ young \in BOOLEAN
    /\ stage = "none" /\ attempts = 0 /\ lag = 0 /\ verdict = "open"

\* Neither judged nor out of attempts.
Running == verdict = "open" /\ attempts < MaxRecheckAttempts

Survive ==
    /\ Running /\ stage \in {"none", "waitlist"}
    /\ stage' = "survival" /\ UNCHANGED <<attempts, lag, young, verdict>>

Confirm ==
    /\ Running /\ stage = "survival"
    /\ stage' = "final" /\ UNCHANGED <<attempts, lag, young, verdict>>

RepeatFinal ==
    /\ Running /\ stage = "final" /\ lag < MaxIndexingLagRetries
    /\ lag' = lag + 1 /\ UNCHANGED <<stage, attempts, young, verdict>>

\* Only a mint that is too new is put off for nothing.
PutOff ==
    /\ Running
    /\ stage' = "waitlist" /\ lag' = 0
    /\ \/ attempts' = attempts + 1
       \/ young /\ attempts' = attempts
    /\ UNCHANGED <<young, verdict>>

Grow == young' = FALSE /\ UNCHANGED <<stage, attempts, lag, verdict>>

Forgotten == stage' = "none" /\ attempts' = 0 /\ lag' = 0 /\ UNCHANGED young

Drop ==
    /\ verdict = "open"
    /\ verdict' = "rejected" /\ Forgotten

Buy ==
    /\ Running /\ stage = "final"
    /\ verdict' = "bought" /\ Forgotten

Next == Survive \/ Confirm \/ RepeatFinal \/ PutOff \/ Grow \/ Drop \/ Buy

Spec == Init /\ [][Next]_vars
=============================================================================
