------------------------------- MODULE RpcPool -------------------------------
(***************************************************************************)
(* rpcCall (core/utils/solana.ts): concurrent callers share a rotating     *)
(* index and a health record per endpoint.  An endpoint with three errors  *)
(* is left out for 60 s, unless every endpoint is.                         *)
(***************************************************************************)
EXTENDS Naturals, FiniteSets

CONSTANTS Pool,                      \* endpoints: 0..Pool-1
          Flaky,                     \* those that may fail; the others answer
          Callers,
          MaxAttempts,               \* attempts of a call
          Turns                      \* the index is kept modulo this, a multiple of
                                     \*   every number of candidates

Rpcs == 0..(Pool - 1)
Threshold == 3

RpcPoolAssumption ==
    /\ {Pool, MaxAttempts, Turns} \subseteq Nat \ {0} /\ Flaky \subseteq Rpcs
    /\ IsFiniteSet(Callers) /\ \A n \in 1..Pool : Turns % n = 0

VARIABLES
    phase, attempt, at, several,     \* caller: where it stands, attempt, endpoint, had it a choice
    index,                           \* _rpcIndex, as far as a remainder can tell
    errorCount, recent,              \* rpcHealth: errors; the last is younger than 60 s
    window                           \* history: errors since a success or a quiet minute

vars == <<phase, attempt, at, several, index, errorCount, recent, window>>

MaxErrors == Threshold + Cardinality(Callers)    \* bound on the counters: more makes no difference
Capped(n) == IF n > MaxErrors THEN MaxErrors ELSE n

TypeOK ==
    /\ phase \in [Callers -> {"idle", "choosing", "sent", "sleeping"}]
    /\ attempt \in [Callers -> 0..MaxAttempts]
    /\ at \in [Callers -> Rpcs] /\ several \in [Callers -> BOOLEAN]
    /\ index \in 0..(Turns - 1)
    /\ errorCount \in [Rpcs -> 0..MaxErrors] /\ recent \in [Rpcs -> BOOLEAN]
    /\ window \in [Rpcs -> 0..MaxErrors]

Init ==
    /\ phase = [c \in Callers |-> "idle"] /\ attempt = [c \in Callers |-> 0]
    /\ at = [c \in Callers |-> 0] /\ several = [c \in Callers |-> FALSE]
    /\ index = 0
    /\ errorCount = [e \in Rpcs |-> 0] /\ recent = [e \in Rpcs |-> FALSE]
    /\ window = [e \in Rpcs |-> 0]

Call(c) ==
    /\ phase[c] = "idle"
    /\ phase' = [phase EXCEPT ![c] = "choosing"]
    /\ UNCHANGED <<attempt, at, several, index, errorCount, recent, window>>

\* The call returns or throws, and leaves nothing behind.
Return(c) ==
    /\ phase' = [phase EXCEPT ![c] = "idle"]
    /\ attempt' = [attempt EXCEPT ![c] = 0]
    /\ at' = [at EXCEPT ![c] = 0] /\ several' = [several EXCEPT ![c] = FALSE]

Benched(e) == errorCount[e] >= Threshold /\ recent[e]
Candidates == IF \A e \in Rpcs : Benched(e) THEN Rpcs ELSE {e \in Rpcs : ~Benched(e)}
\* The n-th candidate, from 0.
Nth(candidates, n) ==
    CHOOSE e \in candidates : Cardinality({d \in candidates : d < e}) = n

\* The endpoint is chosen before the tokens of its buckets are waited for.
Choose(c) ==
    /\ phase[c] = "choosing"
    /\ at' = [at EXCEPT ![c] = Nth(Candidates, index % Cardinality(Candidates))]
    /\ several' = [several EXCEPT ![c] = Cardinality(Candidates) > 1]
    /\ index' = (index + 1) % Turns
    /\ phase' = [phase EXCEPT ![c] = "sent"]
    /\ UNCHANGED <<attempt, errorCount, recent, window>>

Succeeds(c) ==
    /\ phase[c] = "sent"
    /\ errorCount' = [errorCount EXCEPT ![at[c]] = 0]
    /\ recent' = [recent EXCEPT ![at[c]] = FALSE]
    /\ window' = [window EXCEPT ![at[c]] = 0]
    /\ Return(c)
    /\ UNCHANGED index

\* Mutant: the time of the error is not kept.
Recorded_Undated(e) == recent
Recorded(e) == [recent EXCEPT ![e] = TRUE]
\* A retry counts as an attempt.
Retried(c) == [attempt EXCEPT ![c] = @ + 1]

\* An error or a timeout.  Only the callers of a single candidate wait before
\* they try again; an error that is not transient, or the last, is thrown.
Fails(c) ==
    /\ phase[c] = "sent" /\ at[c] \in Flaky
    /\ errorCount' = [errorCount EXCEPT ![at[c]] = Capped(@ + 1)]
    /\ recent' = Recorded(at[c])
    /\ window' = [window EXCEPT ![at[c]] = Capped(@ + 1)]
    /\ \/ /\ attempt[c] + 1 < MaxAttempts
          /\ attempt' = Retried(c)
          /\ phase' = [phase EXCEPT ![c] = IF several[c] THEN "choosing" ELSE "sleeping"]
          /\ UNCHANGED <<at, several>>
       \/ Return(c)
    /\ UNCHANGED index

Wakes(c) ==
    /\ phase[c] = "sleeping"
    /\ phase' = [phase EXCEPT ![c] = "choosing"]
    /\ UNCHANGED <<attempt, at, several, index, errorCount, recent, window>>

\* A minute without an error of the endpoint.
QuietMinute(e) ==
    /\ recent[e]
    /\ recent' = [recent EXCEPT ![e] = FALSE]
    /\ window' = [window EXCEPT ![e] = 0]
    /\ UNCHANGED <<phase, attempt, at, several, index, errorCount>>

Calling(c) == Choose(c) \/ Succeeds(c) \/ Fails(c) \/ Wakes(c)

Next == \/ \E c \in Callers : Call(c) \/ Calling(c)
        \/ \E e \in Rpcs : QuietMinute(e)

Spec == Init /\ [][Next]_vars

-----------------------------------------------------------------------------
(* Properties.                                                             *)

\* While another endpoint answers, a dead one costs the callers together no
\* more than the errors that bench it and one attempt each: its health is read
\* before the answers of the others are in.
DeadEndpointBenched ==
    (\E e \in Rpcs : e \notin Flaky) =>
        \A e \in Flaky : window[e] < Threshold + Cardinality(Callers)

\* Every call is answered or fails.
CallsEnd == \A c \in Callers : phase[c] # "idle" ~> phase[c] = "idle"

=============================================================================
