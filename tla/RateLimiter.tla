---------------------------- MODULE RateLimiter ----------------------------
(***************************************************************************)
(* What an endpoint is promised: a bucket of Rate credits, refilled one    *)
(* per interval and never above Rate, and one credit taken per request let *)
(* through.  Over any span of n intervals at most Rate + n requests go out.*)
(***************************************************************************)
EXTENDS Naturals

CONSTANT Rate

VARIABLES credit, granted

vars == <<credit, granted>>

Least(m, n) == IF m < n THEN m ELSE n

Init == credit = Rate /\ granted = 0

Tick == credit' = Least(Rate, credit + 1) /\ UNCHANGED granted

Grant(n) == credit' = credit - n /\ granted' = granted + n

Next == Tick \/ \E n \in 1..credit : Grant(n)

Spec == Init /\ [][Next]_vars

=============================================================================
