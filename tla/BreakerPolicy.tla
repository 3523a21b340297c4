---------------------------- MODULE BreakerPolicy ----------------------------
(***************************************************************************)
(* What a circuit breaker promises the callers of one node, without saying *)
(* how: a call goes out if fewer than MaxFailures failed since the last    *)
(* one that succeeded, or if the last failure is longer ago than Cooldown. *)
(***************************************************************************)
EXTENDS Naturals

CONSTANTS
  Callers,      \* goroutines that may call the node at the same time
  MaxFailures,  \* failures in a row that open the breaker
  Cooldown      \* ticks an open breaker refuses calls after the last failure

VARIABLES
  failures,  \* calls that failed since the last success, up to MaxFailures
  age,       \* ticks since the last failure, up to Cooldown + 1
  inFlight   \* callers whose call is out

policyVars == <<failures, age, inFlight>>

(* Only failures >= MaxFailures and age > Cooldown are ever asked, so both *)
(* counters stop at the value from which the answer is the same.           *)
Capped(n, cap) == IF n < cap THEN n ELSE cap

Init == failures = 0 /\ age = Cooldown + 1 /\ inFlight = {}

Admit(c) ==
  /\ c \notin inFlight
  /\ failures < MaxFailures \/ age > Cooldown
  /\ inFlight' = inFlight \cup {c}
  /\ UNCHANGED <<failures, age>>

Succeed(c) ==
  /\ c \in inFlight
  /\ inFlight' = inFlight \ {c}
  /\ failures' = 0
  /\ UNCHANGED age

Fail(c) ==
  /\ c \in inFlight
  /\ inFlight' = inFlight \ {c}
  /\ failures' = Capped(failures + 1, MaxFailures)
  /\ age' = 0

Tick ==
  /\ age <= Cooldown
  /\ age' = age + 1
  /\ UNCHANGED <<failures, inFlight>>

Next == Tick \/ \E c \in Callers : Admit(c) \/ Succeed(c) \/ Fail(c)

Spec == Init /\ [][Next]_policyVars
=============================================================================
