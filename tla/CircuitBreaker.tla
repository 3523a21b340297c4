--------------------------- MODULE CircuitBreaker ---------------------------
(***************************************************************************)
(* The circuit breaker of one node and the relay clients that share it.    *)
(* Each call takes the breaker's lock twice, for Allow before it goes out  *)
(* and for RecordSuccess or RecordFailure when it is over; between the two *)
(* other calls do the same.  The pool hands every caller the same breaker  *)
(* (GetBreaker looks the map up again under the write lock).  A call that  *)
(* Allow refuses changes nothing and is not a step.                        *)
(***************************************************************************)
EXTENDS Naturals, FiniteSets

CONSTANTS
  Callers,      \* goroutines that may call the node at the same time
  MaxFailures,  \* maxFailures
  Cooldown      \* cooldown, in ticks

ASSUME BreakerConstants ==
  /\ MaxFailures \in Nat \ {0}
  /\ Cooldown \in Nat
  /\ IsFiniteSet(Callers)

VARIABLES
  state,     \* cb.state
  failures,  \* cb.failures, up to MaxFailures
  age,       \* ticks since cb.lastFailTime, up to Cooldown + 1
  inFlight,  \* callers between their Allow and their Record
  burst      \* history: calls admitted since the last success or opening

breakerVars == <<state, failures, age, inFlight, burst>>

BreakerTypeOK ==
  /\ state \in {"closed", "open", "halfOpen"}
  /\ failures \in 0..MaxFailures
  /\ age \in 0..(Cooldown + 1)
  /\ inFlight \subseteq Callers
  /\ burst \in Nat

Policy == INSTANCE BreakerPolicy

(* NewCircuitBreaker; the zero lastFailTime is long ago. *)
Init ==
  /\ state = "closed"
  /\ failures = 0
  /\ age = Cooldown + 1
  /\ inFlight = {}
  /\ burst = 0

(* Half open lets every caller through, not one probe. *)
Admits == state = "open" => age > Cooldown

Allow_AnyTime(c) ==
  /\ c \notin inFlight
  /\ state' = IF state = "open" THEN "halfOpen" ELSE state
  /\ inFlight' = inFlight \cup {c}
  /\ burst' = burst + 1
  /\ UNCHANGED <<failures, age>>

Allow_RestartsCooldown(c) ==
  /\ c \notin inFlight
  /\ \/ /\ Admits
        /\ state' = IF state = "open" THEN "halfOpen" ELSE state
        /\ inFlight' = inFlight \cup {c}
        /\ burst' = burst + 1
        /\ UNCHANGED age
     \/ ~Admits /\ age' = 0 /\ UNCHANGED <<state, inFlight, burst>>
  /\ UNCHANGED failures

Allow(c) ==
  /\ c \notin inFlight
  /\ Admits
  /\ state' = IF state = "open" THEN "halfOpen" ELSE state
  /\ inFlight' = inFlight \cup {c}
  /\ burst' = burst + 1
  /\ UNCHANGED <<failures, age>>

(* Whatever state the call was admitted in. *)
RecordSuccess(c) ==
  /\ c \in inFlight
  /\ inFlight' = inFlight \ {c}
  /\ failures' = 0
  /\ state' = "closed"
  /\ burst' = 0
  /\ UNCHANGED age

RecordFailure_StaysHalfOpen(c) ==
  LET n == Policy!Capped(failures + 1, MaxFailures) IN
  /\ c \in inFlight
  /\ inFlight' = inFlight \ {c}
  /\ failures' = n
  /\ age' = 0
  /\ state' = IF n >= MaxFailures /\ state = "closed" THEN "open" ELSE state
  /\ burst' = IF n >= MaxFailures /\ state = "closed" THEN 0 ELSE burst

(* No connection, or the RPC failed. *)
RecordFailure(c) ==
  LET n == Policy!Capped(failures + 1, MaxFailures) IN
  /\ c \in inFlight
  /\ inFlight' = inFlight \ {c}
  /\ failures' = n
  /\ age' = 0
  /\ state' = IF n >= MaxFailures THEN "open" ELSE state
  /\ burst' = IF n >= MaxFailures THEN 0 ELSE burst

Tick ==
  /\ age <= Cooldown
  /\ age' = age + 1
  /\ UNCHANGED <<state, failures, inFlight, burst>>

Next ==
  \/ Tick
  \/ \E c \in Callers : Allow(c) \/ RecordSuccess(c) \/ RecordFailure(c)

(* Time passes.  No call need ever end: the RPC carries no deadline of its own. *)
Spec == Init /\ [][Next]_breakerVars /\ WF_breakerVars(Tick)

-----------------------------------------------------------------------------
(* Properties *)

(* The three states never disagree with the two counters: the breaker      *)
(* admits exactly what the policy admits, although a call admitted in one  *)
(* state reports in another.                                               *)
FollowsPolicy == Policy!Spec

(* "prevents hammering failed nodes": without a success in between, no     *)
(* more than MaxFailures - 1 calls and one per caller go out before the    *)
(* breaker shuts for at least Cooldown, even though half open limits       *)
(* nothing.                                                                *)
BoundedBurst == burst <= MaxFailures - 1 + Cardinality(Callers)

(* An open breaker admits calls again: the failures of calls admitted      *)
(* before can put the cooldown off, but not for ever, even if none of      *)
(* those calls ever returns.                                               *)
Reopens == state = "open" ~> Admits
=============================================================================
