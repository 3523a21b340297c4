--------------------------- MODULE NetworkProofs ----------------------------
(***************************************************************************)
(* Proofs about what the nodes reach each other by: the circuit breaker,   *)
(* for any finite set of callers, any positive number of failures and any  *)
(* cooldown; the pool of connections, for any nodes and any number of      *)
(* callers; and the answers of the routing service, for any nodes and any  *)
(* length of routes.                                                       *)
(***************************************************************************)
EXTENDS CircuitBreaker, PeerPool, Routing, FiniteSetTheorems, TLAPS

-----------------------------------------------------------------------------
(* The circuit breaker *)

(* Where each of the three states can be.                                  *)
StateInv ==
  /\ state = "closed" => failures < MaxFailures
  /\ state # "closed" => failures = MaxFailures
  /\ state = "halfOpen" => age > Cooldown

(* A call of the burst is still out or has failed while closed.            *)
BurstInv ==
  burst <= Cardinality(inFlight) + (IF state = "closed" THEN failures ELSE 0)

BreakerInv == BreakerTypeOK /\ StateInv /\ BurstInv

-----------------------------------------------------------------------------

(* Adding a caller to those in flight, or taking one out, counts as one.   *)
LEMMA CountInFlight ==
  ASSUME NEW S \in SUBSET Callers
  PROVE  /\ Cardinality(S) \in Nat
         /\ Cardinality(S) <= Cardinality(Callers)
         /\ Cardinality(Callers) \in Nat
         /\ \A c \in Callers \ S : Cardinality(S \cup {c}) = Cardinality(S) + 1
         /\ \A c \in S : Cardinality(S \ {c}) = Cardinality(S) - 1
<1>1. IsFiniteSet(Callers) /\ IsFiniteSet(S)
  BY BreakerConstants, FS_Subset
<1>2. Cardinality(S) \in Nat /\ Cardinality(Callers) \in Nat
  BY <1>1, FS_CardinalityType
<1>3. Cardinality(S) <= Cardinality(Callers)
  BY <1>1, FS_Subset
<1>4. \A c \in Callers \ S : Cardinality(S \cup {c}) = Cardinality(S) + 1
  BY <1>1, FS_AddElement
<1>5. \A c \in S : Cardinality(S \ {c}) = Cardinality(S) - 1
  BY <1>1, FS_RemoveElement
<1>. QED BY <1>2, <1>3, <1>4, <1>5

(* A new breaker is closed and nothing is in flight.                       *)
LEMMA BreakerInitInv == Init => BreakerInv
<1>1. Cardinality({}) = 0
  BY FS_EmptySet
<1>. QED
  BY <1>1, BreakerConstants DEF Init, BreakerInv, BreakerTypeOK, StateInv, BurstInv

(* Every call of a method of the breaker, and every tick, keeps all three. *)
LEMMA BreakerStepInv ==
  ASSUME BreakerInv, [Next]_breakerVars
  PROVE  BreakerInv'
<1>. USE BreakerConstants DEF BreakerInv
<1>. DEFINE k == Cardinality(inFlight)
<1>1. inFlight \in SUBSET Callers /\ k \in Nat
  BY CountInFlight DEF BreakerTypeOK
<1>2. CASE Tick
  BY <1>1, <1>2 DEF Tick, BreakerTypeOK, StateInv, BurstInv
<1>3. ASSUME NEW c \in Callers, Allow(c)
      PROVE  BreakerInv'
  <2>1. Cardinality(inFlight') = k + 1
    BY <1>1, <1>3, CountInFlight DEF Allow
  <2>. QED BY <1>1, <1>3, <2>1 DEF Allow, Admits, BreakerTypeOK, StateInv, BurstInv
<1>4. ASSUME NEW c \in Callers, RecordSuccess(c)
      PROVE  BreakerInv'
  <2>1. Cardinality(inFlight') = k - 1 /\ Cardinality(inFlight') \in Nat
    <3>1. inFlight' \in SUBSET Callers
      BY <1>1, <1>4 DEF RecordSuccess
    <3>. QED BY <1>1, <1>4, <3>1, CountInFlight DEF RecordSuccess
  <2>. QED BY <1>4, <2>1 DEF RecordSuccess, BreakerTypeOK, StateInv, BurstInv
<1>5. ASSUME NEW c \in Callers, RecordFailure(c)
      PROVE  BreakerInv'
  <2>1. Cardinality(inFlight') = k - 1 /\ Cardinality(inFlight') \in Nat
    <3>1. inFlight' \in SUBSET Callers
      BY <1>1, <1>5 DEF RecordFailure
    <3>. QED BY <1>1, <1>5, <3>1, CountInFlight DEF RecordFailure
  <2>2. CASE failures + 1 < MaxFailures
    BY <1>1, <1>5, <2>1, <2>2
    DEF RecordFailure, Policy!Capped, BreakerTypeOK, StateInv, BurstInv
  <2>3. CASE failures + 1 >= MaxFailures
    BY <1>1, <1>5, <2>1, <2>3
    DEF RecordFailure, Policy!Capped, BreakerTypeOK, StateInv, BurstInv
  <2>. QED BY <2>2, <2>3 DEF BreakerTypeOK
<1>6. CASE UNCHANGED breakerVars
  BY <1>6 DEF breakerVars, BreakerTypeOK, StateInv, BurstInv
<1>. QED BY <1>2, <1>3, <1>4, <1>5, <1>6 DEF Next

(* Every reachable state of the breaker satisfies the invariant.           *)
THEOREM BreakerInvariant == Spec => []BreakerInv
<1>. QED BY BreakerInitInv, BreakerStepInv, PTL DEF Spec

(* The breaker keeps its types: in particular failures never passes        *)
(* MaxFailures without opening it.                                         *)
THEOREM BreakerTypes == Spec => []BreakerTypeOK
<1>1. BreakerInv => BreakerTypeOK
  BY DEF BreakerInv
<1>. QED BY <1>1, BreakerInvariant, PTL

(* Every call of the burst is still out or was counted.                    *)
LEMMA BurstBound == BreakerInv => BoundedBurst
<1>. SUFFICES ASSUME BreakerInv PROVE BoundedBurst
  OBVIOUS
<1>1. /\ Cardinality(inFlight) \in Nat /\ Cardinality(Callers) \in Nat
      /\ Cardinality(inFlight) <= Cardinality(Callers)
  BY CountInFlight DEF BreakerInv, BreakerTypeOK
<1>. QED
  BY <1>1, BreakerConstants DEF BreakerInv, BreakerTypeOK, StateInv, BurstInv, BoundedBurst

(* However the calls interleave, no more than MaxFailures - 1 calls and    *)
(* one per caller go out to a node that only fails before the breaker      *)
(* shuts.                                                                  *)
THEOREM BurstsAreBounded == Spec => []BoundedBurst
<1>. QED BY BurstBound, BreakerInvariant, PTL

(* Each call of a method of the breaker is what its policy allows: state   *)
(* is redundant.                                                           *)
LEMMA PolicyStep ==
  ASSUME BreakerInv, [Next]_breakerVars
  PROVE  [Policy!Next]_(Policy!policyVars)
<1>1. CASE Tick
  BY <1>1 DEF Tick, Policy!Tick, Policy!Next
<1>2. ASSUME NEW c \in Callers, Allow(c)
      PROVE  Policy!Admit(c)
  <2>1. failures < MaxFailures \/ age > Cooldown
    BY <1>2 DEF Allow, Admits, BreakerInv, BreakerTypeOK, StateInv
  <2>. QED BY <1>2, <2>1 DEF Allow, Policy!Admit
<1>3. ASSUME NEW c \in Callers, RecordSuccess(c)
      PROVE  Policy!Succeed(c)
  BY <1>3 DEF RecordSuccess, Policy!Succeed
<1>4. ASSUME NEW c \in Callers, RecordFailure(c)
      PROVE  Policy!Fail(c)
  BY <1>4 DEF RecordFailure, Policy!Fail
<1>5. CASE UNCHANGED breakerVars
  BY <1>5 DEF breakerVars, Policy!policyVars
<1>. QED BY <1>1, <1>2, <1>3, <1>4, <1>5 DEF Next, Policy!Next

(* The breaker implements its policy: a caller is let through exactly when *)
(* fewer than MaxFailures calls failed since the last success or the last  *)
(* failure is longer ago than the cooldown.                                *)
THEOREM BreakerFollowsPolicy == Spec => FollowsPolicy
<1>1. Init => Policy!Init
  BY DEF Init, Policy!Init
<1>. QED BY <1>1, PolicyStep, BreakerInvariant, PTL DEF Spec, FollowsPolicy, Policy!Spec

-----------------------------------------------------------------------------
(* The pool *)

CallRecord == [phase : {"idle", "make", "connect", "dial", "insert", "use"},
               node : Peers \cup {None}, conn : Conns \cup {None}, breaker : Breakers \cup {None}]

Pooled == {conns[n] : n \in {m \in Peers : conns[m] # None}}
Carried == {caller[c].conn : c \in {d \in Dialers : At(d, "insert")}}

(* A call that has begun knows its node; one that is about to insert has a *)
(* connection of its own, that nobody else is about to insert and that is  *)
(* not in the pool; one past the pool has the pool's.                      *)
Holding ==
  \A c \in Dialers :
    /\ ~At(c, "idle") => caller[c].node \in Peers
    /\ At(c, "insert") =>
         /\ caller[c].conn # None
         /\ caller[c].conn \notin Pooled
         /\ \A d \in Dialers : At(d, "insert") /\ caller[d].conn = caller[c].conn => d = c
    /\ At(c, "use") => caller[c].conn # None /\ caller[c].conn = conns[caller[c].node]

(* A call that has a breaker has its node's. *)
Sharing ==
  \A c \in Dialers :
    /\ caller[c].breaker # None => caller[c].breaker = breakers[caller[c].node]
    /\ At(c, "idle") \/ At(c, "make") => caller[c].breaker = None

PoolInv ==
  /\ PoolTypeOK
  /\ opened = Pooled \cup Carried
  /\ Holding
  /\ Sharing

-----------------------------------------------------------------------------

(* What changes when one caller moves on. *)
LEMMA OneMoves ==
  ASSUME PoolTypeOK, NEW c \in Dialers, NEW r, caller' = [caller EXCEPT ![c] = r]
  PROVE  /\ caller'[c] = r
         /\ \A d \in Dialers : d # c => caller'[d] = caller[d]
         /\ r \in CallRecord => caller' \in [Dialers -> CallRecord]
<1>1. caller \in [Dialers -> CallRecord]
  BY DEF PoolTypeOK, CallRecord
<1> QED BY <1>1

(* The pool is empty at the start and nobody calls. *)
LEMMA PoolInitInv == PoolInit => PoolInv
BY DEF PoolInit, PoolInv, PoolTypeOK, Pooled, Carried, Holding, Sharing, At, Resting

(* A caller that neither had nor has a connection to insert leaves the     *)
(* rest as it was: what is left to say is what it holds itself.            *)
LEMMA QuietMove ==
  ASSUME PoolInv, NEW c \in Dialers, NEW r, caller' = [caller EXCEPT ![c] = r],
         ~At(c, "insert"), r.phase # "insert",
         UNCHANGED <<conns, opened>>, PoolTypeOK',
         r.phase # "idle" => r.node \in Peers,
         r.phase = "use" => r.conn # None /\ r.conn = conns[r.node]
  PROVE  opened' = Pooled' \cup Carried' /\ Holding'
<1>1. caller'[c] = r /\ \A d \in Dialers : d # c => caller'[d] = caller[d]
  BY OneMoves DEF PoolInv
<1>2. \A d \in Dialers : At(d, "insert")' <=> At(d, "insert")
  BY <1>1 DEF At
<1>3. \A d \in Dialers : At(d, "insert") => caller'[d] = caller[d]
  BY <1>1
<1>4. Pooled' = Pooled /\ Carried' = Carried
  BY <1>2, <1>3 DEF Pooled, Carried
<1>5. Holding'
  BY <1>1, <1>2, <1>3, <1>4 DEF PoolInv, Holding, At
<1> QED BY <1>4, <1>5 DEF PoolInv

(* GetBreaker's first look. *)
LEMMA FindBreakerKeeps ==
  ASSUME PoolInv, NEW c \in Dialers, NEW n \in Peers, FindBreaker(c, n)
  PROVE  PoolInv'
<1> DEFINE r == [phase |-> IF breakers[n] = None THEN "make" ELSE "connect",
                 node |-> n, conn |-> None, breaker |-> breakers[n]]
<1>1. caller' = [caller EXCEPT ![c] = r] /\ UNCHANGED <<conns, breakers, opened>>
      /\ At(c, "idle")
  BY DEF FindBreaker
<1>0. r \in CallRecord
  BY DEF PoolInv, PoolTypeOK, CallRecord
<1>2. PoolTypeOK'
  BY <1>0, <1>1, OneMoves DEF PoolInv, PoolTypeOK, CallRecord
<1> HIDE DEF r
<1>3. caller'[c] = r /\ \A d \in Dialers : d # c => caller'[d] = caller[d]
  BY <1>1, OneMoves DEF PoolInv
<1>6. r.phase \in {"make", "connect"} /\ r.node = n /\ r.breaker = breakers[n]
      /\ (r.phase = "make" => breakers[n] = None)
  BY DEF r
<1>4. Sharing'
  BY <1>1, <1>3, <1>6 DEF PoolInv, Sharing, At
<1>5. opened' = Pooled' \cup Carried' /\ Holding'
  BY <1>1, <1>2, <1>6, QuietMove DEF At
<1> QED BY <1>2, <1>4, <1>5 DEF PoolInv

(* GetBreaker's second look: the node's breaker, or a new one that         *)
(* nobody had to share yet.                                                *)
LEMMA MakeBreakerKeeps ==
  ASSUME PoolInv, NEW c \in Dialers, MakeBreaker(c)
  PROVE  PoolInv'
<1> DEFINE n == caller[c].node
<1>1. At(c, "make") /\ n \in Peers /\ UNCHANGED <<conns, opened>>
  BY DEF MakeBreaker, PoolInv, Holding, At
<1>2. PICK b \in Breakers :
        /\ caller' = [caller EXCEPT ![c].phase = "connect", ![c].breaker = b]
        /\ \/ breakers[n] = b /\ breakers' = breakers
           \/ breakers[n] = None /\ breakers' = [breakers EXCEPT ![n] = b]
  BY <1>1 DEF MakeBreaker, PoolInv, PoolTypeOK, FreshBreakers
<1> DEFINE r == [caller[c] EXCEPT !.phase = "connect", !.breaker = b]
<1>3. caller' = [caller EXCEPT ![c] = r] /\ r.phase = "connect" /\ r.node = n
      /\ r.breaker = b /\ r \in CallRecord
  <2>1. caller[c] \in CallRecord
    BY DEF PoolInv, PoolTypeOK, CallRecord
  <2>2. caller' = [caller EXCEPT ![c] = r]
    BY <1>2 DEF PoolInv, PoolTypeOK
  <2> QED BY <2>1, <2>2 DEF CallRecord
<1>4. PoolTypeOK'
  <2>1. breakers' \in [Peers -> Breakers \cup {None}]
    BY <1>1, <1>2 DEF PoolInv, PoolTypeOK
  <2> QED BY <2>1, <1>1, <1>3, OneMoves DEF PoolInv, PoolTypeOK, CallRecord
<1> HIDE DEF r
<1>5. caller'[c] = r /\ \A d \in Dialers : d # c => caller'[d] = caller[d]
  BY <1>3, OneMoves DEF PoolInv
<1>6. breakers'[n] = b /\ \A m \in Peers : breakers[m] # None => breakers'[m] = breakers[m]
  BY <1>1, <1>2, PoolConstants DEF PoolInv, PoolTypeOK
<1>7. Sharing'
  <2>1. SUFFICES ASSUME NEW d \in Dialers
                 PROVE  /\ caller'[d].breaker # None =>
                             caller'[d].breaker = breakers'[caller'[d].node]
                        /\ caller'[d].phase \in {"idle", "make"} => caller'[d].breaker = None
    BY DEF Sharing, At
  <2>2. CASE d = c
    BY <2>2, <1>3, <1>5, <1>6
  <2>3. CASE d # c
    <3>1. caller'[d] = caller[d]
      BY <2>3, <1>5
    <3>2. caller[d].breaker # None => caller[d].node \in Peers
      BY DEF PoolInv, Sharing, Holding, At
    <3> QED BY <3>1, <3>2, <1>6 DEF PoolInv, Sharing, At
  <2> QED BY <2>2, <2>3
<1>8. opened' = Pooled' \cup Carried' /\ Holding'
  BY <1>1, <1>3, <1>4, QuietMove DEF At
<1> QED BY <1>4, <1>7, <1>8 DEF PoolInv

(* Moves within GetConn that touch no breaker keep Sharing. *)
LEMMA SameBreaker ==
  ASSUME PoolInv, NEW c \in Dialers, NEW r, caller' = [caller EXCEPT ![c] = r],
         UNCHANGED breakers, ~At(c, "idle"), ~At(c, "make"),
         \/ r.breaker = None
         \/ /\ r.phase # "idle" /\ r.phase # "make"
            /\ r.breaker = caller[c].breaker /\ r.node = caller[c].node
  PROVE  Sharing'
<1>1. caller'[c] = r /\ \A d \in Dialers : d # c => caller'[d] = caller[d]
  BY OneMoves DEF PoolInv
<1> QED BY <1>1 DEF PoolInv, Sharing, At

(* GetConn's first look. *)
LEMMA FindConnKeeps ==
  ASSUME PoolInv, NEW c \in Dialers, FindConn(c)
  PROVE  PoolInv'
<1> DEFINE held == conns[caller[c].node]
           phase == IF held = None THEN "dial" ELSE "use"
           r == [caller[c] EXCEPT !.phase = phase, !.conn = held]
<1>1. At(c, "connect") /\ UNCHANGED <<conns, breakers, opened>> /\ caller[c].node \in Peers
  BY DEF FindConn, PoolInv, Holding, At
<1>2. caller' = [caller EXCEPT ![c] = r] /\ r.phase = phase /\ r.conn = held
      /\ r.node = caller[c].node /\ r.breaker = caller[c].breaker
      /\ r \in CallRecord /\ phase \in {"dial", "use"} /\ (phase = "use" => held # None)
  <2>1. caller[c] \in CallRecord /\ held \in Conns \cup {None}
    BY <1>1 DEF PoolInv, PoolTypeOK, CallRecord
  <2>2. caller' = [caller EXCEPT ![c] = r]
    BY DEF FindConn, PoolInv, PoolTypeOK
  <2> QED BY <2>1, <2>2 DEF CallRecord
<1>3. PoolTypeOK'
  BY <1>1, <1>2, OneMoves DEF PoolInv, PoolTypeOK, CallRecord
<1> HIDE DEF r, phase
<1>4. Sharing'
  BY <1>1, <1>2, SameBreaker DEF At
<1>5. opened' = Pooled' \cup Carried' /\ Holding'
  BY <1>1, <1>2, <1>3, QuietMove DEF At
<1> QED BY <1>3, <1>4, <1>5 DEF PoolInv

(* A new connection is its dialler's alone. *)
LEMMA DialKeeps ==
  ASSUME PoolInv, NEW c \in Dialers, Dial(c)
  PROVE  PoolInv'
<1>1. At(c, "dial") /\ UNCHANGED <<conns, breakers>> /\ caller[c].node \in Peers
  BY DEF Dial, PoolInv, Holding, At
<1>2. PICK k \in Conns \ opened :
        /\ opened' = opened \cup {k}
        /\ caller' = [caller EXCEPT ![c].phase = "insert", ![c].conn = k]
  BY DEF Dial
<1> DEFINE r == [caller[c] EXCEPT !.phase = "insert", !.conn = k]
<1>3. caller' = [caller EXCEPT ![c] = r] /\ r.phase = "insert" /\ r.conn = k
      /\ r.node = caller[c].node /\ r.breaker = caller[c].breaker
      /\ r \in CallRecord
  <2>1. caller[c] \in CallRecord
    BY DEF PoolInv, PoolTypeOK, CallRecord
  <2>2. caller' = [caller EXCEPT ![c] = r]
    BY <1>2 DEF PoolInv, PoolTypeOK
  <2> QED BY <2>1, <2>2 DEF CallRecord
<1>4. PoolTypeOK'
  BY <1>1, <1>2, <1>3, OneMoves DEF PoolInv, PoolTypeOK, CallRecord
<1> HIDE DEF r
<1>5. Sharing'
  BY <1>1, <1>3, SameBreaker DEF At
<1>6. caller'[c] = r /\ \A d \in Dialers : d # c => caller'[d] = caller[d]
  BY <1>3, OneMoves DEF PoolInv
<1>7. Pooled' = Pooled /\ Carried' = Carried \cup {k}
  <2>1. Pooled' = Pooled
    BY <1>1 DEF Pooled
  <2>2. \A d \in Dialers : At(d, "insert")' <=> d = c \/ At(d, "insert")
    BY <1>3, <1>6 DEF At
  <2>3. \A d \in Dialers : At(d, "insert") => d # c /\ caller'[d] = caller[d]
    BY <1>1, <1>6 DEF At
  <2> QED BY <2>1, <2>2, <2>3, <1>3, <1>6 DEF Carried
<1>8. k \notin Pooled /\ k \notin Carried /\ k # None
  BY PoolConstants DEF PoolInv
<1>9. Holding'
  <2>1. SUFFICES ASSUME NEW d \in Dialers PROVE
          /\ caller'[d].phase # "idle" => caller'[d].node \in Peers
          /\ caller'[d].phase = "insert" =>
               /\ caller'[d].conn # None
               /\ caller'[d].conn \notin Pooled'
               /\ \A e \in Dialers : caller'[e].phase = "insert"
                                       /\ caller'[e].conn = caller'[d].conn => e = d
          /\ caller'[d].phase = "use" =>
               caller'[d].conn # None /\ caller'[d].conn = conns'[caller'[d].node]
    BY DEF Holding, At
  <2>2. \A e \in Dialers : caller[e].phase = "insert" => caller[e].conn # k
    BY <1>8 DEF Carried, At
  <2>3. CASE d = c
    BY <2>2, <2>3, <1>1, <1>3, <1>6, <1>7, <1>8
  <2>4. CASE d # c
    BY <2>2, <2>4, <1>1, <1>3, <1>6, <1>7 DEF PoolInv, Holding, At
  <2> QED BY <2>3, <2>4
<1> QED BY <1>2, <1>4, <1>5, <1>7, <1>9 DEF PoolInv

(* A call that ends, with or without a connection to show for it. *)
LEMMA EndKeeps ==
  ASSUME PoolInv, NEW c \in Dialers, DialFails(c) \/ CallOver(c)
  PROVE  PoolInv'
<1>1. caller' = [caller EXCEPT ![c] = Resting] /\ UNCHANGED <<conns, breakers, opened>>
      /\ (At(c, "dial") \/ At(c, "use"))
  BY DEF DialFails, CallOver
<1>2. PoolTypeOK'
  <2>1. Resting \in CallRecord
    BY DEF Resting, CallRecord
  <2> QED BY <2>1, <1>1, OneMoves DEF PoolInv, PoolTypeOK, CallRecord
<1>3. Sharing'
  BY <1>1, SameBreaker DEF At, Resting
<1>4. Resting.phase = "idle"
  BY DEF Resting
<1>5. opened' = Pooled' \cup Carried' /\ Holding'
  BY <1>1, <1>2, <1>4, QuietMove DEF At
<1> QED BY <1>2, <1>3, <1>5 DEF PoolInv

(* GetConn's second look. *)
LEMMA InsertConnKeeps ==
  ASSUME PoolInv, NEW c \in Dialers, InsertConn(c)
  PROVE  PoolInv'
<1> DEFINE n == caller[c].node
           k == caller[c].conn
           held == IF conns[n] # None THEN conns[n] ELSE k
           r == [caller[c] EXCEPT !.phase = "use", !.conn = held]
<1>1. At(c, "insert") /\ UNCHANGED breakers /\ n \in Peers /\ k # None /\ k \notin Pooled
  BY DEF InsertConn, PoolInv, Holding, At
<1>2. /\ caller' = [caller EXCEPT ![c] = r] /\ r.phase = "use" /\ r.conn = held
      /\ r.node = n /\ r.breaker = caller[c].breaker
      /\ r \in CallRecord
  <2>1. caller[c] \in CallRecord /\ held \in Conns \cup {None}
    BY <1>1 DEF PoolInv, PoolTypeOK, CallRecord
  <2>2. caller' = [caller EXCEPT ![c] = r]
    <3>1. CASE conns[n] # None
      BY <3>1 DEF InsertConn, PoolInv, PoolTypeOK
    <3>2. CASE conns[n] = None
      <4>1. caller' = [caller EXCEPT ![c] = [caller[c] EXCEPT !.phase = "use"]]
        BY <3>2 DEF InsertConn, PoolInv, PoolTypeOK
      <4>2. [caller[c] EXCEPT !.phase = "use"] = r
        BY <3>2, <2>1 DEF CallRecord
      <4> QED BY <4>1, <4>2
    <3> QED BY <3>1, <3>2
  <2> QED BY <2>1, <2>2 DEF CallRecord
<1>3. PoolTypeOK'
  <2>1. k \in Conns /\ conns \in [Peers -> Conns \cup {None}] /\ opened \subseteq Conns
    BY <1>1 DEF PoolInv, PoolTypeOK
  <2>2. conns' \in [Peers -> Conns \cup {None}] /\ opened' \subseteq Conns
    BY <2>1 DEF InsertConn
  <2> QED BY <2>2, <1>1, <1>2, OneMoves DEF PoolInv, PoolTypeOK, CallRecord
<1> HIDE DEF r
<1>4. Sharing'
  BY <1>1, <1>2, SameBreaker DEF At
<1>5. caller'[c] = r /\ \A d \in Dialers : d # c => caller'[d] = caller[d]
  BY <1>2, OneMoves DEF PoolInv
<1>6. \A d \in Dialers : caller'[d].phase = "insert" => d # c /\ caller[d].phase = "insert"
                            /\ caller[d].conn # k /\ caller'[d] = caller[d]
  BY <1>1, <1>2, <1>5 DEF PoolInv, Holding, At
<1>7. Carried' = Carried \ {k}
  <2>1. \A d \in Dialers : caller[d].phase = "insert" /\ caller[d].conn # k =>
                             caller'[d] = caller[d]
    BY <1>5
  <2> QED BY <1>6, <2>1 DEF Carried, At
<1>8. k \in Carried
  BY <1>1 DEF Carried, At
<1>9. /\ conns'[n] = held /\ held # None
      /\ \A m \in Peers : conns[m] # None => conns'[m] = conns[m]
      /\ \A m \in Peers : conns'[m] = conns[m] \/ conns'[m] = k
  BY <1>1 DEF InsertConn, PoolInv, PoolTypeOK
<1>10. opened' = Pooled' \cup Carried' /\ Pooled' \subseteq Pooled \cup {k}
  <2>1. CASE conns[n] # None
    <3>1. conns' = conns /\ opened' = opened \ {k}
      BY <2>1 DEF InsertConn
    <3>2. Pooled' = Pooled
      BY <3>1 DEF Pooled
    <3> QED BY <3>1, <3>2, <1>1, <1>7 DEF PoolInv
  <2>2. CASE conns[n] = None
    <3>1. conns' = [conns EXCEPT ![n] = k] /\ opened' = opened
      BY <2>2 DEF InsertConn
    <3>2. conns'[n] = k /\ \A m \in Peers : m # n => conns'[m] = conns[m]
      BY <3>1, <1>1 DEF PoolInv, PoolTypeOK
    <3>3. Pooled' = Pooled \cup {k}
      BY <3>2, <2>2, <1>1 DEF Pooled
    <3> QED BY <3>1, <3>3, <1>7, <1>8 DEF PoolInv
  <2> QED BY <2>1, <2>2
<1>11. Holding'
  <2>1. SUFFICES ASSUME NEW d \in Dialers PROVE
          /\ caller'[d].phase # "idle" => caller'[d].node \in Peers
          /\ caller'[d].phase = "insert" =>
               /\ caller'[d].conn # None
               /\ caller'[d].conn \notin Pooled'
               /\ \A e \in Dialers : caller'[e].phase = "insert"
                                       /\ caller'[e].conn = caller'[d].conn => e = d
          /\ caller'[d].phase = "use" =>
               caller'[d].conn # None /\ caller'[d].conn = conns'[caller'[d].node]
    BY DEF Holding, At
  <2>2. CASE d = c
    BY <2>2, <1>1, <1>2, <1>5, <1>9
  <2>3. CASE d # c
    <3>1. caller'[d] = caller[d] /\ (caller[d].phase # "idle" => caller[d].node \in Peers)
      BY <2>3, <1>5 DEF PoolInv, Holding, At
    <3>2. caller'[d].phase = "insert" =>
               /\ caller'[d].conn # None
               /\ caller'[d].conn \notin Pooled'
               /\ \A e \in Dialers : caller'[e].phase = "insert"
                                       /\ caller'[e].conn = caller'[d].conn => e = d
      BY <3>1, <1>6, <1>10 DEF PoolInv, Holding, At
    <3>3. caller'[d].phase = "use" =>
               caller'[d].conn # None /\ caller'[d].conn = conns'[caller'[d].node]
      BY <3>1, <1>9 DEF PoolInv, Holding, At
    <3> QED BY <3>1, <3>2, <3>3
  <2> QED BY <2>2, <2>3
<1> QED BY <1>3, <1>4, <1>10, <1>11 DEF PoolInv

(* A step of one caller keeps the invariant. *)
LEMMA PoolStepInv ==
  ASSUME PoolInv, [PoolNext]_poolVars
  PROVE  PoolInv'
<1>1. CASE UNCHANGED poolVars
  BY <1>1 DEF poolVars, PoolInv, PoolTypeOK, Pooled, Carried, Holding, Sharing, At
<1>2. CASE PoolNext
  BY <1>2, FindBreakerKeeps, MakeBreakerKeeps, FindConnKeeps, DialKeeps, EndKeeps,
     InsertConnKeeps DEF PoolNext
<1> QED BY <1>1, <1>2

(* The inductive invariant of the pool and its callers. *)
THEOREM PoolInvariant == PoolSpec => []PoolInv
<1>1. PoolInv /\ [PoolNext]_poolVars => PoolInv'
  BY PoolStepInv
<1> QED BY <1>1, PoolInitInv, PTL DEF PoolSpec

(* ConnsAccounted (peerpool.go:34-64): no connection leaks and none is     *)
(* closed under a call.                                                    *)
THEOREM ConnsAreAccounted == PoolSpec => []ConnsAccounted
<1>1. PoolInv => ConnsAccounted
  BY DEF PoolInv, ConnsAccounted, Pooled, Carried, Holding
<1> QED BY <1>1, PoolInvariant, PTL

(* OneBreakerPerNode (peerpool.go:66-82): calls to a node share a breaker. *)
THEOREM BreakersAreShared == PoolSpec => []OneBreakerPerNode
<1>1. PoolInv => OneBreakerPerNode
  BY DEF PoolInv, OneBreakerPerNode, Sharing
<1> QED BY <1>1, PoolInvariant, PTL

-----------------------------------------------------------------------------
(* Routing *)

Hops == walk.hops
Last(hops) == IF hops = <<>> THEN walk.source ELSE hops[Len(hops)]
Before(hops, k) == IF k = 1 THEN walk.source ELSE hops[k - 1]
Shunned == anomalous \cap (Neighbours \cup {table[walk.source]})

(* What the hops found so far are, whatever has changed.                   *)
SoundWalk ==
  /\ walk.phase \in {"idle", "direct", "exclude"} => Hops = <<>>
  /\ walk.phase = "direct" => walk.excluded = walk.asked
  /\ walk.phase # "idle" => walk.asked \subseteq walk.excluded
  /\ walk.phase = "walking" => Len(Hops) < MaxHops /\ Last(Hops) # Target
  /\ Len(Hops) <= MaxHops
  /\ \A k \in 1..Len(Hops) : Hops[k] \notin walk.excluded
                             /\ (k < Len(Hops) => Hops[k] # Target)

(* What they are if nothing has.                                           *)
CleanWalk ==
  /\ walk.phase = "exclude" => walk.excluded = walk.asked
  /\ walk.phase \in {"exclude", "walking", "answered"} =>
       walk.direct = (table[walk.source] = Target)
  /\ walk.phase \in {"walking", "answered"} => walk.excluded = walk.asked \cup Shunned
  /\ \A k \in 1..Len(Hops) : Hops[k] = table[Before(Hops, k)]
  /\ walk.phase = "answered" /\ Last(Hops) # Target =>
       \/ Len(Hops) = MaxHops
       \/ table[Last(Hops)] = NoHop
       \/ table[Last(Hops)] \in walk.excluded

WalkInv == RoutingTypeOK /\ SoundWalk /\ (~disturbed => CleanWalk)

WalkType == [phase : {"idle", "direct", "exclude", "walking", "answered", "failed"},
             source : Others, asked : SUBSET RouteNodes,
             excluded : SUBSET RouteNodes, direct : BOOLEAN, hops : Seq(RouteNodes)]

LEMMA WalkInit == RoutingInit => WalkInv
<1>. SUFFICES ASSUME RoutingInit PROVE WalkInv
  OBVIOUS
<1>1. walk \in WalkType /\ walk.phase = "idle" /\ walk.hops = <<>>
  <2>1. walk \in [phase : {"idle"}, source : Others, asked : SUBSET RouteNodes,
                  excluded : {{}}, direct : {FALSE}, hops : {<<>>}]
    BY DEF RoutingInit
  <2>2. /\ {"idle"} \subseteq {"idle", "direct", "exclude", "walking", "answered", "failed"}
        /\ {{}} \subseteq SUBSET RouteNodes
        /\ {FALSE} \subseteq BOOLEAN
        /\ {<<>>} \subseteq Seq(RouteNodes)
    OBVIOUS
  <2>. QED BY <2>1, <2>2 DEF WalkType
<1>2. RoutingTypeOK
  <2>1. table \in [Others -> RouteNodes \cup {NoHop}] /\ anomalous \subseteq RouteNodes
    BY DEF RoutingInit
  <2>2. updates = 0 /\ disturbed = FALSE
    BY DEF RoutingInit
  <2>3. updates \in 0..MaxUpdates
    BY <2>2, RoutingConstants
  <2>4. disturbed \in BOOLEAN
    BY <2>2
  <2>. QED BY <1>1, <2>1, <2>3, <2>4 DEF RoutingTypeOK, WalkType
<1>3. Len(Hops) = 0
  BY <1>1 DEF Hops
<1>. QED BY <1>1, <1>2, <1>3, RoutingConstants DEF WalkInv, SoundWalk, CleanWalk, Hops

(* A step that leaves the hops, the exclusions and the request alone and   *)
(* brings the call to its end or nowhere.                                  *)
LEMMA EntryKeeps ==
  ASSUME WalkInv, NEW n \in Others, NEW hop \in RouteNodes, UpsertRoute(n, hop)
  PROVE  WalkInv'
<1>1. RoutingTypeOK'
  BY RoutingConstants DEF WalkInv, RoutingTypeOK, UpsertRoute
<1>2. SoundWalk'
  BY DEF WalkInv, SoundWalk, UpsertRoute, Hops, Last
<1>3. ~disturbed' => CleanWalk'
  <2>. SUFFICES ASSUME ~disturbed' PROVE CleanWalk'
    OBVIOUS
  <2>1. walk.phase = "idle" /\ walk' = walk /\ walk.hops = <<>>
    BY DEF WalkInv, SoundWalk, UpsertRoute, Hops
  <2>2. walk'.phase = "idle" /\ Len(walk'.hops) = 0
    BY <2>1
  <2>. QED BY <2>2 DEF CleanWalk, Hops
<1>. QED BY <1>1, <1>2, <1>3 DEF WalkInv

(* The steps before the walk: they bring no hop.                           *)
LEMMA PreludeKeeps ==
  ASSUME WalkInv, BeginFind \/ LookUpDirect \/ LookUpFails \/ ExcludeAnomalous
  PROVE  WalkInv'
<1>0. walk \in WalkType /\ Hops = <<>> /\ table \in [Others -> RouteNodes \cup {NoHop}]
  BY DEF WalkInv, RoutingTypeOK, SoundWalk, WalkType, BeginFind, LookUpDirect, LookUpFails,
         ExcludeAnomalous
<1>1. CASE BeginFind
  <2>1. walk' = [walk EXCEPT !.phase = "direct", !.excluded = walk.asked]
    BY <1>1 DEF BeginFind
  <2>2. /\ walk' \in WalkType /\ walk'.phase = "direct" /\ walk'.hops = <<>>
        /\ walk'.excluded = walk'.asked
    BY <1>0, <2>1 DEF WalkType, Hops
  <2>3. RoutingTypeOK'
    BY <1>1, <2>2 DEF WalkInv, RoutingTypeOK, WalkType, BeginFind
  <2>. QED BY <2>2, <2>3, RoutingConstants DEF WalkInv, SoundWalk, CleanWalk, Hops
<1>2. CASE LookUpDirect
  <2>1. walk' = [walk EXCEPT !.phase = "exclude", !.direct = (table[walk.source] = Target)]
        /\ walk.phase = "direct" /\ UNCHANGED table
    BY <1>2 DEF LookUpDirect
  <2>2. /\ walk' \in WalkType /\ walk'.phase = "exclude" /\ walk'.hops = <<>>
        /\ walk'.excluded = walk.excluded /\ walk'.asked = walk.asked
        /\ walk'.source = walk.source /\ walk'.direct = (table[walk.source] = Target)
    BY <1>0, <2>1 DEF WalkType, Hops
  <2>3. RoutingTypeOK'
    BY <1>2, <2>2 DEF WalkInv, RoutingTypeOK, WalkType, LookUpDirect
  <2>4. walk'.excluded = walk'.asked
    BY <2>1, <2>2 DEF WalkInv, SoundWalk
  <2>. QED BY <2>1, <2>2, <2>3, <2>4, RoutingConstants DEF WalkInv, SoundWalk, CleanWalk, Hops
<1>3. CASE LookUpFails
  <2>1. /\ walk' \in WalkType /\ walk'.phase = "failed" /\ walk'.hops = <<>>
        /\ walk'.excluded = walk.excluded /\ walk'.asked = walk.asked /\ walk.phase = "direct"
    BY <1>0, <1>3 DEF WalkType, Hops, LookUpFails
  <2>2. RoutingTypeOK'
    BY <1>3, <2>1 DEF WalkInv, RoutingTypeOK, WalkType, LookUpFails
  <2>. QED BY <2>1, <2>2, RoutingConstants DEF WalkInv, SoundWalk, CleanWalk, Hops
<1>4. CASE ExcludeAnomalous
  <2>1. /\ walk' \in WalkType /\ walk'.phase = "walking" /\ walk'.hops = <<>>
        /\ walk.excluded \subseteq walk'.excluded /\ walk'.asked = walk.asked
        /\ walk'.source = walk.source /\ walk'.direct = walk.direct
        /\ walk.phase = "exclude" /\ UNCHANGED <<table, anomalous>>
        /\ ~disturbed' => ~disturbed /\ walk'.excluded = walk.excluded \cup Shunned
    <3>1. /\ walk.phase = "exclude" /\ UNCHANGED <<table, anomalous>>
          /\ Shunned \subseteq RouteNodes /\ walk.excluded \cup Shunned \subseteq RouteNodes
      BY <1>0, <1>4 DEF ExcludeAnomalous, WalkInv, RoutingTypeOK, WalkType, Shunned
    <3>2. CASE /\ walk' = [walk EXCEPT !.phase = "walking", !.excluded = @ \cup Shunned]
               /\ UNCHANGED disturbed
      BY <1>0, <3>1, <3>2 DEF WalkType, Hops
    <3>3. CASE walk' = [walk EXCEPT !.phase = "walking"] /\ disturbed' = TRUE
      BY <1>0, <3>1, <3>3 DEF WalkType, Hops
    <3>. QED BY <1>4, <3>2, <3>3 DEF ExcludeAnomalous, Shunned
  <2>2. RoutingTypeOK'
    BY <1>4, <2>1 DEF WalkInv, RoutingTypeOK, WalkType, ExcludeAnomalous
  <2>3. SoundWalk'
    BY <2>1, RoutingConstants DEF WalkInv, SoundWalk, Hops, Last, WalkType, Others
  <2>4. ~disturbed' => CleanWalk'
    BY <2>1 DEF WalkInv, CleanWalk, Hops, Shunned
  <2>. QED BY <2>2, <2>3, <2>4 DEF WalkInv
<1>. QED BY <1>1, <1>2, <1>3, <1>4

(* One more hop, or the end of the walk.                                   *)
LEMMA HopKeeps ==
  ASSUME WalkInv, Hop
  PROVE  WalkInv'
<1>. DEFINE next == table[Current]
            n == Len(Hops)
<1>0. /\ walk \in WalkType /\ table \in [Others -> RouteNodes \cup {NoHop}]
      /\ Hops \in Seq(RouteNodes) /\ n \in Nat /\ MaxHops \in Nat
      /\ walk.phase = "walking" /\ Current = Last(Hops) /\ Current \in Others
      /\ UNCHANGED <<table, anomalous, updates, disturbed>>
  BY RoutingConstants DEF WalkInv, RoutingTypeOK, SoundWalk, WalkType, Hop, Current, Last, Hops, Others
<1>1. CASE next = NoHop \/ next \in walk.excluded
  <2>1. walk' = [walk EXCEPT !.phase = "answered"]
    BY <1>1 DEF Hop
  <2>2. /\ walk' \in WalkType /\ walk'.phase = "answered" /\ walk'.hops = walk.hops
        /\ walk'.excluded = walk.excluded /\ walk'.asked = walk.asked
        /\ walk'.source = walk.source /\ walk'.direct = walk.direct
    BY <1>0, <2>1 DEF WalkType
  <2>3. RoutingTypeOK'
    BY <1>0, <2>2 DEF WalkInv, RoutingTypeOK, WalkType
  <2>4. SoundWalk'
    BY <1>0, <2>2 DEF WalkInv, SoundWalk, Hops, Last
  <2>5. ~disturbed' => CleanWalk'
    BY <1>0, <1>1, <2>2 DEF WalkInv, CleanWalk, Hops, Last, Before, Shunned
  <2>. QED BY <2>3, <2>4, <2>5 DEF WalkInv
<1>2. CASE next # NoHop /\ next \notin walk.excluded
  <2>1. walk' = [walk EXCEPT !.hops = Append(@, next),
                             !.phase = IF next = Target \/ n + 1 = MaxHops
                                       THEN "answered" ELSE "walking"]
    BY <1>2 DEF Hop, Hops
  <2>2. next \in RouteNodes
    BY <1>0, <1>2
  <2>. HIDE DEF next, n
  <2>3. /\ walk' \in WalkType /\ walk'.hops = Append(Hops, next)
        /\ walk'.phase = (IF next = Target \/ n + 1 = MaxHops THEN "answered" ELSE "walking")
        /\ walk'.excluded = walk.excluded /\ walk'.asked = walk.asked
        /\ walk'.source = walk.source /\ walk'.direct = walk.direct
    <3>. DEFINE p == IF next = Target \/ n + 1 = MaxHops THEN "answered" ELSE "walking"
    <3>1. p \in {"walking", "answered"} /\ Append(Hops, next) \in Seq(RouteNodes)
      BY <1>0, <2>2
    <3>2. walk' = [walk EXCEPT !.hops = Append(Hops, next), !.phase = p]
      BY <2>1 DEF Hops
    <3>. HIDE DEF p
    <3>3. /\ walk' \in WalkType /\ walk'.hops = Append(Hops, next) /\ walk'.phase = p
          /\ walk'.excluded = walk.excluded /\ walk'.asked = walk.asked
          /\ walk'.source = walk.source /\ walk'.direct = walk.direct
      BY <1>0, <3>1, <3>2 DEF WalkType
    <3>. QED BY <3>3 DEF p
  <2>4. /\ Len(Append(Hops, next)) = n + 1
        /\ \A k \in 1..n : Append(Hops, next)[k] = Hops[k]
        /\ Append(Hops, next)[n + 1] = next
        /\ Append(Hops, next) # <<>>
    BY <1>0, <2>2 DEF n
  <2>5. RoutingTypeOK'
    BY <1>0, <2>3 DEF WalkInv, RoutingTypeOK, WalkType
  <2>6. /\ n < MaxHops /\ Last(Hops) # Target
        /\ \A k \in 1..n : Hops[k] \notin walk.excluded /\ Hops[k] # Target
    BY <1>0 DEF WalkInv, SoundWalk, Last, n
  <2>7. SoundWalk'
    <3>1. \A k \in 1..(n + 1) : /\ Append(Hops, next)[k] \notin walk.excluded
                                /\ k < n + 1 => Append(Hops, next)[k] # Target
      BY <1>0, <1>2, <2>4, <2>6
    <3>2. walk'.phase = "walking" => n + 1 < MaxHops /\ next # Target
      BY <1>0, <2>3, <2>6
    <3>3. walk.asked \subseteq walk.excluded /\ n + 1 <= MaxHops
      BY <1>0, <2>6 DEF WalkInv, SoundWalk
    <3>4. walk'.phase \in {"walking", "answered"}
      BY <2>3
    <3>. QED BY <2>3, <2>4, <3>1, <3>2, <3>3, <3>4 DEF SoundWalk, Hops, Last
  <2>8. ~disturbed' => CleanWalk'
    <3>. SUFFICES ASSUME ~disturbed' PROVE CleanWalk'
      OBVIOUS
    <3>1. CleanWalk
      BY <1>0 DEF WalkInv
    <3>2. \A k \in 1..(n + 1) :
            Append(Hops, next)[k] =
              table[IF k = 1 THEN walk.source ELSE Append(Hops, next)[k - 1]]
      <4>1. ASSUME NEW k \in 1..n
            PROVE  Append(Hops, next)[k] =
                     table[IF k = 1 THEN walk.source ELSE Append(Hops, next)[k - 1]]
        <5>1. Append(Hops, next)[k] = table[IF k = 1 THEN walk.source ELSE Hops[k - 1]]
          BY <2>4, <3>1, <4>1 DEF CleanWalk, Before, n
        <5>2. k # 1 => Append(Hops, next)[k - 1] = Hops[k - 1]
          BY <1>0, <2>4, <4>1
        <5>. QED BY <5>1, <5>2
      <4>2. next = table[IF n + 1 = 1 THEN walk.source ELSE Append(Hops, next)[(n + 1) - 1]]
        <5>1. CASE n = 0
          <6>1. Current = walk.source
            BY <1>0, <5>1 DEF Last, n
          <6>. QED BY <5>1, <6>1 DEF next
        <5>2. CASE n # 0
          <6>1. Current = Hops[n]
            BY <1>0, <5>2 DEF Last, n
          <6>2. Append(Hops, next)[n] = Hops[n] /\ (n + 1) - 1 = n /\ n + 1 # 1
            BY <1>0, <2>4, <5>2
          <6>3. next = table[Current]
            BY DEF next
          <6>. QED BY <6>1, <6>2, <6>3
        <5>. QED BY <5>1, <5>2
      <4>. QED BY <1>0, <2>4, <4>1, <4>2
    <3>3. walk'.phase = "answered" /\ next # Target => n + 1 = MaxHops
      BY <2>3
    <3>4. /\ walk.excluded = walk.asked \cup Shunned
          /\ walk.direct = (table[walk.source] = Target)
          /\ walk'.phase \in {"walking", "answered"}
      BY <1>0, <2>3, <3>1 DEF CleanWalk
    <3>. QED BY <1>0, <2>3, <2>4, <3>2, <3>3, <3>4 DEF CleanWalk, Hops, Last, Before, Shunned
  <2>. QED BY <2>5, <2>7, <2>8 DEF WalkInv
<1>. QED BY <1>1, <1>2

LEMMA HopFailsKeeps ==
  ASSUME WalkInv, HopFails
  PROVE  WalkInv'
<1>1. /\ walk' = [walk EXCEPT !.phase = "answered"] /\ disturbed' = TRUE
      /\ walk.phase = "walking" /\ walk \in WalkType
  BY DEF WalkInv, RoutingTypeOK, WalkType, HopFails
<1>2. /\ walk' \in WalkType /\ walk'.phase = "answered" /\ walk'.hops = walk.hops
      /\ walk'.excluded = walk.excluded /\ walk'.asked = walk.asked
  BY <1>1 DEF WalkType
<1>. QED BY <1>1, <1>2 DEF WalkInv, RoutingTypeOK, SoundWalk, WalkType, HopFails, Hops

(* A step of the call, or an entry written meanwhile, keeps the invariant. *)
LEMMA WalkStepInv ==
  ASSUME WalkInv, [RoutingNext]_routingVars
  PROVE  WalkInv'
<1>1. CASE UNCHANGED routingVars
  BY <1>1 DEF routingVars, WalkInv, RoutingTypeOK, SoundWalk, CleanWalk, Hops, Last, Before,
              Shunned
<1>2. CASE RoutingNext
  BY <1>2, EntryKeeps, PreludeKeeps, HopKeeps, HopFailsKeeps DEF RoutingNext
<1> QED BY <1>1, <1>2

(* The inductive invariant: the hops so far keep what was asked, and are   *)
(* the table's as long as nothing was disturbed.                           *)
THEOREM RoutingInvariant == RoutingSpec => []WalkInv
<1>1. WalkInv /\ [RoutingNext]_routingVars => WalkInv'
  BY WalkStepInv
<1> QED BY <1>1, WalkInit, PTL DEF RoutingSpec

(* AnswersAreRoutes (handler.go:56-126), for any nodes, exclusions and     *)
(* bound on the hops: the answer excludes what was asked, and without a    *)
(* disturbance it is a route by the table that nothing could prolong.      *)
THEOREM RoutesAreSound == RoutingSpec => []AnswersAreRoutes
<1>1. ASSUME WalkInv, walk.phase = "answered" PROVE AnswersAreRoutes
  <2>. DEFINE n == Len(Hops)
  <2>0. /\ Hops \in Seq(RouteNodes) /\ n \in Nat /\ MaxHops \in Nat \ {0} /\ n <= MaxHops
        /\ walk.asked \subseteq walk.excluded /\ walk.source \in Others
        /\ \A k \in 1..n : Hops[k] \notin walk.excluded /\ (k < n => Hops[k] # Target)
        /\ Current = Last(Hops)
    BY <1>1, RoutingConstants DEF WalkInv, RoutingTypeOK, SoundWalk, Hops, Last, Current
  <2>1. SUFFICES ASSUME ~disturbed
                 PROVE  /\ IsRoute(Hops)
                        /\ Current # Target => \A m \in RouteNodes : ~IsRoute(Append(Hops, m))
                        /\ walk.direct /\ Target \notin walk.excluded => Hops = <<Target>>
    BY <1>1, <2>0 DEF AnswersAreRoutes, Hops
  <2>2. /\ walk.excluded = walk.asked \cup Shunned
        /\ walk.direct = (table[walk.source] = Target)
        /\ \A k \in 1..n : Hops[k] = table[Before(Hops, k)]
        /\ Current # Target => n = MaxHops \/ table[Current] = NoHop
                               \/ table[Current] \in walk.excluded
    BY <1>1, <2>0, <2>1 DEF WalkInv, CleanWalk
  <2>3. IsRoute(Hops)
    BY <2>0, <2>2 DEF IsRoute, Before, Shunned
  <2>4. ASSUME Current # Target, NEW m \in RouteNodes, IsRoute(Append(Hops, m)) PROVE FALSE
    <3>1. /\ Len(Append(Hops, m)) = n + 1 /\ Append(Hops, m)[n + 1] = m
          /\ n # 0 => Append(Hops, m)[n] = Hops[n]
      BY <2>0
    <3>2. n + 1 <= MaxHops /\ n + 1 \in 1..Len(Append(Hops, m))
      BY <2>0, <2>4, <3>1 DEF IsRoute
    <3>3. /\ m = table[IF n + 1 = 1 THEN walk.source ELSE Append(Hops, m)[(n + 1) - 1]]
          /\ m \notin walk.asked /\ m \notin Shunned
      BY <2>4, <3>1, <3>2 DEF IsRoute, Shunned
    <3>4. m = table[Current]
      <4>1. CASE n = 0
        BY <2>0, <3>3, <4>1 DEF Last
      <4>2. CASE n # 0
        <5>1. (n + 1) - 1 = n /\ n + 1 # 1 /\ Hops # <<>>
          BY <2>0, <4>2
        <5>. QED BY <2>0, <3>1, <3>3, <4>2, <5>1 DEF Last
      <4>. QED BY <4>1, <4>2
    <3>. QED BY <2>0, <2>2, <2>4, <3>2, <3>3, <3>4, RoutingConstants
  <2>5. ASSUME walk.direct, Target \notin walk.excluded PROVE Hops = <<Target>>
    <3>1. table[walk.source] = Target
      BY <2>2, <2>5
    <3>2. n # 0
      <4>. SUFFICES ASSUME n = 0 PROVE FALSE
        OBVIOUS
      <4>1. Current = walk.source /\ walk.source # Target
        BY <2>0 DEF Last, Others
      <4>. QED BY <2>0, <2>2, <2>5, <3>1, <4>1, RoutingConstants
    <3>3. Hops[1] = Target
      BY <2>0, <2>2, <3>1, <3>2 DEF Before
    <3>4. n = 1
      <4>. HIDE DEF n
      <4>. SUFFICES ASSUME n # 1 PROVE FALSE
        OBVIOUS
      <4>1. 1 \in 1..n /\ 1 < n
        BY <2>0, <3>2
      <4>. QED BY <2>0, <3>3, <4>1
    <3>. QED BY <2>0, <3>3, <3>4
  <2>. QED BY <2>3, <2>4, <2>5
<1>2. WalkInv => AnswersAreRoutes
  BY <1>1 DEF AnswersAreRoutes
<1>. QED BY <1>2, RoutingInvariant, PTL
=============================================================================
