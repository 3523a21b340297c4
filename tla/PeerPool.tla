------------------------------ MODULE PeerPool ------------------------------
(***************************************************************************)
(* The relay's pool of connections and circuit breakers, one of each for a *)
(* node, and the calls of the relay client that share them.  GetBreaker    *)
(* and GetConn look a node up under the read lock and let it go; what they *)
(* then make they put in under the write lock, after another look.         *)
(* Between the two, GetConn asks discovery for the address and dials.      *)
(* Nobody calls Evict, and Close is left for the end of the process: both  *)
(* are left out.                                                           *)
(***************************************************************************)
CONSTANTS
  Peers,     \* nodes that may be called
  Dialers,   \* goroutines that call at the same time
  Conns,     \* grpc.ClientConns
  Breakers,  \* CircuitBreakers
  None       \* no connection, no breaker, no node

ASSUME PoolConstants == None \notin Peers \cup Conns \cup Breakers

VARIABLES
  conns,     \* p.conns
  breakers,  \* p.breakers
  opened,    \* connections dialled and not closed
  caller     \* where each call is and what it holds

poolVars == <<conns, breakers, opened, caller>>

PoolTypeOK ==
  /\ conns \in [Peers -> Conns \cup {None}]
  /\ breakers \in [Peers -> Breakers \cup {None}]
  /\ opened \subseteq Conns
  /\ caller \in [Dialers -> [phase : {"idle", "make", "connect", "dial", "insert", "use"},
                             node : Peers \cup {None},
                             conn : Conns \cup {None},
                             breaker : Breakers \cup {None}]]

Resting == [phase |-> "idle", node |-> None, conn |-> None, breaker |-> None]

PoolInit ==
  /\ conns = [n \in Peers |-> None]
  /\ breakers = [n \in Peers |-> None]
  /\ opened = {}
  /\ caller = [c \in Dialers |-> Resting]

At(c, phase) == caller[c].phase = phase

-----------------------------------------------------------------------------

(* GetBreaker, first look. *)
FindBreaker(c, n) ==
  /\ At(c, "idle")
  /\ caller' = [caller EXCEPT ![c] =
       [phase |-> IF breakers[n] = None THEN "make" ELSE "connect",
        node |-> n, conn |-> None, breaker |-> breakers[n]]]
  /\ UNCHANGED <<conns, breakers, opened>>

FreshBreakers ==
  Breakers \ ({breakers[n] : n \in Peers} \cup {caller[c].breaker : c \in Dialers})

MakeBreaker_NoSecondLook(c) ==
  /\ At(c, "make")
  /\ \E b \in FreshBreakers :
       /\ breakers' = [breakers EXCEPT ![caller[c].node] = b]
       /\ caller' = [caller EXCEPT ![c].phase = "connect", ![c].breaker = b]
  /\ UNCHANGED <<conns, opened>>

(* GetBreaker, second look: another caller's breaker is taken over. *)
MakeBreaker(c) ==
  /\ At(c, "make")
  /\ LET n == caller[c].node IN
     \/ /\ breakers[n] # None
        /\ caller' = [caller EXCEPT ![c].phase = "connect", ![c].breaker = breakers[n]]
        /\ UNCHANGED breakers
     \/ /\ breakers[n] = None
        /\ \E b \in FreshBreakers :
             /\ breakers' = [breakers EXCEPT ![n] = b]
             /\ caller' = [caller EXCEPT ![c].phase = "connect", ![c].breaker = b]
  /\ UNCHANGED <<conns, opened>>

(* GetConn, first look. *)
FindConn(c) ==
  /\ At(c, "connect")
  /\ LET held == conns[caller[c].node] IN
     caller' = [caller EXCEPT ![c].phase = IF held = None THEN "dial" ELSE "use",
                              ![c].conn = held]
  /\ UNCHANGED <<conns, breakers, opened>>

(* Resolved and dialled, without a lock. *)
Dial(c) ==
  /\ At(c, "dial")
  /\ \E k \in Conns \ opened :
       /\ opened' = opened \cup {k}
       /\ caller' = [caller EXCEPT ![c].phase = "insert", ![c].conn = k]
  /\ UNCHANGED <<conns, breakers>>

(* No address, or no connection: the breaker counts a failure. *)
DialFails(c) ==
  /\ At(c, "dial")
  /\ caller' = [caller EXCEPT ![c] = Resting]
  /\ UNCHANGED <<conns, breakers, opened>>

InsertConn_LeavesItsOwn(c) ==
  /\ At(c, "insert")
  /\ LET n == caller[c].node IN
     \/ /\ conns[n] # None
        /\ caller' = [caller EXCEPT ![c].phase = "use", ![c].conn = conns[n]]
        /\ UNCHANGED <<conns, opened>>
     \/ /\ conns[n] = None
        /\ conns' = [conns EXCEPT ![n] = caller[c].conn]
        /\ caller' = [caller EXCEPT ![c].phase = "use"]
        /\ UNCHANGED opened
  /\ UNCHANGED breakers

(* GetConn, second look: a connection that came too late is closed. *)
InsertConn(c) ==
  /\ At(c, "insert")
  /\ LET n == caller[c].node IN
     \/ /\ conns[n] # None
        /\ opened' = opened \ {caller[c].conn}
        /\ caller' = [caller EXCEPT ![c].phase = "use", ![c].conn = conns[n]]
        /\ UNCHANGED conns
     \/ /\ conns[n] = None
        /\ conns' = [conns EXCEPT ![n] = caller[c].conn]
        /\ caller' = [caller EXCEPT ![c].phase = "use"]
        /\ UNCHANGED opened
  /\ UNCHANGED breakers

(* The RPC is over and recorded with the breaker. *)
CallOver(c) ==
  /\ At(c, "use")
  /\ caller' = [caller EXCEPT ![c] = Resting]
  /\ UNCHANGED <<conns, breakers, opened>>

PoolNext ==
  \E c \in Dialers :
    \/ \E n \in Peers : FindBreaker(c, n)
    \/ MakeBreaker(c) \/ FindConn(c) \/ Dial(c) \/ DialFails(c)
    \/ InsertConn(c) \/ CallOver(c)

PoolSpec == PoolInit /\ [][PoolNext]_poolVars

-----------------------------------------------------------------------------
(* Properties *)

(* No connection leaks and none is closed under a call: what is open is in *)
(* the pool, or was dialled by a call that is about to look again; a call  *)
(* uses the connection in the pool (peerpool.go:34-64).                    *)
ConnsAccounted ==
  /\ opened = {conns[n] : n \in {m \in Peers : conns[m] # None}}
              \cup {caller[c].conn : c \in {d \in Dialers : At(d, "insert")}}
  /\ \A c \in Dialers : At(c, "use") => caller[c].conn = conns[caller[c].node]

(* All calls to a node report to one breaker, however they raced for it:   *)
(* CircuitBreaker rests on this (peerpool.go:66-82).                       *)
OneBreakerPerNode ==
  \A c \in Dialers :
    caller[c].breaker # None => caller[c].breaker = breakers[caller[c].node]
=============================================================================
