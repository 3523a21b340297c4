---------------------------- MODULE RateLimiter ----------------------------
(***************************************************************************)
(* The rate limiter of the gRPC servers: an entry per client address, made *)
(* at its first request, refilled from the time that has passed when the   *)
(* next one comes, and dropped by a goroutine when it has been idle.  Both *)
(* hold the mutex throughout.  The clock is a counter of ticks and tokens  *)
(* are counted in units, so that a tick may be worth part of a token.      *)
(***************************************************************************)
EXTENDS Naturals

CONSTANTS
  Clients,    \* peer addresses
  Rate,       \* units that come back per tick
  Cost,       \* units of one token
  Burst,      \* units of a full bucket
  IdleTicks,  \* an entry not seen for longer than this is dropped
  MaxTime,    \* the clock stops here (bound)
  NoEntry,    \* no entry in the map
  NoRequest   \* no request so far

ASSUME LimiterConstants ==
  /\ Rate \in Nat
  /\ Cost \in Nat \ {0}
  /\ Burst \in Nat
  /\ Cost <= Burst
  /\ IdleTicks \in Nat
  /\ MaxTime \in Nat
  /\ NoEntry \notin [tokens : Nat, lastSeen : Nat]
  /\ NoRequest \notin [client : Clients, ok : BOOLEAN]

(* 100 a second and 200 at most, dropped after ten minutes: a dropped      *)
(* entry has had the time to fill up.                                      *)
ASSUME IdleIsFull == (IdleTicks + 1) * Rate >= Burst

VARIABLES
  now,      \* the clock
  clients,  \* rl.clients
  reply,    \* the last request and whether allow let it through
  window    \* history: since when requests are counted, and the count

limiterVars == <<now, clients, reply, window>>

Entry == [tokens : 0..Burst, lastSeen : 0..MaxTime]

LimiterTypeOK ==
  /\ now \in 0..MaxTime
  /\ clients \in [Clients -> Entry \cup {NoEntry}]
  /\ \A c \in Clients : clients[c] # NoEntry => clients[c].lastSeen <= now
  /\ reply \in [client : Clients, ok : BOOLEAN] \cup {NoRequest}
  /\ window \in [open : BOOLEAN, from : 0..MaxTime, count : [Clients -> Nat]]
  /\ window.from <= now

LimiterInit ==
  /\ now = 0
  /\ clients = [c \in Clients |-> NoEntry]
  /\ reply = NoRequest
  /\ window = [open |-> FALSE, from |-> 0, count |-> [c \in Clients |-> 0]]

-----------------------------------------------------------------------------

Capped_Not(n) == n

Capped(n) == IF n > Burst THEN Burst ELSE n

Refilled(e) == Capped(e.tokens + (now - e.lastSeen) * Rate)

(* Units c has to spend now: a first request finds a full bucket. *)
Funds(c) == IF clients[c] = NoEntry THEN Burst ELSE Refilled(clients[c])

Counted(c) == IF window.open THEN [window EXCEPT !.count[c] = @ + 1] ELSE window

Let(c) ==
  /\ Funds(c) >= Cost
  /\ clients' = [clients EXCEPT ![c] = [tokens |-> Funds(c) - Cost, lastSeen |-> now]]
  /\ reply' = [client |-> c, ok |-> TRUE]
  /\ window' = Counted(c)
  /\ UNCHANGED now

(* A refused request too moves the refill into the entry. *)
Hold_Forfeits(c) ==
  /\ Funds(c) < Cost
  /\ clients' = [clients EXCEPT ![c] = [tokens |-> @.tokens, lastSeen |-> now]]
  /\ reply' = [client |-> c, ok |-> FALSE]
  /\ UNCHANGED <<now, window>>

Hold(c) ==
  /\ Funds(c) < Cost
  /\ clients' = [clients EXCEPT ![c] = [tokens |-> Funds(c), lastSeen |-> now]]
  /\ reply' = [client |-> c, ok |-> FALSE]
  /\ UNCHANGED <<now, window>>

(* One round of the cleanup goroutine, at any time. *)
Cleanup_KeepsIdle ==
  /\ clients' = [c \in Clients |->
       IF clients[c] # NoEntry /\ now - clients[c].lastSeen <= IdleTicks
       THEN NoEntry ELSE clients[c]]
  /\ UNCHANGED <<now, reply, window>>

Cleanup ==
  /\ clients' = [c \in Clients |->
       IF clients[c] # NoEntry /\ now - clients[c].lastSeen > IdleTicks
       THEN NoEntry ELSE clients[c]]
  /\ UNCHANGED <<now, reply, window>>

LimiterTick ==
  /\ now < MaxTime
  /\ now' = now + 1
  /\ UNCHANGED <<clients, reply, window>>

(* History: requests are counted from here on. *)
OpenWindow ==
  /\ ~window.open
  /\ window' = [window EXCEPT !.open = TRUE, !.from = now]
  /\ UNCHANGED <<now, clients, reply>>

LimiterNext ==
  \/ \E c \in Clients : Let(c) \/ Hold(c)
  \/ Cleanup
  \/ LimiterTick
  \/ OpenWindow

LimiterSpec == LimiterInit /\ [][LimiterNext]_limiterVars

-----------------------------------------------------------------------------
(* Properties *)

(* In any window of time, however it lies to the cleanups, a client is let *)
(* through at most for a full bucket and what has come back since: to be   *)
(* forgotten gains it nothing (ratelimit.go:36-74).                        *)
WindowBound ==
  window.open =>
    \A c \in Clients : window.count[c] * Cost <= Burst + (now - window.from) * Rate

Bucket == INSTANCE TokenBucket
            WITH level <- [c \in Clients |-> Funds(c)], answer <- reply

(* With its lazy refill and its cleanup the limiter lets through and       *)
(* refuses exactly what a bucket per client would that is filled at every  *)
(* tick and never forgotten.                                               *)
LimiterIsTokenBucket == Bucket!BucketSpec
=============================================================================
