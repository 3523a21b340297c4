------------------------- MODULE RateLimiterProofs -------------------------
(***************************************************************************)
(* Proofs, for any clients and any clock, that the limiter is a token      *)
(* bucket per client whatever its cleanup deletes, and that no window of   *)
(* time sees more requests than the bucket and its refill pay for.         *)
(***************************************************************************)
EXTENDS RateLimiter, TLAPS

(* What a client has been let through since the window was opened, with    *)
(* what it could still spend at once, is paid for by the refill.           *)
WindowInv ==
  \A c \in Clients :
    IF window.open
    THEN window.count[c] * Cost + Funds(c) <= Burst + (now - window.from) * Rate
    ELSE window.count[c] = 0

LimiterInv == LimiterTypeOK /\ WindowInv

-----------------------------------------------------------------------------

(* Arithmetic of the refill. *)
LEMMA OneMore ==
  ASSUME NEW a \in Nat, NEW r \in Nat
  PROVE  (a + 1) * r = a * r + r
OBVIOUS

LEMMA Monotone ==
  ASSUME NEW a \in Nat, NEW b \in Nat, NEW r \in Nat, a >= b
  PROVE  a * r >= b * r
<1>1. PICK k \in Nat : a = b + k
  <2>1. a - b \in Nat /\ a = b + (a - b)
    OBVIOUS
  <2>. QED BY <2>1
<1>2. (b + k) * r = b * r + k * r /\ k * r >= 0
  OBVIOUS
<1>3. a * r \in Nat /\ b * r \in Nat /\ k * r \in Nat
  OBVIOUS
<1>. QED BY <1>1, <1>2, <1>3

LEMMA Products ==
  ASSUME NEW a \in Nat, NEW b \in Nat
  PROVE  a * b \in Nat
OBVIOUS

(* What a client has to spend lies within its bucket. *)
LEMMA FundsType ==
  ASSUME LimiterTypeOK, NEW c \in Clients
  PROVE  Funds(c) \in 0..Burst
<1>1. CASE clients[c] = NoEntry
  BY <1>1, LimiterConstants DEF Funds
<1>2. CASE clients[c] # NoEntry
  <2>1. clients[c] \in Entry /\ now - clients[c].lastSeen \in Nat
    BY <1>2 DEF LimiterTypeOK, Entry
  <2>2. (now - clients[c].lastSeen) * Rate \in Nat
    BY <2>1, Products, LimiterConstants
  <2>. QED
    BY <1>2, <2>1, <2>2, LimiterConstants DEF Funds, Refilled, Capped, Entry
<1>. QED BY <1>1, <1>2

(* An entry is not the mark of a missing one. *)
LEMMA EntryIsNoMark ==
  ASSUME NEW t \in 0..Burst, NEW n \in 0..MaxTime
  PROVE  /\ [tokens |-> t, lastSeen |-> n] # NoEntry
         /\ [tokens |-> t, lastSeen |-> n] \in Entry
BY LimiterConstants DEF Entry

-----------------------------------------------------------------------------
(* What each step does to the funds. *)

(* allow leaves the client with what it had, less one token if let through. *)
LEMMA AllowFunds ==
  ASSUME LimiterTypeOK, NEW c \in Clients, NEW t \in 0..Burst,
         clients' = [clients EXCEPT ![c] = [tokens |-> t, lastSeen |-> now]],
         now' = now
  PROVE  /\ Funds(c)' = t
         /\ \A d \in Clients \ {c} : Funds(d)' = Funds(d)
<1>. DEFINE e == [tokens |-> t, lastSeen |-> now]
<1>1. e # NoEntry
  BY EntryIsNoMark DEF LimiterTypeOK
<1>2. clients'[c] = e /\ \A d \in Clients \ {c} : clients'[d] = clients[d]
  BY DEF LimiterTypeOK
<1>3. (now - now) * Rate = 0
  BY LimiterConstants DEF LimiterTypeOK
<1>4. Funds(c)' = t
  <2>1. e.tokens = t /\ now' - e.lastSeen = 0
    BY DEF LimiterTypeOK
  <2>2. 0 * Rate = 0
    BY LimiterConstants
  <2>. QED BY <1>1, <1>2, <2>1, <2>2, LimiterConstants DEF Funds, Refilled, Capped
<1>5. ASSUME NEW d \in Clients \ {c} PROVE Funds(d)' = Funds(d)
  BY <1>2, <1>5 DEF Funds, Refilled, Capped
<1>. QED BY <1>4, <1>5

(* A tick adds Rate to every bucket, up to Burst. *)
LEMMA TickFunds ==
  ASSUME LimiterTypeOK, LimiterTick, NEW c \in Clients
  PROVE  Funds(c)' = IF Funds(c) + Rate < Burst THEN Funds(c) + Rate ELSE Burst
<1>1. clients' = clients /\ now' = now + 1 /\ now \in Nat
  BY DEF LimiterTick, LimiterTypeOK
<1>2. CASE clients[c] = NoEntry
  BY <1>1, <1>2, LimiterConstants DEF Funds
<1>3. CASE clients[c] # NoEntry
  <2>. DEFINE a == now - clients[c].lastSeen
              k == clients[c].tokens
  <2>1. clients[c] \in Entry /\ a \in Nat /\ k \in 0..Burst
    BY <1>3 DEF LimiterTypeOK, Entry
  <2>2. now' - clients'[c].lastSeen = a + 1 /\ clients'[c].tokens = k
    BY <1>1, <2>1 DEF Entry
  <2>3. (a + 1) * Rate = a * Rate + Rate /\ a * Rate \in Nat
    BY <2>1, OneMore, Products, LimiterConstants
  <2>4. Funds(c) = Capped(k + a * Rate)
    BY <1>3 DEF Funds, Refilled
  <2>5. Funds(c)' = Capped(k + (a + 1) * Rate)
    BY <1>1, <1>3, <2>2 DEF Funds, Refilled, Capped
  <2>. HIDE DEF a, k
  <2>. QED BY <2>1, <2>3, <2>4, <2>5, LimiterConstants DEF Capped
<1>. QED BY <1>2, <1>3

(* The cleanup deletes nothing but full buckets. *)
LEMMA CleanupFunds ==
  ASSUME LimiterTypeOK, Cleanup, NEW c \in Clients
  PROVE  Funds(c)' = Funds(c)
<1>1. now' = now
  BY DEF Cleanup
<1>2. CASE clients'[c] = clients[c]
  BY <1>1, <1>2 DEF Funds, Refilled, Capped
<1>3. CASE clients'[c] # clients[c]
  <2>. DEFINE a == now - clients[c].lastSeen
              k == clients[c].tokens
  <2>1. clients[c] # NoEntry /\ a > IdleTicks /\ clients'[c] = NoEntry
    BY <1>3 DEF Cleanup
  <2>2. clients[c] \in Entry /\ a \in Nat /\ k \in Nat
    BY <2>1, LimiterConstants DEF LimiterTypeOK, Entry
  <2>3. a >= IdleTicks + 1 /\ IdleTicks + 1 \in Nat
    BY <2>1, <2>2, LimiterConstants
  <2>4. a * Rate >= (IdleTicks + 1) * Rate
    BY <2>2, <2>3, Monotone, LimiterConstants
  <2>5. a * Rate \in Nat /\ (IdleTicks + 1) * Rate \in Nat
    BY <2>2, <2>3, Products, LimiterConstants
  <2>6. k + a * Rate >= Burst
    <3>. HIDE DEF a, k
    <3>. QED BY <2>2, <2>4, <2>5, IdleIsFull, LimiterConstants
  <2>7. Funds(c) = Burst
    <3>1. Funds(c) = Capped(k + a * Rate)
      BY <2>1 DEF Funds, Refilled
    <3>. HIDE DEF a, k
    <3>. QED BY <3>1, <2>2, <2>5, <2>6, LimiterConstants DEF Capped
  <2>8. Funds(c)' = Burst
    BY <2>1 DEF Funds
  <2>. QED BY <2>7, <2>8
<1>. QED BY <1>2, <1>3

-----------------------------------------------------------------------------

LEMMA LimiterInitInv == LimiterInit => LimiterInv
<1>. SUFFICES ASSUME LimiterInit PROVE LimiterInv
  OBVIOUS
<1>1. LimiterTypeOK
  BY LimiterConstants DEF LimiterInit, LimiterTypeOK
<1>2. WindowInv
  BY DEF LimiterInit, WindowInv
<1>. QED BY <1>1, <1>2 DEF LimiterInv

LEMMA StepTypes ==
  ASSUME LimiterTypeOK, [LimiterNext]_limiterVars
  PROVE  LimiterTypeOK'
<1>1. ASSUME NEW c \in Clients, Let(c) PROVE LimiterTypeOK'
  <2>. DEFINE t == Funds(c) - Cost
  <2>1. t \in 0..Burst /\ now \in 0..MaxTime
    BY <1>1, FundsType, LimiterConstants DEF Let, LimiterTypeOK
  <2>2. [tokens |-> t, lastSeen |-> now] \in Entry
    BY <2>1, EntryIsNoMark
  <2>3. window' \in [open : BOOLEAN, from : 0..MaxTime, count : [Clients -> Nat]]
        /\ window'.from = window.from
    BY <1>1 DEF Let, Counted, LimiterTypeOK
  <2>. HIDE DEF t
  <2>4. clients' = [clients EXCEPT ![c] = [tokens |-> t, lastSeen |-> now]]
    BY <1>1 DEF Let, t
  <2>. QED BY <1>1, <2>1, <2>2, <2>3, <2>4, LimiterConstants DEF Let, LimiterTypeOK
<1>2. ASSUME NEW c \in Clients, Hold(c) PROVE LimiterTypeOK'
  <2>. DEFINE t == Funds(c)
  <2>1. t \in 0..Burst /\ now \in 0..MaxTime
    BY <1>2, FundsType DEF LimiterTypeOK
  <2>2. [tokens |-> t, lastSeen |-> now] \in Entry
    BY <2>1, EntryIsNoMark
  <2>. HIDE DEF t
  <2>4. clients' = [clients EXCEPT ![c] = [tokens |-> t, lastSeen |-> now]]
    BY <1>2 DEF Hold, t
  <2>. QED BY <1>2, <2>1, <2>2, <2>4, LimiterConstants DEF Hold, LimiterTypeOK
<1>3. CASE Cleanup
  BY <1>3 DEF Cleanup, LimiterTypeOK
<1>4. CASE LimiterTick
  BY <1>4, LimiterConstants DEF LimiterTick, LimiterTypeOK, Entry
<1>5. CASE OpenWindow
  <2>1. window' \in [open : BOOLEAN, from : 0..MaxTime, count : [Clients -> Nat]]
        /\ window'.from = now
    BY <1>5 DEF OpenWindow, LimiterTypeOK
  <2>2. now \in 0..MaxTime /\ now' = now /\ clients' = clients /\ reply' = reply
    BY <1>5 DEF OpenWindow, LimiterTypeOK
  <2>. QED BY <2>1, <2>2, LimiterConstants DEF LimiterTypeOK
<1>6. CASE UNCHANGED limiterVars
  BY <1>6 DEF limiterVars, LimiterTypeOK
<1>. QED BY <1>1, <1>2, <1>3, <1>4, <1>5, <1>6 DEF LimiterNext

LEMMA StepWindow ==
  ASSUME LimiterInv, [LimiterNext]_limiterVars
  PROVE  WindowInv'
<1>. USE DEF LimiterInv
<1>0. /\ now \in Nat /\ window.from \in Nat /\ now - window.from \in Nat
      /\ (now - window.from) * Rate \in Nat
      /\ \A c \in Clients : /\ Funds(c) \in Nat /\ Funds(c) <= Burst
                            /\ window.count[c] \in Nat
                            /\ window.count[c] * Cost \in Nat
  <2>1. now \in Nat /\ window.from \in Nat /\ now - window.from \in Nat
    BY LimiterConstants DEF LimiterTypeOK
  <2>2. \A c \in Clients : window.count[c] \in Nat
    BY DEF LimiterTypeOK
  <2>. QED BY <2>1, <2>2, FundsType, Products, LimiterConstants
<1>1. ASSUME NEW c \in Clients, Let(c), window.open PROVE WindowInv'
  <2>. SUFFICES ASSUME NEW d \in Clients
       PROVE  /\ window'.open
              /\ window'.count[d] * Cost + Funds(d)' <= Burst + (now' - window'.from) * Rate
    BY DEF WindowInv
  <2>0. window'.open
    BY <1>1 DEF Let, Counted, LimiterTypeOK
  <2>1. window.open /\ window'.from = window.from /\ now' = now
    BY <1>1 DEF Let, Counted, LimiterTypeOK
  <2>2. window.count[d] * Cost + Funds(d) <= Burst + (now - window.from) * Rate
    BY <2>1 DEF WindowInv
  <2>5. Funds(c) - Cost \in 0..Burst
    BY <1>1, <1>0, LimiterConstants DEF Let
  <2>3. CASE d # c
    <3>1. window'.count[d] = window.count[d]
      BY <1>1, <2>1, <2>3 DEF Let, Counted, LimiterTypeOK
    <3>2. Funds(d)' = Funds(d)
      BY <1>1, <2>3, <2>5, AllowFunds DEF Let
    <3>. QED BY <2>0, <2>1, <2>2, <3>1, <3>2
  <2>4. CASE d = c
    <3>1. window'.count[c] = window.count[c] + 1
      BY <1>1, <2>1 DEF Let, Counted, LimiterTypeOK
    <3>2. Funds(c)' = Funds(c) - Cost
      BY <1>1, <2>5, AllowFunds DEF Let
    <3>3. (window.count[c] + 1) * Cost = window.count[c] * Cost + Cost
      BY <1>0, OneMore, LimiterConstants
    <3>4. window'.count[c] * Cost + Funds(c)' = window.count[c] * Cost + Funds(c)
      BY <3>1, <3>2, <3>3, <1>0, LimiterConstants
    <3>. QED BY <2>0, <2>1, <2>2, <2>4, <3>4
  <2>. QED BY <2>3, <2>4
<1>7. ASSUME NEW c \in Clients, Let(c), ~window.open PROVE WindowInv'
  BY <1>7 DEF Let, Counted, WindowInv
<1>2. ASSUME NEW c \in Clients, Hold(c) PROVE WindowInv'
  <2>1. \A d \in Clients : Funds(d)' = Funds(d)
    BY <1>2, AllowFunds, FundsType DEF Hold
  <2>. QED BY <1>2, <2>1 DEF Hold, WindowInv
<1>3. CASE Cleanup
  <2>1. \A d \in Clients : Funds(d)' = Funds(d)
    BY <1>3, CleanupFunds
  <2>. QED BY <1>3, <2>1 DEF Cleanup, WindowInv
<1>4. ASSUME LimiterTick, window.open PROVE WindowInv'
  <2>. SUFFICES ASSUME NEW d \in Clients
       PROVE  /\ window'.open
              /\ window'.count[d] * Cost + Funds(d)' <= Burst + (now' - window'.from) * Rate
    BY DEF WindowInv
  <2>1. window' = window /\ now' - window.from = (now - window.from) + 1
    BY <1>4, <1>0 DEF LimiterTick
  <2>2. window.count[d] * Cost + Funds(d) <= Burst + (now - window.from) * Rate
    BY <1>4 DEF WindowInv
  <2>3. ((now - window.from) + 1) * Rate = (now - window.from) * Rate + Rate
    BY <1>0, OneMore, LimiterConstants
  <2>4. Funds(d)' \in Nat /\ Funds(d)' <= Funds(d) + Rate
    BY <1>4, <1>0, TickFunds, LimiterConstants
  <2>. DEFINE p == (now - window.from) * Rate
              q == window.count[d] * Cost
              f == Funds(d)
              g == Funds(d)'
  <2>5. p \in Nat /\ q \in Nat /\ f \in Nat /\ g \in Nat /\ g <= f + Rate /\ q + f <= Burst + p
    BY <1>0, <2>2, <2>4
  <2>6. (now' - window'.from) * Rate = p + Rate /\ window'.count[d] * Cost = q
    BY <2>1, <2>3
  <2>7. q + g <= Burst + (p + Rate)
    <3>. HIDE DEF p, q, f, g
    <3>. QED BY <2>5, LimiterConstants
  <2>. QED BY <1>4, <2>1, <2>6, <2>7
<1>8. ASSUME LimiterTick, ~window.open PROVE WindowInv'
  BY <1>8 DEF LimiterTick, WindowInv
<1>5. CASE OpenWindow
  <2>. SUFFICES ASSUME NEW d \in Clients
       PROVE  /\ window'.open
              /\ window'.count[d] * Cost + Funds(d)' <= Burst + (now' - window'.from) * Rate
    BY DEF WindowInv
  <2>0. window'.open
    BY <1>5 DEF OpenWindow, LimiterTypeOK
  <2>1. window'.from = now /\ now' = now /\ clients' = clients /\ window'.count[d] = window.count[d]
    BY <1>5 DEF OpenWindow, LimiterTypeOK
  <2>2. Funds(d)' = Funds(d)
    BY <2>1 DEF Funds, Refilled, Capped
  <2>3. window.count[d] = 0
    BY <1>5 DEF OpenWindow, WindowInv
  <2>4. (now - now) * Rate = 0 /\ 0 * Cost = 0
    BY <1>0, LimiterConstants
  <2>5. window'.count[d] * Cost = 0 /\ (now' - window'.from) * Rate = 0
    BY <2>1, <2>3, <2>4
  <2>. QED BY <2>0, <2>2, <2>5, <1>0, LimiterConstants
<1>6. CASE UNCHANGED limiterVars
  BY <1>6 DEF limiterVars, WindowInv, Funds, Refilled, Capped
<1>. QED BY <1>1, <1>2, <1>3, <1>4, <1>5, <1>6, <1>7, <1>8 DEF LimiterNext

-----------------------------------------------------------------------------

LEMMA LimiterStepInv ==
  ASSUME LimiterInv, [LimiterNext]_limiterVars
  PROVE  LimiterInv'
BY StepTypes, StepWindow DEF LimiterInv

(* The invariant holds in every reachable state. *)
THEOREM LimiterInvariant == LimiterSpec => []LimiterInv
<1>1. LimiterInit => LimiterInv
  BY LimiterInitInv
<1>2. LimiterInv /\ [LimiterNext]_limiterVars => LimiterInv'
  BY LimiterStepInv
<1>. QED BY <1>1, <1>2, PTL DEF LimiterSpec

(* Type correctness: no bucket below nothing or above Burst, and no entry  *)
(* from the future (allow, ratelimit.go:36-59).                            *)
THEOREM LimiterTypes == LimiterSpec => []LimiterTypeOK
<1>1. LimiterInv => LimiterTypeOK
  BY DEF LimiterInv
<1>. QED BY <1>1, LimiterInvariant, PTL

(* For any number of clients, rates and windows, and whatever the cleanup  *)
(* forgets, no client gets more than its bucket and the refill pay for     *)
(* (ratelimit.go:36-74).                                                   *)
THEOREM WindowsAreBounded == LimiterSpec => []WindowBound
<1>1. ASSUME LimiterInv PROVE WindowBound
  <2>. SUFFICES ASSUME window.open, NEW c \in Clients
       PROVE  window.count[c] * Cost <= Burst + (now - window.from) * Rate
    BY DEF WindowBound
  <2>1. window.count[c] * Cost + Funds(c) <= Burst + (now - window.from) * Rate
    BY <1>1 DEF LimiterInv, WindowInv
  <2>2. now - window.from \in Nat /\ window.count[c] \in Nat
    BY <1>1, LimiterConstants DEF LimiterInv, LimiterTypeOK
  <2>3. /\ window.count[c] * Cost \in Nat
        /\ (now - window.from) * Rate \in Nat
        /\ Funds(c) \in Nat
    BY <1>1, <2>2, Products, FundsType, LimiterConstants DEF LimiterInv
  <2>. QED BY <2>1, <2>3, LimiterConstants
<1>. QED BY <1>1, LimiterInvariant, PTL

(* The limiter, lazy and forgetful, implements a bucket per client that is *)
(* filled at every tick and never forgotten (ratelimit.go:36-74).          *)
THEOREM LimiterImplementsBucket == LimiterSpec => LimiterIsTokenBucket
<1>. DEFINE lv == [c \in Clients |-> Funds(c)]
<1>1. LimiterInit => Bucket!BucketInit
  BY DEF LimiterInit, Bucket!BucketInit, Funds
<1>2. ASSUME LimiterInv, [LimiterNext]_limiterVars
      PROVE  [Bucket!BucketNext]_(Bucket!bucketVars)
  <2>. USE DEF LimiterInv
  <2>0. lv' = [c \in Clients |-> Funds(c)']
    OBVIOUS
  <2>1. ASSUME NEW c \in Clients, Let(c) PROVE Bucket!Admit(c)
    <3>1. Funds(c) - Cost \in 0..Burst /\ Funds(c) >= Cost
      BY <1>2, <2>1, FundsType, LimiterConstants DEF Let
    <3>2. Funds(c)' = Funds(c) - Cost /\ \A d \in Clients \ {c} : Funds(d)' = Funds(d)
      BY <1>2, <2>1, <3>1, AllowFunds DEF Let
    <3>3. lv' = [lv EXCEPT ![c] = @ - Cost]
      BY <3>2, Zenon
    <3>. QED BY <2>1, <3>1, <3>3 DEF Bucket!Admit, Let
  <2>2. ASSUME NEW c \in Clients, Hold(c) PROVE Bucket!Refuse(c)
    <3>1. \A d \in Clients : Funds(d)' = Funds(d)
      BY <1>2, <2>2, AllowFunds, FundsType DEF Hold
    <3>2. Funds(c) < Cost
      BY <2>2 DEF Hold
    <3>. QED BY <2>2, <3>1, <3>2 DEF Bucket!Refuse, Hold
  <2>3. CASE Cleanup
    <3>1. \A d \in Clients : Funds(d)' = Funds(d)
      BY <1>2, <2>3, CleanupFunds
    <3>. QED BY <2>3, <3>1 DEF Bucket!bucketVars, Cleanup
  <2>4. CASE LimiterTick
    <3>1. \A d \in Clients :
            Funds(d)' = IF Funds(d) + Rate < Burst THEN Funds(d) + Rate ELSE Burst
      BY <1>2, <2>4, TickFunds
    <3>2. lv' = [c \in Clients |-> IF lv[c] + Rate < Burst THEN lv[c] + Rate ELSE Burst]
      BY <3>1
    <3>3. Bucket!Fill
      BY <2>4, <3>2 DEF Bucket!Fill, LimiterTick
    <3>. QED BY <3>3 DEF Bucket!BucketNext
  <2>5. CASE OpenWindow
    <3>1. \A d \in Clients : Funds(d)' = Funds(d)
      BY <2>5 DEF OpenWindow, Funds, Refilled, Capped
    <3>. QED BY <2>5, <3>1 DEF Bucket!bucketVars, OpenWindow
  <2>6. CASE UNCHANGED limiterVars
    <3>1. \A d \in Clients : Funds(d)' = Funds(d)
      BY <2>6 DEF limiterVars, Funds, Refilled, Capped
    <3>. QED BY <2>6, <3>1 DEF Bucket!bucketVars, limiterVars
  <2>. QED BY <1>2, <2>1, <2>2, <2>3, <2>4, <2>5, <2>6 DEF LimiterNext, Bucket!BucketNext
<1>. QED
  BY <1>1, <1>2, LimiterInvariant, PTL DEF LimiterSpec, LimiterIsTokenBucket, Bucket!BucketSpec
=============================================================================
