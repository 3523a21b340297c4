---------------------------- MODULE TokenBucket ----------------------------
(***************************************************************************)
(* What the rate limiter promises each client: a bucket of Burst units     *)
(* that fills at Rate units a tick.  A request is let through if the       *)
(* bucket holds Cost units, which it takes, and only then.  Nothing here   *)
(* is ever forgotten.                                                      *)
(***************************************************************************)
EXTENDS Naturals

CONSTANTS Clients, Rate, Cost, Burst, NoRequest

VARIABLES
  level,    \* units in each client's bucket
  answer    \* the last request and whether it was let through

bucketVars == <<level, answer>>

BucketInit ==
  /\ level = [c \in Clients |-> Burst]
  /\ answer = NoRequest

Fill ==
  /\ level' = [c \in Clients |->
                 IF level[c] + Rate < Burst THEN level[c] + Rate ELSE Burst]
  /\ UNCHANGED answer

Admit(c) ==
  /\ level[c] >= Cost
  /\ level' = [level EXCEPT ![c] = @ - Cost]
  /\ answer' = [client |-> c, ok |-> TRUE]

Refuse(c) ==
  /\ level[c] < Cost
  /\ answer' = [client |-> c, ok |-> FALSE]
  /\ UNCHANGED level

BucketNext == Fill \/ \E c \in Clients : Admit(c) \/ Refuse(c)

BucketSpec == BucketInit /\ [][BucketNext]_bucketVars
=============================================================================
