--------------------------- MODULE PlatformProofs ---------------------------
(***************************************************************************)
(* Proofs about the two feeds that poll a table, for any transfers, peers  *)
(* and numbers of writes and failures: nothing that happens between two    *)
(* polls is lost.  Then the components side by side, as TLC checks them:   *)
(* each behaves as in its own module, and keeps what is proved there.      *)
(***************************************************************************)
EXTENDS MCPlatform, NetworkProofs, RateLimiterProofs, StorageProofs

-----------------------------------------------------------------------------
(* WatchTransfers *)

(* Between two polls the subscriber was told what the service knows; while *)
(* events are being sent, the part of the poll that is out already.        *)
WatchInv ==
  /\ WatchTypeOK
  /\ stream = "waiting" => \A i \in Wanted : known[i] # NoRow => Told(i, known[i])
  /\ stream = "sending" => \A i \in Wanted \ polled.todo :
                             polled.rows[i] # NoRow => Told(i, polled.rows[i])
  /\ stream = "sending" => \A i \in polled.todo : polled.rows[i] # NoRow

LEMMA WatchInitInv == WatchInit => WatchInv
BY WatchConstants DEF WatchInit, WatchInv, WatchTypeOK, Nobody, EventType

(* An event says what it is about: a row's end as its end, or as new.      *)
LEMMA EmitTells ==
  ASSUME NEW old, NEW new \in Snapshot
  PROVE  LET ends == {"paused", "completed", "cancelled"}
             event == TypeOf(old, new) IN
         /\ event \in EventType
         /\ event \in ends => event = new.status
         /\ new.status \in ends => event \in {"new", new.status}
BY DEF TypeOf, Snapshot, Statuses, EventType

LEMMA WatchStepInv ==
  ASSUME WatchInv, [WatchNext]_watchVars
  PROVE  WatchInv'
<1>. USE WatchConstants DEF WatchInv, WatchTypeOK
<1>0. Wanted \subseteq Ids
  BY DEF Wanted
<1>1. ASSUME NEW i \in Ids, NEW s \in Snapshot, RowChanges(i, s) PROVE WatchInv'
  BY <1>1 DEF RowChanges, Told, Wanted
<1>2. CASE Subscribe
  BY <1>0, <1>2 DEF Subscribe, Nobody, Wanted
<1>3. CASE Poll
  <2>1. \A i \in Wanted \ polled'.todo : polled'.rows[i] # NoRow => Told(i, polled'.rows[i])
    BY <1>3 DEF Poll, Differs
  <2>. QED BY <1>0, <1>3, <2>1 DEF Poll, Differs, Told, Wanted
<1>4. ASSUME NEW i \in Ids, Emit(i) PROVE WatchInv'
  <2>1. polled.rows[i] \in Snapshot
    BY <1>4 DEF Emit
  <2>2. /\ view' \in [Ids -> [row : Snapshot \cup {NoRow}, event : EventType]]
        /\ \A j \in Ids : j # i => view'[j] = view[j]
        /\ Told(i, polled.rows[i])'
    BY <1>4, <2>1, EmitTells DEF Emit, Told
  <2>3. /\ polled'.rows = polled.rows /\ polled'.todo = polled.todo \ {i}
        /\ polled' \in [rows : [Ids -> Snapshot \cup {NoRow}], todo : SUBSET Ids]
    BY <1>4 DEF Emit
  <2>4. ASSUME NEW j \in Wanted \ polled'.todo, polled.rows[j] # NoRow
        PROVE  Told(j, polled.rows[j])'
    BY <1>0, <1>4, <2>2, <2>3, <2>4 DEF Emit, Told
  <2>. QED BY <1>4, <2>2, <2>3, <2>4 DEF Emit, Told, Wanted
<1>5. CASE Remember
  BY <1>0, <1>5 DEF Remember, Told, Wanted
<1>6. CASE PollFails
  BY <1>6 DEF PollFails, Told, Wanted
<1>7. CASE Break
  BY <1>7 DEF Break, Nobody
<1>8. CASE UNCHANGED watchVars
  BY <1>8 DEF watchVars, Told, Wanted
<1>. QED BY <1>1, <1>2, <1>3, <1>4, <1>5, <1>6, <1>7, <1>8 DEF WatchNext, WatchStep

(* The invariant of a stream, through any breaks and failed queries.       *)
THEOREM WatchInvariant == WatchSpec => []WatchInv
<1>1. WatchInv /\ [WatchNext]_watchVars => WatchInv'
  BY WatchStepInv
<1>. QED BY <1>1, WatchInitInv, PTL DEF WatchSpec

LEMMA NothingSlips == WatchInv => NothingMissed
BY DEF WatchInv, NothingMissed, WatchTypeOK, Differs, Wanted

(* For any number of transfers, writes and breaks: a subscriber has been   *)
(* told every row as it is, or is going to be by what the service holds    *)
(* (handler.go:642-695).                                                   *)
THEOREM NothingIsMissed == WatchSpec => []NothingMissed
<1>. QED BY NothingSlips, WatchInvariant, PTL

-----------------------------------------------------------------------------
(* StreamPeerUpdates and the routing service that listens to it *)

Routed(n) == n \in direct \cup missed

(* Between two ticks the routing service has heard what discovery knows;   *)
(* during one, the part of it that is out already.                         *)
PeerWatchInv ==
  /\ PeerWatchTypeOK
  /\ \A n \in direct : n # Self /\ peers[n] # Unknown
  /\ \A n \in PeerNodes : batch.table[n] # Unknown => peers[n] # Unknown
  /\ feed = "waiting" => \A n \in PeerNodes \ {Self} :
       knownPeers[n] # Unknown => heard[n] = knownPeers[n] /\ Routed(n)
  /\ feed = "sending" =>
       /\ \A n \in PeerNodes \ ({Self} \cup batch.todo) :
            batch.table[n] # Unknown => heard[n] = batch.table[n] /\ Routed(n)
       /\ \A n \in batch.todo : n # Self /\ batch.table[n] # Unknown
  /\ feed = "none" => knownPeers = NoPeers

LEMMA PeerWatchInitInv == PeerWatchInit => PeerWatchInv
BY PeerWatchConstants
DEF PeerWatchInit, PeerWatchInv, PeerWatchTypeOK, Table, NoPeers

LEMMA PeerWatchStepInv ==
  ASSUME PeerWatchInv, [PeerWatchNext]_peerWatchVars
  PROVE  PeerWatchInv'
<1>. USE PeerWatchConstants DEF PeerWatchInv, PeerWatchTypeOK, Table
<1>1. ASSUME NEW n \in PeerNodes, NEW info \in Infos, Announce(n, info) PROVE PeerWatchInv'
  BY <1>1 DEF Announce, Routed
<1>2. ASSUME NEW n \in PeerNodes, RouteUpdate(n) PROVE PeerWatchInv'
  <2>1. /\ batch'.todo = batch.todo \ {n} /\ batch'.table = batch.table
        /\ batch' \in [table : Table, todo : SUBSET PeerNodes]
        /\ n \in batch.todo /\ feed = "sending"
    BY <1>2 DEF RouteUpdate, Received
  <2>2. heard'[n] = batch.table[n] /\ \A m \in PeerNodes : m # n => heard'[m] = heard[m]
    BY <1>2 DEF RouteUpdate, Received
  <2>3. Routed(n)' /\ \A m \in PeerNodes : m # n => Routed(m)' = Routed(m)
    BY <1>2 DEF RouteUpdate, Routed
  <2>4. PeerWatchTypeOK'
    BY <1>2, <2>1 DEF RouteUpdate, Received
  <2>. QED BY <1>2, <2>1, <2>2, <2>3, <2>4 DEF RouteUpdate, Received
<1>3. ASSUME NEW n \in PeerNodes, RouteUpdateFails(n) PROVE PeerWatchInv'
  <2>1. /\ batch'.todo = batch.todo \ {n} /\ batch'.table = batch.table
        /\ batch' \in [table : Table, todo : SUBSET PeerNodes]
        /\ n \in batch.todo /\ feed = "sending"
    BY <1>3 DEF RouteUpdateFails, Received
  <2>2. heard'[n] = batch.table[n] /\ \A m \in PeerNodes : m # n => heard'[m] = heard[m]
    BY <1>3 DEF RouteUpdateFails, Received
  <2>3. Routed(n)' /\ \A m \in PeerNodes : m # n => Routed(m)' = Routed(m)
    BY <1>3 DEF RouteUpdateFails, Routed
  <2>4. PeerWatchTypeOK'
    BY <1>3, <2>1 DEF RouteUpdateFails, Received, Error
  <2>. QED BY <1>3, <2>1, <2>2, <2>3, <2>4 DEF RouteUpdateFails, Received
<1>4. CASE OpenFeed
  BY <1>4 DEF OpenFeed, NoPeers, Routed
<1>5. CASE ListPeers
  BY <1>5 DEF ListPeers, PeerDiffers, Routed
<1>6. CASE KnowPeers
  BY <1>6 DEF KnowPeers, Routed
<1>7. CASE ListFails \/ FeedBreaks
  BY <1>7 DEF ListFails, FeedBreaks, Error, Routed
<1>8. CASE RestartRouting
  BY <1>8 DEF RestartRouting, Error, NoPeers
<1>9. CASE UNCHANGED peerWatchVars
  BY <1>9 DEF peerWatchVars, Routed
<1>. QED
  BY <1>1, <1>2, <1>3, <1>4, <1>5, <1>6, <1>7, <1>8, <1>9 DEF PeerWatchNext, WatchStepPeers

(* The invariant of the feed, through failing statements and restarts of   *)
(* the routing service.                                                    *)
THEOREM PeerWatchInvariant == PeerWatchSpec => []PeerWatchInv
<1>1. PeerWatchInv /\ [PeerWatchNext]_peerWatchVars => PeerWatchInv'
  BY PeerWatchStepInv
<1>. QED BY <1>1, PeerWatchInitInv, PTL DEF PeerWatchSpec

LEMMA NoPeerSlips == PeerWatchInv => NoPeerMissed
BY DEF PeerWatchInv, NoPeerMissed, PeerWatchTypeOK, Table, PeerDiffers, Heard, Routed

(* For any number of peers, announcements and errors: while the stream     *)
(* lives, the routing service has heard each peer's last announcement or   *)
(* discovery still holds it for sending (handler.go:115-175,               *)
(* main.go:174-207).                                                       *)
THEOREM NoPeerIsMissed == PeerWatchSpec => []NoPeerMissed
<1>. QED BY NoPeerSlips, PeerWatchInvariant, PTL

-----------------------------------------------------------------------------
(* Side by side *)

(* All components start as they do on their own.                           *)
LEMMA PlatformStart ==
  ASSUME PlatformInit
  PROVE  /\ Init /\ LimiterInit /\ StoreInit /\ PoolInit /\ MigratorInit /\ WatchInit
         /\ PeerWatchInit /\ RoutingInit
BY DEF PlatformInit

(* A step of the platform is one of each component, or leaves it alone.    *)
LEMMA PlatformStep ==
  ASSUME [PlatformNext]_platformVars
  PROVE  /\ [Next]_breakerVars
         /\ [LimiterNext]_limiterVars
         /\ [StoreNext]_storeVars
         /\ [PoolNext]_poolVars
         /\ [MigratorNext]_migratorVars
         /\ [WatchNext]_watchVars
         /\ [RoutingNext]_routingVars
         /\ [PeerWatchNext]_peerWatchVars
<1>1. CASE UNCHANGED platformVars
  BY <1>1 DEF platformVars
<1>2. CASE PlatformNext
  BY <1>2 DEF PlatformNext, Only
<1>. QED BY <1>1, <1>2

(* The components that owe nothing behave as their own specifications say, *)
(* the others as the safety part of theirs does.                           *)
THEOREM ComponentsBehave ==
  PlatformSpec =>
    /\ LimiterSpec /\ StoreSpec /\ PoolSpec /\ RoutingSpec
    /\ Init /\ [][Next]_breakerVars
    /\ MigratorInit /\ [][MigratorNext]_migratorVars
    /\ WatchInit /\ [][WatchNext]_watchVars
    /\ PeerWatchInit /\ [][PeerWatchNext]_peerWatchVars
<1>. QED
  BY PlatformStart, PlatformStep, PTL
  DEF PlatformSpec, LimiterSpec, StoreSpec, PoolSpec, RoutingSpec

(* The invariants of all components at once.                               *)
PlatformInv ==
  /\ BreakerInv /\ LimiterInv /\ StoreInv /\ PoolInv /\ MigratorInv
  /\ WatchInv /\ WalkInv /\ PeerWatchInv

LEMMA PlatformInitInv == PlatformInit => PlatformInv
BY PlatformStart, BreakerInitInv, LimiterInitInv, StoreInitInv, PoolInitInv, MigratorInitInv,
   WatchInitInv, WalkInit, PeerWatchInitInv
DEF PlatformInv

(* A step keeps the invariant of every component.                          *)
LEMMA PlatformStepInv ==
  ASSUME PlatformInv, [PlatformNext]_platformVars
  PROVE  PlatformInv'
BY PlatformStep, BreakerStepInv, LimiterStepInv, StoreStepInv, PoolStepInv, MigratorStepInv,
   WatchStepInv, WalkStepInv, PeerWatchStepInv
DEF PlatformInv

THEOREM PlatformInvariant == PlatformSpec => []PlatformInv
<1>1. PlatformInv /\ [PlatformNext]_platformVars => PlatformInv'
  BY PlatformStepInv
<1>. QED BY <1>1, PlatformInitInv, PTL DEF PlatformSpec

(* Every component of the run keeps its types, whatever the sizes.         *)
THEOREM PlatformTypesCorrect == PlatformSpec => []PlatformTypeOK
<1>1. PlatformInv => PlatformTypeOK
  BY DEF PlatformInv, PlatformTypeOK, BreakerInv, LimiterInv, StoreInv, PoolInv, MigratorInv,
         WatchInv, WalkInv, PeerWatchInv
<1>. QED BY <1>1, PlatformInvariant, PTL

(* Neither feed loses a change between two of its polls, with the other    *)
(* components at work (transfer handler.go:642-695, discovery              *)
(* handler.go:115-175).                                                    *)
THEOREM FeedsAreComplete == PlatformSpec => []FeedsMissNothing
<1>1. PlatformInv => FeedsMissNothing
  BY NothingSlips, NoPeerSlips DEF PlatformInv, FeedsMissNothing
<1>. QED BY <1>1, PlatformInvariant, PTL

(* What the run of the platform checks of the others, for every value of   *)
(* the constants.                                                          *)
THEOREM PlatformIsSafe ==
  PlatformSpec =>
    /\ [](BoundedBurst /\ WindowBound /\ ConnsAccounted /\ OneBreakerPerNode)
    /\ [](SchemaInOrder /\ AnswersAreRoutes)
<1>1. PlatformInv => BoundedBurst /\ SchemaInOrder
  BY BurstBound DEF PlatformInv, MigratorInv, SchemaInOrder, ServiceInv, RecordedUpTo
<1>. QED
  BY <1>1, ComponentsBehave, PlatformInvariant, WindowsAreBounded, ConnsAreAccounted,
     BreakersAreShared, RoutesAreSound, PTL

(* The three refinements hold of the platform as well.                     *)
THEOREM PlatformImplements ==
  PlatformSpec => FollowsPolicy /\ LimiterIsTokenBucket /\ FilesAreChunkMap
<1>1. PlatformInit => Policy!Init
  BY PlatformStart DEF Init, Policy!Init
<1>2. BreakerInv /\ [Next]_breakerVars => [Policy!Next]_(Policy!policyVars)
  BY PolicyStep
<1>3. PlatformInv => BreakerInv
  BY DEF PlatformInv
<1>4. PlatformSpec => FollowsPolicy
  BY <1>1, <1>2, <1>3, ComponentsBehave, PlatformInvariant, PTL
  DEF PlatformSpec, FollowsPolicy, Policy!Spec
<1>. QED
  BY <1>4, ComponentsBehave, LimiterImplementsBucket, FilesImplementChunkMap, PTL
=============================================================================
