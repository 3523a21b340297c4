----------------------------- MODULE MCPlatform -----------------------------
(***************************************************************************)
(* The components that the services share, or that stand alone in one of   *)
(* them, side by side for TLC: a behaviour is one of one component, chosen *)
(* at the start, while the others rest in their initial states.  The state *)
(* space is the sum of theirs, not the product.                            *)
(***************************************************************************)
EXTENDS CircuitBreaker, PeerPool, RateLimiter, FileStore, Migrator, TransferWatch, Routing,
        PeerWatch

CONSTANT Parts   \* the components this run takes

VARIABLE part

platformVars == <<part, breakerVars, poolVars, limiterVars, storeVars, migratorVars,
                  watchVars, routingVars, peerWatchVars>>

PlatformInit ==
  /\ part \in Parts
  /\ Init /\ LimiterInit /\ StoreInit /\ PoolInit /\ MigratorInit /\ WatchInit /\ PeerWatchInit
  /\ RoutingInit
  /\ \/ part = "routing"
     \/ /\ table = [n \in Others |-> NoHop]
        /\ anomalous = {}
        /\ walk.source = CHOOSE n \in Others : TRUE
        /\ walk.asked = {}

(* Everything but p stays. *)
Only(p) ==
  /\ part = p
  /\ UNCHANGED part
  /\ IF p = "breaker" THEN TRUE ELSE UNCHANGED breakerVars
  /\ IF p = "limiter" THEN TRUE ELSE UNCHANGED limiterVars
  /\ IF p = "store" THEN TRUE ELSE UNCHANGED storeVars
  /\ IF p = "pool" THEN TRUE ELSE UNCHANGED poolVars
  /\ IF p = "migrator" THEN TRUE ELSE UNCHANGED migratorVars
  /\ IF p = "watch" THEN TRUE ELSE UNCHANGED watchVars
  /\ IF p = "routing" THEN TRUE ELSE UNCHANGED routingVars
  /\ IF p = "peers" THEN TRUE ELSE UNCHANGED peerWatchVars

PlatformNext ==
  \/ Only("breaker") /\ Next
  \/ Only("limiter") /\ LimiterNext
  \/ Only("store") /\ StoreNext
  \/ Only("pool") /\ PoolNext
  \/ Only("migrator") /\ MigratorNext
  \/ Only("watch") /\ WatchNext
  \/ Only("routing") /\ RoutingNext
  \/ Only("peers") /\ PeerWatchNext

(* Each component under the fairness of its own specification. *)
PlatformSpec ==
  /\ PlatformInit /\ [][PlatformNext]_platformVars
  /\ WF_platformVars(Only("breaker") /\ Tick)
  /\ \A s \in Services : WF_platformVars(Only("migrator") /\ MigratorStep(s))
  /\ WF_platformVars(Only("watch") /\ WatchStep)
  /\ WF_platformVars(Only("peers") /\ WatchStepPeers)

(* The types of all components. *)
PlatformTypeOK ==
  /\ BreakerTypeOK /\ LimiterTypeOK /\ StoreTypeOK /\ PoolTypeOK /\ MigratorTypeOK
  /\ WatchTypeOK /\ RoutingTypeOK /\ PeerWatchTypeOK

(* Both feeds that poll a table: nothing that happens between two polls is *)
(* lost (TransferWatch, PeerWatch).                                        *)
FeedsMissNothing == NothingMissed /\ NoPeerMissed
=============================================================================
