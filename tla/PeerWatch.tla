----------------------------- MODULE PeerWatch ------------------------------
(***************************************************************************)
(* Discovery's table of peers, its StreamPeerUpdates, and the goroutine of *)
(* the routing service that turns the updates into direct routes.          *)
(* Discovery asks its table every five seconds and sends what differs from *)
(* the time before.  No peer is ever deleted, so none is seen to leave.    *)
(* The goroutine opens one stream, without an authorization header, and    *)
(* returns at the first error.                                             *)
(***************************************************************************)
EXTENDS Naturals

CONSTANTS
  PeerNodes,        \* nodes that announce themselves
  Self,             \* the routing service's own node id
  Infos,            \* what a peer may announce: addresses and key
  Intercepted,      \* discovery's stream interceptor asks for a token (cmd/discovery does)
  MaxAnnouncements, \* announcements (bound)
  MaxErrors,        \* failing statements and broken streams (bound)
  Unknown           \* no such peer

ASSUME PeerWatchConstants ==
  /\ Unknown \notin Infos
  /\ Intercepted \in BOOLEAN
  /\ MaxAnnouncements \in Nat /\ MaxErrors \in Nat

VARIABLES
  peers,     \* table peers
  feed,      \* the stream: "none", "waiting", "sending", "ended"
  knownPeers,\* known: the table at the last tick
  batch,     \* the table at this tick, and the updates still to send
  heard,     \* what the routing service was sent last of each peer
  direct,    \* nodes with a direct route in the routing service
  missed,    \* history: nodes whose route could not be written
  counts     \* announcements and errors so far

peerWatchVars == <<peers, feed, knownPeers, batch, heard, direct, missed, counts>>

Table == [PeerNodes -> Infos \cup {Unknown}]
NoPeers == [n \in PeerNodes |-> Unknown]

PeerWatchTypeOK ==
  /\ peers \in Table
  /\ feed \in {"none", "waiting", "sending", "ended"}
  /\ knownPeers \in Table
  /\ batch \in [table : Table, todo : SUBSET PeerNodes]
  /\ heard \in Table
  /\ direct \subseteq PeerNodes
  /\ missed \subseteq PeerNodes
  /\ counts \in [announcements : 0..MaxAnnouncements, errors : 0..MaxErrors]

PeerWatchInit ==
  /\ peers = NoPeers
  /\ feed = "none"
  /\ knownPeers = NoPeers
  /\ batch = [table |-> NoPeers, todo |-> {}]
  /\ heard = NoPeers
  /\ direct = {}
  /\ missed = {}
  /\ counts = [announcements |-> 0, errors |-> 0]

-----------------------------------------------------------------------------
(* Discovery *)

(* AnnounceNode, its signature verified. *)
Announce(n, info) ==
  /\ counts.announcements < MaxAnnouncements
  /\ counts' = [counts EXCEPT !.announcements = @ + 1]
  /\ peers' = [peers EXCEPT ![n] = info]
  /\ UNCHANGED <<feed, knownPeers, batch, heard, direct, missed>>

Error ==
  /\ counts.errors < MaxErrors
  /\ counts' = [counts EXCEPT !.errors = @ + 1]

(* Joined, or not peerEqual. *)
PeerDiffers(n) == n # Self /\ peers[n] # Unknown /\ peers[n] # knownPeers[n]

ListPeers ==
  /\ feed = "waiting"
  /\ batch' = [table |-> peers, todo |-> {n \in PeerNodes : PeerDiffers(n)}]
  /\ feed' = "sending"
  /\ UNCHANGED <<peers, knownPeers, heard, direct, missed, counts>>

ListFails ==
  /\ feed = "waiting"
  /\ Error
  /\ UNCHANGED <<peers, feed, knownPeers, batch, heard, direct, missed>>

KnowPeers ==
  /\ feed = "sending"
  /\ batch.todo = {}
  /\ knownPeers' = batch.table
  /\ feed' = "waiting"
  /\ UNCHANGED <<peers, batch, heard, direct, missed, counts>>

-----------------------------------------------------------------------------
(* watchPeerUpdates *)

(* The first Recv tells whether discovery has accepted the stream. *)
OpenFeed ==
  /\ feed = "none"
  /\ feed' = IF Intercepted THEN "ended" ELSE "waiting"
  /\ UNCHANGED <<peers, knownPeers, batch, heard, direct, missed, counts>>

Received(n) ==
  /\ feed = "sending"
  /\ n \in batch.todo
  /\ batch' = [batch EXCEPT !.todo = @ \ {n}]
  /\ heard' = [heard EXCEPT ![n] = batch.table[n]]
  /\ UNCHANGED <<peers, feed, knownPeers>>

RouteUpdate(n) ==
  /\ Received(n)
  /\ direct' = direct \cup {n}
  /\ missed' = missed \ {n}
  /\ UNCHANGED counts

(* The error of UpdateRouteTable is dropped. *)
RouteUpdateFails(n) ==
  /\ Received(n)
  /\ Error
  /\ missed' = missed \cup {n}
  /\ UNCHANGED direct

(* Recv fails: the goroutine returns. *)
FeedBreaks ==
  /\ feed \in {"waiting", "sending"}
  /\ Error
  /\ feed' = "ended"
  /\ UNCHANGED <<peers, knownPeers, batch, heard, direct, missed>>

(* The routing service is restarted and opens a new stream. *)
RestartRouting ==
  /\ feed \in {"waiting", "sending", "ended"}
  /\ Error
  /\ feed' = "none"
  /\ knownPeers' = NoPeers
  /\ batch' = [table |-> NoPeers, todo |-> {}]
  /\ UNCHANGED <<peers, heard, direct, missed>>

WatchStepPeers ==
  OpenFeed \/ ListPeers \/ KnowPeers \/ \E n \in PeerNodes : RouteUpdate(n)

PeerWatchNext ==
  \/ \E n \in PeerNodes : (\E info \in Infos : Announce(n, info)) \/ RouteUpdateFails(n)
  \/ WatchStepPeers
  \/ ListFails \/ FeedBreaks \/ RestartRouting

(* Discovery's ticker ticks and the goroutine runs.  Nobody starts the     *)
(* goroutine again, and nobody has to announce anything.                   *)
PeerWatchSpec ==
  PeerWatchInit /\ [][PeerWatchNext]_peerWatchVars /\ WF_peerWatchVars(WatchStepPeers)

-----------------------------------------------------------------------------
(* Properties *)

(* The routing service was sent n as it is now, and has a direct route to  *)
(* n unless it failed to write one.                                        *)
Heard(n) == heard[n] = peers[n] /\ n \in direct \cup missed

(* No announcement slips through between two ticks, or between a query and *)
(* the updates that follow it: while the stream lives, every other peer is *)
(* heard as it announced itself last, or is about to be by the tick under  *)
(* way, or differs at the next.  Nobody has a direct route who never       *)
(* announced itself (handler.go:115-175, main.go:174-207).  This is about  *)
(* the mechanism: behind cmd/discovery's own interceptor no stream lives.  *)
NoPeerMissed ==
  /\ \A n \in direct : n # Self /\ peers[n] # Unknown
  /\ feed \in {"waiting", "sending"} => \A n \in PeerNodes \ {Self} : peers[n] # Unknown =>
       \/ Heard(n)
       \/ feed = "sending" /\ (n \in batch.todo \/ batch.table[n] # peers[n])
       \/ feed = "waiting" /\ PeerDiffers(n)

(* "Subscribe to discovery peer updates to auto-populate routing table."   *)
(* (cmd/routing/main.go:124)                                               *)
PeersBecomeRoutes ==
  \A n \in PeerNodes \ {Self} : peers[n] # Unknown ~> n \in direct
=============================================================================
