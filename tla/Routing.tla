------------------------------ MODULE Routing -------------------------------
(***************************************************************************)
(* The routing service: a FindRoute call that walks the route table hop by *)
(* hop, one query for each, while UpdateRouteTable changes it.  The target *)
(* is fixed and the table keeps the next hop towards it; of the routes to  *)
(* other targets only the next hops matter that the source has for them,   *)
(* since those are the nodes FindRoute asks the anomaly detector about.    *)
(***************************************************************************)
EXTENDS Naturals, Sequences

CONSTANTS
  RouteNodes,   \* nodes with a route table
  Target,       \* target_node_id
  Neighbours,   \* next hops of the source's routes to other targets
  MaxHops,      \* max_hops, 5 unless the request says otherwise
  MaxUpdates,   \* entries written while the call runs (bound)
  NoHop         \* no entry

ASSUME RoutingConstants ==
  /\ Target \in RouteNodes
  /\ Neighbours \subseteq RouteNodes
  /\ MaxHops \in Nat \ {0}
  /\ MaxUpdates \in Nat
  /\ NoHop \notin RouteNodes

VARIABLES
  table,      \* table routes: next_hop_id towards Target
  anomalous,  \* nodes the detector finds anomalous
  walk,       \* the call: its request, exclusions, hops so far
  updates,    \* entries written so far
  disturbed   \* history: an entry changed or a query failed during the call

Others == RouteNodes \ {Target}

routingVars == <<table, anomalous, walk, updates, disturbed>>

RoutingTypeOK ==
  /\ table \in [Others -> RouteNodes \cup {NoHop}]
  /\ anomalous \subseteq RouteNodes
  /\ walk \in [phase : {"idle", "direct", "exclude", "walking", "answered", "failed"},
               source : Others, asked : SUBSET RouteNodes,
               excluded : SUBSET RouteNodes, direct : BOOLEAN,
               hops : Seq(RouteNodes)]
  /\ updates \in 0..MaxUpdates
  /\ disturbed \in BOOLEAN

RoutingInit ==
  /\ table \in [Others -> RouteNodes \cup {NoHop}]
  /\ anomalous \in SUBSET RouteNodes
  /\ walk \in [phase : {"idle"}, source : Others, asked : SUBSET RouteNodes,
               excluded : {{}}, direct : {FALSE}, hops : {<<>>}]
  /\ updates = 0
  /\ disturbed = FALSE

-----------------------------------------------------------------------------

(* UpsertRoute, for one entry of an UpdateRouteTable. *)
UpsertRoute(n, hop) ==
  /\ updates < MaxUpdates
  /\ table' = [table EXCEPT ![n] = hop]
  /\ updates' = updates + 1
  /\ disturbed' = (disturbed \/ walk.phase # "idle")
  /\ UNCHANGED <<anomalous, walk>>

BeginFind ==
  /\ walk.phase = "idle"
  /\ walk' = [walk EXCEPT !.phase = "direct", !.excluded = walk.asked]
  /\ UNCHANGED <<table, anomalous, updates, disturbed>>

(* The direct entry, looked up first. *)
LookUpDirect ==
  /\ walk.phase = "direct"
  /\ walk' = [walk EXCEPT !.phase = "exclude",
                          !.direct = (table[walk.source] = Target)]
  /\ UNCHANGED <<table, anomalous, updates, disturbed>>

LookUpFails ==
  /\ walk.phase = "direct"
  /\ walk' = [walk EXCEPT !.phase = "failed"]
  /\ UNCHANGED <<table, anomalous, updates, disturbed>>

(* Anomalous nodes are excluded as well, if the source knows them as a     *)
(* next hop.  An error of this query is dropped.                           *)
ExcludeAnomalous ==
  /\ walk.phase = "exclude"
  /\ \/ /\ walk' = [walk EXCEPT !.phase = "walking",
                      !.excluded = @ \cup (anomalous \cap (Neighbours \cup {table[walk.source]}))]
        /\ UNCHANGED disturbed
     \/ /\ walk' = [walk EXCEPT !.phase = "walking"]
        /\ disturbed' = TRUE
  /\ UNCHANGED <<table, anomalous, updates>>

Current == IF walk.hops = <<>> THEN walk.source ELSE walk.hops[Len(walk.hops)]

Hop_SkipsExcluded ==
  /\ walk.phase = "walking"
  /\ LET next == table[Current] IN
     walk' = IF next = NoHop
             THEN [walk EXCEPT !.phase = "answered"]
             ELSE [walk EXCEPT !.hops = Append(@, next),
                               !.phase = IF next = Target \/ Len(walk.hops) + 1 = MaxHops
                                         THEN "answered" ELSE "walking"]
  /\ UNCHANGED <<table, anomalous, updates, disturbed>>

(* One query of the walk.  It stops at an excluded hop, at the target,     *)
(* after MaxHops hops, and where the table has no entry.                   *)
Hop ==
  /\ walk.phase = "walking"
  /\ LET next == table[Current] IN
     walk' = IF next = NoHop \/ next \in walk.excluded
             THEN [walk EXCEPT !.phase = "answered"]
             ELSE [walk EXCEPT !.hops = Append(@, next),
                               !.phase = IF next = Target \/ Len(walk.hops) + 1 = MaxHops
                                         THEN "answered" ELSE "walking"]
  /\ UNCHANGED <<table, anomalous, updates, disturbed>>

(* A failed query ends the walk like a missing entry, without an error. *)
HopFails ==
  /\ walk.phase = "walking"
  /\ walk' = [walk EXCEPT !.phase = "answered"]
  /\ disturbed' = TRUE
  /\ UNCHANGED <<table, anomalous, updates>>

RoutingNext ==
  \/ \E n \in Others, hop \in RouteNodes : UpsertRoute(n, hop)
  \/ BeginFind \/ LookUpDirect \/ LookUpFails
  \/ ExcludeAnomalous
  \/ Hop \/ HopFails

RoutingSpec == RoutingInit /\ [][RoutingNext]_routingVars

-----------------------------------------------------------------------------
(* Properties *)

(* A route by the table: what a caller may take an answer for. *)
IsRoute(hops) ==
  /\ Len(hops) <= MaxHops
  /\ \A k \in 1..Len(hops) :
       /\ hops[k] = table[IF k = 1 THEN walk.source ELSE hops[k - 1]]
       /\ hops[k] \notin walk.asked
       /\ ~(hops[k] \in anomalous \cap (Neighbours \cup {table[walk.source]}))
       /\ k < Len(hops) => hops[k] # Target

(* What Relay takes for granted holds whatever changes during the walk: no *)
(* excluded node is in an answer and the target only at its end, within    *)
(* MaxHops.  If nothing changed, the answer is a route by the table that   *)
(* no further hop would prolong, and direct_possible tells the truth       *)
(* (handler.go:56-126).                                                    *)
AnswersAreRoutes ==
  walk.phase = "answered" =>
    /\ Len(walk.hops) <= MaxHops
    /\ \A k \in 1..Len(walk.hops) :
         /\ walk.hops[k] \notin walk.asked
         /\ k < Len(walk.hops) => walk.hops[k] # Target
    /\ ~disturbed =>
         /\ IsRoute(walk.hops)
         /\ Current # Target => \A n \in RouteNodes : ~IsRoute(Append(walk.hops, n))
         /\ walk.direct /\ Target \notin walk.excluded => walk.hops = <<Target>>
=============================================================================
