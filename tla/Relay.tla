------------------------------- MODULE Relay -------------------------------
(***************************************************************************)
(* One chunk on its way over relay nodes.  SendChunk calls the first hop,  *)
(* a RelayChunk handler calls the next hop before it answers, and so on:   *)
(* the handlers that wait for each other form a stack, one frame for each. *)
(* When a connection breaks, the caller gets an error and goes on, and the *)
(* handlers above the break go on without it, as a stack of their own.     *)
(* A forward that fails is rerouted once and then stored where it is.      *)
(*                                                                         *)
(* No call of this code carries a token.  As cmd/transfer and cmd/routing  *)
(* start the servers, an interceptor rejects every RelayChunk and every    *)
(* FindRoute without one: this is the module with guarded = TRUE.  With    *)
(* guarded = FALSE it is the relay packages without the interceptor.       *)
(***************************************************************************)
EXTENDS Naturals, Sequences, FiniteSets

CONSTANTS
  Nodes,        \* relay nodes
  MaxRoute,     \* hops a route has at most (bound)
  Replicas,     \* replication_factor of the transfer
  Strays,       \* stacks that may run besides the sender's (bound)
  Main,         \* the sender's stack
  Failed        \* an RPC error, as an answer

ASSUME RelayConstants ==
  /\ MaxRoute \in Nat \ {0}
  /\ Replicas \in Nat \ {0}
  /\ Main \notin Strays
  /\ Failed \notin [ok : BOOLEAN, node : Nodes]
  /\ IsFiniteSet(Strays)

VARIABLES
  guarded,  \* the auth interceptor stands before RelayChunk and FindRoute
  sender,   \* what the first caller knows: nothing sent, waiting, or the answer
  dest,     \* history: the last hop of the route the first caller has
  stack,    \* handlers that run: stack[t][Len] is at work, the others wait
  store,    \* nodes that have the chunk on disk
  trouble   \* history: a call, a save or a connection has failed

relayVars == <<guarded, sender, dest, stack, store, trouble>>

-----------------------------------------------------------------------------

Threads == Strays \cup {Main}

(* RelayChunkResponse: success, and the node that stored the chunk. *)
Answer == [ok : BOOLEAN, node : Nodes]

Routes == UNION {[1..n -> Nodes] : n \in 0..MaxRoute}
FullRoutes == Routes \ {<<>>}
FinalHop(hops) == hops[Len(hops)]

Frame == [node : Nodes, hops : Routes, ttl : 0..(MaxRoute + 2), copies : 1..Replicas,
          phase : {"arrived", "calling", "reroute", "rerouted", "recalling",
                   "fallback", "answering"},
          answer : Answer \cup {Failed}]

RelayTypeOK ==
  /\ guarded \in BOOLEAN
  /\ sender \in [phase : {"ready", "waiting", "answered"}, answer : Answer \cup {Failed}]
  /\ dest \in Nodes
  /\ stack \in [Threads -> Seq(Frame)]
  /\ store \subseteq Nodes
  /\ trouble \in BOOLEAN

Init ==
  /\ guarded \in BOOLEAN
  /\ sender = [phase |-> "ready", answer |-> Failed]
  /\ dest \in Nodes
  /\ stack = [t \in Threads |-> <<>>]
  /\ store = {}
  /\ trouble = FALSE

(* A RelayChunkRequest as it reaches its node. *)
Request(n, hops, ttl, copies) ==
  [node |-> n, hops |-> hops, ttl |-> ttl, copies |-> copies,
   phase |-> "arrived", answer |-> Failed]

Running(t) == stack[t] # <<>>
Top(t) == stack[t][Len(stack[t])]
At(t, phase) == Running(t) /\ Top(t).phase = phase
WithTop(t, f) == [stack[t] EXCEPT ![Len(stack[t])] = f]

(* No hops left, or this node is the only one left. *)
IsFinal(f) == f.hops = <<>> \/ f.hops = <<f.node>>

-----------------------------------------------------------------------------
(* InitiateTransfer and SendChunk: the whole route goes to its first hop. *)

Send(route) ==
  /\ ~guarded
  /\ sender.phase = "ready"
  /\ dest = FinalHop(route)
  /\ sender' = [sender EXCEPT !.phase = "waiting"]
  /\ stack' = [stack EXCEPT ![Main] = <<Request(route[1], route, Len(route) + 2, Replicas)>>]
  /\ UNCHANGED <<guarded, dest, store, trouble>>

(* The breaker of the first hop is open, or there is no connection to it. *)
SendFails(route) ==
  /\ ~guarded
  /\ sender.phase = "ready"
  /\ dest = FinalHop(route)
  /\ sender' = [phase |-> "answered", answer |-> Failed]
  /\ trouble' = TRUE
  /\ UNCHANGED <<guarded, dest, stack, store>>

(* The lookup of the route is rejected, and InitiateTransfer goes on       *)
(* without one: SendChunk finds no hops and calls no relay.                *)
SendAlone ==
  /\ guarded
  /\ sender.phase = "ready"
  /\ sender' = [phase |-> "answered", answer |-> Failed]
  /\ UNCHANGED <<guarded, dest, stack, store, trouble>>

(* Behind the interceptor RelayChunk serves callers that have a token.     *)
(* Nothing in the repository is one, so the request may be any.            *)
Submit(n, hops, ttl, copies) ==
  /\ guarded
  /\ sender.phase = "ready"
  /\ dest = IF hops = <<>> THEN n ELSE FinalHop(hops)
  /\ sender' = [sender EXCEPT !.phase = "waiting"]
  /\ stack' = [stack EXCEPT ![Main] = <<Request(n, hops, ttl, copies)>>]
  /\ UNCHANGED <<guarded, dest, store, trouble>>

-----------------------------------------------------------------------------
(* RelayChunk *)

(* A handler that will forward no more forgets the hops. *)
Replying(t, a) ==
  WithTop(t, [Top(t) EXCEPT !.phase = "answering", !.hops = <<>>, !.answer = a])
Reply(t, a) == stack' = [stack EXCEPT ![t] = Replying(t, a)]
GoTo(t, f) == stack' = [stack EXCEPT ![t] = WithTop(t, f)]
FallBack(t) == GoTo(t, [Top(t) EXCEPT !.phase = "fallback", !.hops = <<>>])

Expire(t) ==
  /\ At(t, "arrived") /\ Top(t).ttl = 0
  /\ Reply(t, Failed)
  /\ UNCHANGED <<guarded, sender, dest, store, trouble>>

(* ReplicateChunk's request: no hops, so the peer stores it, and a         *)
(* replication_factor of 1, so that it does not replicate it again.        *)
Replica(n) == Request(n, <<>>, 1, 1)

(* The end of the route: save, and start the goroutine that calls up to    *)
(* replication_factor - 1 other peers, each on a stack of its own; a call  *)
(* that fails or is rejected is logged only, and as good as never made.    *)
Store(t) ==
  LET f == Top(t) IN
  /\ At(t, "arrived") /\ f.ttl > 0 /\ IsFinal(f)
  /\ store' = store \cup {f.node}
  /\ \E used \in SUBSET {u \in Strays : ~Running(u)} : \E peer \in [used -> Nodes \ {f.node}] :
       /\ Cardinality(used) < f.copies
       /\ guarded => used = {}
       /\ \A u, v \in used : peer[u] = peer[v] => u = v
       /\ stack' = [u \in Threads |->
            IF u = t THEN Replying(t, [ok |-> TRUE, node |-> f.node])
            ELSE IF u \in used THEN <<Replica(peer[u])>> ELSE stack[u]]
  /\ UNCHANGED <<guarded, sender, dest, trouble>>

StoreFails(t) ==
  /\ At(t, "arrived") /\ Top(t).ttl > 0 /\ IsFinal(Top(t))
  /\ Reply(t, Failed)
  /\ trouble' = TRUE
  /\ UNCHANGED <<guarded, sender, dest, store>>

(* The handler waits for the call of its next hop, the first or the second. *)
Waiting(f, phase) ==
  [f EXCEPT !.phase = phase, !.hops = IF phase = "calling" THEN @ ELSE <<>>]

Call_KeepsTtl(t, phase) ==
  LET f == Top(t) IN
  /\ ~guarded
  /\ stack' = [stack EXCEPT ![t] = Append(WithTop(t, Waiting(f, phase)),
                                          Request(f.hops[1], Tail(f.hops), f.ttl, f.copies))]

(* ForwardChunk sends no token, so no interceptor lets the call arrive. *)
Call(t, phase) ==
  LET f == Top(t) IN
  /\ ~guarded
  /\ stack' = [stack EXCEPT ![t] = Append(WithTop(t, Waiting(f, phase)),
                                          Request(f.hops[1], Tail(f.hops), f.ttl - 1, f.copies))]

Forward_WhateverTtl(t) ==
  /\ At(t, "arrived") /\ ~IsFinal(Top(t))
  /\ Call(t, "calling")
  /\ UNCHANGED <<guarded, sender, dest, store, trouble>>

Forward_KeepingACopy(t) ==
  /\ At(t, "arrived") /\ Top(t).ttl > 0 /\ ~IsFinal(Top(t))
  /\ store' = store \cup {Top(t).node}
  /\ Call(t, "calling")
  /\ UNCHANGED <<guarded, sender, dest, trouble>>

(* The first hop of a route finds itself at its head and calls itself. *)
Forward(t) ==
  /\ At(t, "arrived") /\ Top(t).ttl > 0 /\ ~IsFinal(Top(t))
  /\ Call(t, "calling")
  /\ UNCHANGED <<guarded, sender, dest, store, trouble>>

(* The breaker is open, or there is no address or no connection. *)
ForwardFails(t) ==
  /\ At(t, "arrived") /\ Top(t).ttl > 0 /\ ~IsFinal(Top(t))
  /\ GoTo(t, [Top(t) EXCEPT !.phase = "reroute"])
  /\ trouble' = TRUE
  /\ UNCHANGED <<guarded, sender, dest, store>>

ForwardRejected(t) ==
  /\ At(t, "arrived") /\ Top(t).ttl > 0 /\ ~IsFinal(Top(t))
  /\ guarded
  /\ GoTo(t, [Top(t) EXCEPT !.phase = "reroute"])
  /\ UNCHANGED <<guarded, sender, dest, store, trouble>>

(* FindAlternativeRoute to the last hop without the next one: FindRoute's  *)
(* walk ends at the target, but it may also end before it or pass a node   *)
(* twice.  The ttl is not renewed.  The rerouter sends no token either.    *)
Reroute(t) ==
  LET f == Top(t) IN
  /\ At(t, "reroute") /\ ~guarded
  /\ \E hops \in FullRoutes :
       /\ \A i \in 1..Len(hops) : hops[i] # f.hops[1]
       /\ \A i \in 1..(Len(hops) - 1) : hops[i] # FinalHop(f.hops)
       /\ GoTo(t, [f EXCEPT !.phase = "rerouted", !.hops = hops])
  /\ UNCHANGED <<guarded, sender, dest, store, trouble>>

NoRoute(t) ==
  /\ At(t, "reroute")
  /\ FallBack(t)
  /\ UNCHANGED <<guarded, sender, dest, store, trouble>>

ForwardAgain(t) ==
  /\ At(t, "rerouted")
  /\ Call(t, "recalling")
  /\ UNCHANGED <<guarded, sender, dest, store, trouble>>

ForwardAgainFails_Retries(t) ==
  /\ At(t, "rerouted")
  /\ GoTo(t, [Top(t) EXCEPT !.phase = "reroute"])
  /\ trouble' = TRUE
  /\ UNCHANGED <<guarded, sender, dest, store>>

ForwardAgainFails(t) ==
  /\ At(t, "rerouted")
  /\ FallBack(t)
  /\ trouble' = TRUE
  /\ UNCHANGED <<guarded, sender, dest, store>>

Keep_IgnoringErrors(t) ==
  /\ At(t, "fallback")
  /\ \/ store' = store \cup {Top(t).node}
     \/ UNCHANGED store
  /\ Reply(t, [ok |-> FALSE, node |-> Top(t).node])
  /\ UNCHANGED <<guarded, sender, dest, trouble>>

(* Stored here after the failure, and not replicated. *)
Keep(t) ==
  /\ At(t, "fallback")
  /\ store' = store \cup {Top(t).node}
  /\ Reply(t, [ok |-> FALSE, node |-> Top(t).node])
  /\ UNCHANGED <<guarded, sender, dest, trouble>>

KeepFails(t) ==
  /\ At(t, "fallback")
  /\ Reply(t, Failed)
  /\ trouble' = TRUE
  /\ UNCHANGED <<guarded, sender, dest, store>>

-----------------------------------------------------------------------------
(* Answers *)

(* What a waiting handler does with an answer: pass it on, or after an     *)
(* error try the next thing.                                               *)
Resume(f, a) ==
  IF a = Failed /\ f.phase = "calling" THEN [f EXCEPT !.phase = "reroute"]
  ELSE [f EXCEPT !.phase = IF a = Failed THEN "fallback" ELSE "answering",
                 !.hops = <<>>, !.answer = a]

(* The stack below its frame n + 1, whose caller gets the answer a. *)
Below(s, n, a) ==
  IF n = 0 THEN <<>> ELSE [i \in 1..n |-> IF i = n THEN Resume(s[n], a) ELSE s[i]]

Return(t) ==
  LET n == Len(stack[t]) - 1 IN
  /\ At(t, "answering")
  /\ stack' = [stack EXCEPT ![t] = Below(@, n, Top(t).answer)]
  /\ sender' = IF n = 0 /\ t = Main THEN [phase |-> "answered", answer |-> Top(t).answer]
               ELSE sender
  /\ UNCHANGED <<guarded, dest, store, trouble>>

-----------------------------------------------------------------------------
(* The network and the processes *)

(* The connection to the handler n + 1 breaks, or its process dies: the    *)
(* caller gets an error, and the handlers above it go on by themselves.    *)
Break(t, u, n) ==
  /\ n < Len(stack[t])
  /\ t = Main \/ n > 0
  /\ u \in Strays /\ ~Running(u)
  /\ stack' = [stack EXCEPT ![t] = Below(@, n, Failed),
                            ![u] = SubSeq(stack[t], n + 1, Len(stack[t]))]
  /\ sender' = IF n = 0 THEN [phase |-> "answered", answer |-> Failed] ELSE sender
  /\ trouble' = TRUE
  /\ UNCHANGED <<guarded, dest, store>>

(* The process of a handler nobody waits for dies. *)
Die(u) ==
  /\ u \in Strays /\ Running(u)
  /\ stack' = [stack EXCEPT ![u] = Tail(@)]
  /\ trouble' = TRUE
  /\ UNCHANGED <<guarded, sender, dest, store>>

-----------------------------------------------------------------------------

Handle(t) ==
  \/ Expire(t) \/ Store(t) \/ StoreFails(t)
  \/ Forward(t) \/ ForwardFails(t) \/ ForwardRejected(t)
  \/ Reroute(t) \/ NoRoute(t)
  \/ ForwardAgain(t) \/ ForwardAgainFails(t)
  \/ Keep(t) \/ KeepFails(t)
  \/ Return(t)

Next ==
  \/ \E route \in FullRoutes : Send(route) \/ SendFails(route)
  \/ SendAlone
  \/ \E n \in Nodes, hops \in Routes, ttl \in 0..(MaxRoute + 2), copies \in 1..Replicas :
       Submit(n, hops, ttl, copies)
  \/ \E t \in Threads : Handle(t)
  \/ \E t \in Threads, u \in Strays, n \in 0..(MaxRoute + 2) : Break(t, u, n)
  \/ \E u \in Strays : Die(u)

Spec == Init /\ [][Next]_relayVars

-----------------------------------------------------------------------------
(* Properties *)

(* "Final fallback: store locally so data isn't lost": an answer that is   *)
(* no error names a node that has the chunk, at the sender and at every    *)
(* handler it passes, whatever forwards, saves and connections failed.     *)
AnswersHeld ==
  /\ sender.answer # Failed => sender.answer.node \in store
  /\ \A t \in Threads : \A i \in 1..Len(stack[t]) :
       stack[t][i].phase = "answering" /\ stack[t][i].answer # Failed =>
         stack[t][i].answer.node \in store

(* As long as nothing fails, no more than replication_factor nodes get the *)
(* chunk: replicas do not replicate.                                       *)
CopiesBounded == ~trouble => Cardinality(store) <= Replicas

(* "TTL decrements at each hop, preventing infinite relay loops": however  *)
(* often a chunk is rerouted and whatever loops the routes have, no more   *)
(* handlers wait for each other than the first ttl allows.                 *)
DepthBounded == \A t \in Threads : Len(stack[t]) <= MaxRoute + 3

Stage == [arrived |-> 1, calling |-> 2, reroute |-> 3, rerouted |-> 4, recalling |-> 5,
          fallback |-> 6, answering |-> 7]

(* A handler never tries again what it has done: it forwards, reroutes,   *)
(* forwards once more and keeps the chunk, in this order, however answers, *)
(* errors and broken connections reach it.  With DepthBounded this ends    *)
(* every relaying.                                                         *)
NoStepBack ==
  [][\A t \in Threads : ~Die(t) =>
       \A i \in 1..Len(stack[t]) : i <= Len(stack'[t]) =>
         Stage[stack[t][i].phase] <= Stage[stack'[t][i].phase]]_relayVars

-----------------------------------------------------------------------------

(* "Chunks traverse relay nodes hop-by-hop to the destination": as long as *)
(* no call, save or connection fails, the answer is a success from the     *)
(* last hop of the route.                                                  *)
CleanRouteDelivers ==
  ~trouble /\ sender.phase = "answered" => sender.answer = [ok |-> TRUE, node |-> dest]
=============================================================================
