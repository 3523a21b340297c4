---------------------------- MODULE RelayProofs ----------------------------
(***************************************************************************)
(* Proofs, for any nodes, any length of routes and any number of strays,   *)
(* of the properties of one chunk's way over the relays.                   *)
(***************************************************************************)
EXTENDS Relay, SequenceTheorems, FiniteSetTheorems, TLAPS

(* A handler that may still call has somewhere to call and a ttl for it,   *)
(* and the answer it gives is backed by one of the nodes in held.          *)
SoundFrame(f, held) ==
  /\ f.phase \in {"calling", "reroute", "rerouted"} => f.hops # <<>>
  /\ f.phase \notin {"arrived", "answering"} => f.ttl > 0
  /\ f.phase = "answering" /\ f.answer # Failed => f.answer.node \in held

(* All but the last handler of a stack wait, and the ttl falls upwards.    *)
SoundStack(s, held) ==
  /\ s \in Seq(Frame)
  /\ \A i \in 1..Len(s) :
       /\ SoundFrame(s[i], held)
       /\ s[i].ttl + i <= MaxRoute + 3
       /\ i < Len(s) => s[i].phase \in {"calling", "recalling"}

(* The inductive invariant.                                                *)
IInv ==
  /\ RelayTypeOK
  /\ sender.phase = "ready" => stack[Main] = <<>>
  /\ sender.answer # Failed => sender.answer.node \in store
  /\ \A t \in Threads : SoundStack(stack[t], store)

-----------------------------------------------------------------------------
(* Routes and stacks as sequences *)

(* A function on 1..n is a sequence of length n.                           *)
LEMMA FunctionIsSeq ==
  ASSUME NEW S, NEW n \in Nat, NEW f \in [1..n -> S]
  PROVE  f \in Seq(S) /\ Len(f) = n
<1>1. f \in Seq(S)
  BY SeqDef
<1>2. Len(f) \in Nat /\ DOMAIN f = 1..Len(f)
  BY <1>1, LenProperties
<1>. QED BY <1>1, <1>2

(* Routes are the sequences of at most MaxRoute nodes.                     *)
LEMMA RouteIsSeq ==
  ASSUME NEW hops
  PROVE  hops \in Routes <=> hops \in Seq(Nodes) /\ Len(hops) <= MaxRoute
<1>1. ASSUME hops \in Routes
      PROVE  hops \in Seq(Nodes) /\ Len(hops) <= MaxRoute
  <2>1. PICK n \in 0..MaxRoute : hops \in [1..n -> Nodes]
    BY <1>1 DEF Routes
  <2>. QED BY <2>1, FunctionIsSeq
<1>2. ASSUME hops \in Seq(Nodes), Len(hops) <= MaxRoute
      PROVE  hops \in Routes
  <2>1. Len(hops) \in Nat /\ hops \in [1..Len(hops) -> Nodes]
    BY <1>2, LenProperties
  <2>2. Len(hops) \in 0..MaxRoute
    BY <1>2, <2>1, RelayConstants
  <2>. QED BY <2>1, <2>2 DEF Routes
<1>. QED BY <1>1, <1>2

(* The route that is at its end.                                           *)
LEMMA EmptyRoute == <<>> \in Routes
<1>1. <<>> \in Seq(Nodes) /\ Len(<<>>) = 0 /\ 0 <= MaxRoute
  BY EmptySeq, RelayConstants
<1>. QED BY <1>1, RouteIsSeq

(* What is left of a route when its first hop is called.                   *)
LEMMA RouteSteps ==
  ASSUME NEW hops \in Routes, hops # <<>>
  PROVE  /\ hops[1] \in Nodes /\ FinalHop(hops) \in Nodes
         /\ Len(hops) \in 1..MaxRoute
         /\ Tail(hops) \in Routes
         /\ Len(Tail(hops)) = Len(hops) - 1
         /\ Tail(hops) # <<>> => FinalHop(Tail(hops)) = FinalHop(hops)
         /\ Tail(hops) = <<>> => FinalHop(hops) = hops[1]
<1>1. hops \in Seq(Nodes) /\ Len(hops) <= MaxRoute
  BY RouteIsSeq
<1>2. Len(hops) \in Nat \ {0}
  BY <1>1, EmptySeq
<1>3. hops[1] \in Nodes /\ FinalHop(hops) \in Nodes
  BY <1>1, <1>2, ElementOfSeq DEF FinalHop
<1>4. /\ Tail(hops) \in Seq(Nodes)
      /\ Len(Tail(hops)) = Len(hops) - 1
      /\ \A i \in 1..Len(Tail(hops)) : Tail(hops)[i] = hops[i + 1]
  BY <1>1, HeadTailProperties
<1>5. Tail(hops) \in Routes
  <2>1. Len(Tail(hops)) <= MaxRoute
    BY <1>1, <1>2, <1>4, RelayConstants
  <2>. QED BY <1>4, <2>1, RouteIsSeq
<1>6. ASSUME Tail(hops) # <<>>
      PROVE  FinalHop(Tail(hops)) = FinalHop(hops)
  <2>1. Len(Tail(hops)) \in Nat \ {0}
    BY <1>4, <1>6, EmptySeq
  <2>. QED BY <1>2, <1>4, <2>1 DEF FinalHop
<1>7. ASSUME Tail(hops) = <<>>
      PROVE  FinalHop(hops) = hops[1]
  <2>1. Len(Tail(hops)) = 0
    BY <1>7, EmptySeq
  <2>2. Len(hops) - 1 = 0
    BY <1>4, <2>1, Zenon
  <2>3. Len(hops) = 1
    BY <1>2, <2>2
  <2>. QED BY <2>3 DEF FinalHop
<1>. QED BY <1>1, <1>2, <1>3, <1>4, <1>5, <1>6, <1>7, RelayConstants

(* A stack with its last frame replaced.                                   *)
LEMMA TopReplaced ==
  ASSUME NEW s \in Seq(Frame), s # <<>>, NEW f \in Frame
  PROVE  LET r == [s EXCEPT ![Len(s)] = f] IN
         /\ r \in Seq(Frame) /\ Len(r) = Len(s) /\ Len(s) \in Nat \ {0}
         /\ r[Len(s)] = f
         /\ \A i \in 1..(Len(s) - 1) : r[i] = s[i]
<1>1. Len(s) \in Nat \ {0}
  BY EmptySeq
<1>2. Len(s) \in 1..Len(s)
  BY <1>1
<1>. QED BY <1>1, <1>2, ExceptSeq

(* What stays of a stack below its frame n + 1.                            *)
LEMMA BelowIsStack ==
  ASSUME NEW s \in Seq(Frame), NEW n \in Nat, n < Len(s), NEW a \in Answer \cup {Failed},
         n > 0 => Resume(s[n], a) \in Frame
  PROVE  LET r == Below(s, n, a) IN
         /\ r \in Seq(Frame) /\ Len(r) = n
         /\ \A i \in 1..n : r[i] = IF i = n THEN Resume(s[n], a) ELSE s[i]
<1>1. Len(s) \in Nat /\ \A i \in 1..Len(s) : s[i] \in Frame
  BY LenProperties, ElementOfSeq
<1>2. CASE n = 0
  BY <1>2, EmptySeq DEF Below
<1>3. CASE n > 0
  <2>1. Below(s, n, a) \in [1..n -> Frame]
    BY <1>1, <1>3 DEF Below
  <2>. QED BY <1>3, <2>1, FunctionIsSeq DEF Below
<1>. QED BY <1>2, <1>3

-----------------------------------------------------------------------------
(* What the steps do to a sound stack *)

(* The handler at work in a sound stack.                                   *)
LEMMA SoundFacts ==
  ASSUME NEW held, NEW s, SoundStack(s, held), s # <<>>
  PROVE  LET f == s[Len(s)] IN
         /\ Len(s) \in Nat \ {0} /\ f \in Frame /\ SoundFrame(f, held)
         /\ f.ttl + Len(s) <= MaxRoute + 3
<1>1. s \in Seq(Frame) /\ Len(s) \in Nat \ {0}
  BY EmptySeq DEF SoundStack
<1>2. Len(s) \in 1..Len(s)
  BY <1>1
<1>. QED BY <1>1, <1>2, ElementOfSeq DEF SoundStack

(* The handler at work goes on.                                            *)
LEMMA ReplaceTop ==
  ASSUME NEW held, NEW s, SoundStack(s, held), s # <<>>,
         NEW f \in Frame, SoundFrame(f, held), f.ttl = s[Len(s)].ttl
  PROVE  SoundStack([s EXCEPT ![Len(s)] = f], held)
<1>. DEFINE r == [s EXCEPT ![Len(s)] = f]
<1>1. /\ r \in Seq(Frame) /\ Len(r) = Len(s) /\ Len(s) \in Nat \ {0}
      /\ r[Len(s)] = f
      /\ \A i \in 1..(Len(s) - 1) : r[i] = s[i]
  BY TopReplaced DEF SoundStack
<1>. HIDE DEF r
<1>2. ASSUME NEW i \in 1..Len(s)
      PROVE  /\ SoundFrame(r[i], held)
             /\ r[i].ttl + i <= MaxRoute + 3
             /\ i < Len(s) => r[i].phase \in {"calling", "recalling"}
  <2>1. CASE i = Len(s)
    BY <1>1, <2>1, SoundFacts
  <2>2. CASE i # Len(s)
    <3>1. i \in 1..(Len(s) - 1)
      BY <1>1, <2>2
    <3>2. r[i] = s[i]
      BY <1>1, <3>1
    <3>. QED BY <3>2 DEF SoundStack
  <2>. QED BY <2>1, <2>2
<1>3. SoundStack(r, held)
  BY <1>1, <1>2 DEF SoundStack
<1>. QED BY <1>3 DEF r

(* The handler at work calls another one.                                  *)
LEMMA PushFrame ==
  ASSUME NEW held, NEW s, SoundStack(s, held), s # <<>>,
         NEW f \in Frame, SoundFrame(f, held), f.ttl = s[Len(s)].ttl,
         f.phase \in {"calling", "recalling"},
         NEW g \in Frame, SoundFrame(g, held), g.ttl = f.ttl - 1
  PROVE  SoundStack(Append([s EXCEPT ![Len(s)] = f], g), held)
<1>. DEFINE r == [s EXCEPT ![Len(s)] = f]
            q == Append(r, g)
<1>1. r \in Seq(Frame) /\ Len(r) = Len(s) /\ Len(s) \in Nat \ {0} /\ r[Len(s)] = f
  BY TopReplaced DEF SoundStack
<1>2. SoundStack(r, held)
  BY ReplaceTop
<1>. HIDE DEF r
<1>3. /\ q \in Seq(Frame) /\ Len(q) = Len(r) + 1
      /\ \A i \in 1..Len(r) : q[i] = r[i]
      /\ q[Len(r) + 1] = g
  BY <1>1, AppendProperties
<1>4. g.ttl + Len(q) <= MaxRoute + 3
  <2>1. f.ttl + Len(s) <= MaxRoute + 3
    BY SoundFacts
  <2>2. f.ttl \in Nat
    BY RelayConstants DEF Frame
  <2>3. Len(q) = Len(s) + 1
    BY <1>1, <1>3
  <2>. QED BY <1>1, <2>1, <2>2, <2>3, RelayConstants
<1>. HIDE DEF q
<1>5. ASSUME NEW i \in 1..Len(q)
      PROVE  /\ SoundFrame(q[i], held)
             /\ q[i].ttl + i <= MaxRoute + 3
             /\ i < Len(q) => q[i].phase \in {"calling", "recalling"}
  <2>1. CASE i = Len(q)
    BY <1>1, <1>3, <1>4, <2>1
  <2>2. CASE i # Len(q)
    <3>1. i \in 1..Len(r) /\ q[i] = r[i]
      BY <1>1, <1>3, <2>2
    <3>2. r[i].phase \in {"calling", "recalling"}
      BY <1>1, <1>2, <3>1 DEF SoundStack
    <3>. QED BY <1>2, <3>1, <3>2 DEF SoundStack
  <2>. QED BY <2>1, <2>2
<1>6. SoundStack(q, held)
  BY <1>3, <1>5 DEF SoundStack
<1>. QED BY <1>6 DEF q, r

(* A waiting handler gets an answer.                                       *)
LEMMA ResumeSound ==
  ASSUME NEW held, NEW f \in Frame, SoundFrame(f, held),
         f.phase \in {"calling", "recalling"},
         NEW a \in Answer \cup {Failed}, a # Failed => a.node \in held
  PROVE  Resume(f, a) \in Frame /\ SoundFrame(Resume(f, a), held) /\ Resume(f, a).ttl = f.ttl
<1>1. CASE a = Failed /\ f.phase = "calling"
  BY <1>1 DEF Resume, Frame, SoundFrame
<1>2. CASE a = Failed /\ f.phase # "calling"
  BY EmptyRoute, <1>2 DEF Resume, Frame, SoundFrame
<1>3. CASE a # Failed
  BY EmptyRoute, <1>3 DEF Resume, Frame, SoundFrame
<1>. QED BY <1>1, <1>2, <1>3

(* The handlers above n are gone.                                          *)
LEMMA BelowSound ==
  ASSUME NEW held, NEW s, SoundStack(s, held), NEW n \in Nat, n < Len(s),
         NEW a \in Answer \cup {Failed}, a # Failed => a.node \in held
  PROVE  SoundStack(Below(s, n, a), held)
<1>. DEFINE r == Below(s, n, a)
<1>1. s \in Seq(Frame) /\ Len(s) \in Nat
  BY LenProperties DEF SoundStack
<1>2. ASSUME n > 0
      PROVE  /\ Resume(s[n], a) \in Frame /\ SoundFrame(Resume(s[n], a), held)
             /\ Resume(s[n], a).ttl = s[n].ttl
  <2>1. n \in 1..Len(s) /\ s[n] \in Frame
    BY <1>1, <1>2, ElementOfSeq
  <2>2. SoundFrame(s[n], held) /\ s[n].phase \in {"calling", "recalling"}
    BY <2>1 DEF SoundStack
  <2>. QED BY <2>1, <2>2, ResumeSound
<1>3. /\ r \in Seq(Frame) /\ Len(r) = n
      /\ \A i \in 1..n : r[i] = IF i = n THEN Resume(s[n], a) ELSE s[i]
  BY <1>1, <1>2, BelowIsStack
<1>. HIDE DEF r
<1>4. ASSUME NEW i \in 1..n
      PROVE  /\ SoundFrame(r[i], held)
             /\ r[i].ttl + i <= MaxRoute + 3
             /\ i < n => r[i].phase \in {"calling", "recalling"}
  <2>1. i \in 1..Len(s)
    BY <1>1
  <2>2. CASE i = n
    BY <1>2, <1>3, <2>1, <2>2 DEF SoundStack
  <2>3. CASE i # n
    <3>1. r[i] = s[i] /\ i < Len(s)
      BY <1>1, <1>3, <2>3
    <3>. QED BY <2>1, <3>1 DEF SoundStack
  <2>. QED BY <2>2, <2>3
<1>5. SoundStack(r, held)
  BY <1>3, <1>4 DEF SoundStack
<1>. QED BY <1>5 DEF r

(* The handlers above n go on by themselves.                               *)
LEMMA AboveSound ==
  ASSUME NEW held, NEW s, SoundStack(s, held), NEW n \in Nat, n < Len(s)
  PROVE  SoundStack(SubSeq(s, n + 1, Len(s)), held)
<1>. DEFINE r == SubSeq(s, n + 1, Len(s))
<1>1. /\ s \in Seq(Frame) /\ Len(s) \in Nat
      /\ \A i \in (n + 1)..Len(s) : s[i] \in Frame
  BY LenProperties, ElementOfSeq DEF SoundStack
<1>2. /\ r \in Seq(Frame) /\ Len(r) = Len(s) - n
      /\ \A i \in 1..(Len(s) - n) : r[i] = s[i + n]
  <2>1. /\ r \in Seq(Frame)
        /\ Len(r) = IF n + 1 <= Len(s) THEN Len(s) - (n + 1) + 1 ELSE 0
        /\ \A i \in 1..(Len(s) - (n + 1) + 1) : r[i] = s[n + 1 + i - 1]
    BY <1>1, SubSeqProperties
  <2>. HIDE DEF r
  <2>2. ASSUME NEW i \in 1..(Len(s) - n)
        PROVE  r[i] = s[i + n]
    <3>1. i \in 1..(Len(s) - (n + 1) + 1) /\ n + 1 + i - 1 = i + n
      BY <1>1
    <3>. QED BY <2>1, <3>1
  <2>. QED BY <1>1, <2>1, <2>2
<1>. HIDE DEF r
<1>3. ASSUME NEW i \in 1..(Len(s) - n)
      PROVE  /\ SoundFrame(r[i], held)
             /\ r[i].ttl + i <= MaxRoute + 3
             /\ i < Len(r) => r[i].phase \in {"calling", "recalling"}
  <2>1. i + n \in 1..Len(s) /\ s[i + n] \in Frame
    BY <1>1
  <2>2. /\ SoundFrame(s[i + n], held)
        /\ s[i + n].ttl + (i + n) <= MaxRoute + 3
        /\ i + n < Len(s) => s[i + n].phase \in {"calling", "recalling"}
    BY <2>1 DEF SoundStack
  <2>3. r[i] = s[i + n] /\ s[i + n].ttl \in Nat
    <3>1. r[i] = s[i + n]
      BY <1>2
    <3>. QED BY <2>1, <3>1, RelayConstants DEF Frame
  <2>4. s[i + n].ttl + i <= MaxRoute + 3
    BY <2>2, <2>3, RelayConstants
  <2>5. i < Len(r) => i + n < Len(s)
    BY <1>1, <1>2
  <2>. QED BY <2>2, <2>3, <2>4, <2>5
<1>4. SoundStack(r, held)
  BY <1>1, <1>2, <1>3 DEF SoundStack
<1>. QED BY <1>4 DEF r

(* A node keeps a chunk it has stored.                                     *)
LEMMA HeldGrows ==
  ASSUME NEW held, NEW more, held \subseteq more, NEW s, SoundStack(s, held)
  PROVE  SoundStack(s, more)
BY DEF SoundStack, SoundFrame

-----------------------------------------------------------------------------
(* The invariant is inductive *)

(* The handler at work is a sound frame.                                   *)
LEMMA TopSound ==
  ASSUME IInv, NEW t \in Threads, Running(t)
  PROVE  /\ Top(t) \in Frame /\ Top(t).ttl \in Nat /\ Top(t).copies \in 1..Replicas
         /\ SoundFrame(Top(t), store) /\ SoundStack(stack[t], store)
<1>1. SoundStack(stack[t], store) /\ stack[t] # <<>>
  BY DEF IInv, Running
<1>2. Top(t) \in Frame /\ SoundFrame(Top(t), store)
  BY <1>1, SoundFacts DEF Top
<1>. QED BY <1>1, <1>2, RelayConstants DEF Frame

(* A step of the handlers of one stack, which may store the chunk.         *)
LEMMA OneStack ==
  ASSUME IInv, NEW t \in Threads, Running(t),
         NEW s, SoundStack(s, store'), stack' = [stack EXCEPT ![t] = s],
         store \subseteq store', store' \subseteq Nodes,
         trouble' \in BOOLEAN, UNCHANGED <<guarded, sender, dest>>
  PROVE  IInv'
<1>1. stack' \in [Threads -> Seq(Frame)]
  BY DEF IInv, RelayTypeOK, SoundStack
<1>2. ASSUME NEW u \in Threads
      PROVE  SoundStack(stack'[u], store')
  <2>1. CASE u = t
    BY <2>1 DEF IInv, RelayTypeOK
  <2>2. CASE u # t
    <3>1. stack'[u] = stack[u] /\ SoundStack(stack[u], store)
      BY <2>2 DEF IInv, RelayTypeOK
    <3>. QED BY <3>1, HeldGrows
  <2>. QED BY <2>1, <2>2
<1>3. RelayTypeOK'
  BY <1>1 DEF IInv, RelayTypeOK
<1>4. sender'.phase = "ready" => stack'[Main] = <<>>
  BY DEF IInv, Running, RelayTypeOK, Threads
<1>5. sender'.answer # Failed => sender'.answer.node \in store'
  BY DEF IInv
<1>. QED BY <1>2, <1>3, <1>4, <1>5 DEF IInv

(* The handler at work takes another phase, or answers.                    *)
LEMMA TopGoesOn ==
  ASSUME IInv, NEW t \in Threads, Running(t),
         NEW f \in Frame, f.ttl = Top(t).ttl, SoundFrame(f, store'), GoTo(t, f),
         store \subseteq store', store' \subseteq Nodes,
         trouble' \in BOOLEAN, UNCHANGED <<guarded, sender, dest>>
  PROVE  IInv'
<1>1. SoundStack(stack[t], store') /\ stack[t] # <<>>
  BY TopSound, HeldGrows DEF Running
<1>2. SoundStack(WithTop(t, f), store')
  BY <1>1, ReplaceTop DEF WithTop, Top
<1>. QED BY <1>2, OneStack DEF GoTo

(* The handler at work calls the next hop.                                 *)
LEMMA TopCalls ==
  ASSUME IInv, NEW t \in Threads, Running(t), NEW phase \in {"calling", "recalling"},
         Call(t, phase), Top(t).hops # <<>>, Top(t).ttl > 0,
         UNCHANGED <<guarded, sender, dest, store, trouble>>
  PROVE  IInv'
<1>. DEFINE f == Top(t)
            w == Waiting(f, phase)
            g == Request(f.hops[1], Tail(f.hops), f.ttl - 1, f.copies)
<1>1. /\ f \in Frame /\ f.ttl \in Nat /\ f.copies \in 1..Replicas
      /\ SoundStack(stack[t], store) /\ stack[t] # <<>>
  BY TopSound DEF Running
<1>2. f.hops \in Routes /\ f.hops[1] \in Nodes /\ Tail(f.hops) \in Routes /\ <<>> \in Routes
  BY <1>1, EmptyRoute, RouteSteps DEF Frame
<1>3. w \in Frame /\ w.ttl = f.ttl /\ w.phase = phase /\ SoundFrame(w, store)
  BY <1>1, <1>2 DEF Waiting, Frame, SoundFrame
<1>4. g \in Frame /\ g.ttl = w.ttl - 1 /\ SoundFrame(g, store)
  <2>1. f.ttl - 1 \in 0..(MaxRoute + 2)
    BY <1>1, RelayConstants DEF Frame
  <2>. QED BY <1>1, <1>2, <1>3, <2>1 DEF Request, Frame, SoundFrame
<1>. HIDE DEF w, g
<1>5. SoundStack(Append(WithTop(t, w), g), store)
  BY <1>1, <1>3, <1>4, PushFrame DEF WithTop, Top
<1>6. stack' = [stack EXCEPT ![t] = Append(WithTop(t, w), g)]
  BY DEF Call, w, g
<1>7. store' = store /\ store \subseteq Nodes /\ trouble' \in BOOLEAN
  BY DEF IInv, RelayTypeOK
<1>. QED BY <1>5, <1>6, <1>7, OneStack

(* Where no handler runs.                                                  *)
LEMMA EmptyStackSound ==
  ASSUME NEW held
  PROVE  SoundStack(<<>>, held)
<1>1. <<>> \in Seq(Frame) /\ Len(<<>>) = 0
  BY EmptySeq
<1>. QED BY <1>1 DEF SoundStack

(* A stack of one handler that has just been called.                       *)
LEMMA NewStackSound ==
  ASSUME NEW held, NEW f \in Frame, f.phase = "arrived"
  PROVE  SoundStack(<<f>>, held)
<1>1. <<f>> \in Seq(Frame) /\ Len(<<f>>) = 1 /\ <<f>>[1] = f
  OBVIOUS
<1>2. f.ttl + 1 <= MaxRoute + 3
  BY RelayConstants DEF Frame
<1>3. SoundFrame(f, held)
  BY DEF SoundFrame
<1>. QED BY <1>1, <1>2, <1>3 DEF SoundStack

(* Nothing runs at first.                                                  *)
LEMMA InitIInv == Init => IInv
<1>. SUFFICES ASSUME Init PROVE IInv
  OBVIOUS
<1>1. \A t \in Threads : SoundStack(stack[t], store)
  BY EmptyStackSound DEF Init
<1>2. stack \in [Threads -> Seq(Frame)]
  BY <1>1 DEF Init, SoundStack
<1>. QED BY <1>1, <1>2 DEF Init, IInv, RelayTypeOK, Threads

(* Actions in which one handler goes on by itself.                         *)
LEMMA HandlerIInv ==
  ASSUME IInv, NEW t \in Threads,
         \/ Expire(t) \/ StoreFails(t) \/ ForwardFails(t) \/ ForwardRejected(t)
         \/ Reroute(t) \/ NoRoute(t)
         \/ ForwardAgainFails(t) \/ Keep(t) \/ KeepFails(t)
  PROVE  IInv'
<1>. DEFINE f == Top(t)
<1>1. Running(t)
  BY DEF Expire, StoreFails, ForwardFails, ForwardRejected, Reroute, NoRoute,
         ForwardAgainFails, Keep, KeepFails, At
<1>2. /\ f \in Frame /\ f.ttl \in Nat /\ f.hops \in Routes /\ f.node \in Nodes
      /\ SoundFrame(f, store)
  BY <1>1, TopSound DEF Frame
<1>3. store \subseteq Nodes /\ trouble \in BOOLEAN
  BY DEF IInv, RelayTypeOK
<1>4. ASSUME NEW a \in Answer \cup {Failed}, a # Failed => a.node \in store', Reply(t, a),
             store \subseteq store', store' \subseteq Nodes, trouble' \in BOOLEAN,
             UNCHANGED <<guarded, sender, dest>>
      PROVE  IInv'
  <2>. DEFINE g == [f EXCEPT !.phase = "answering", !.hops = <<>>, !.answer = a]
  <2>1. g \in Frame /\ g.ttl = f.ttl /\ SoundFrame(g, store')
    BY <1>2, <1>4, EmptyRoute DEF Frame, SoundFrame
  <2>2. GoTo(t, g)
    BY <1>4 DEF Reply, Replying, GoTo
  <2>. HIDE DEF g
  <2>. QED BY <1>1, <1>4, <2>1, <2>2, TopGoesOn
<1>5. ASSUME NEW g \in Frame, g.ttl = f.ttl, SoundFrame(g, store), GoTo(t, g),
             trouble' \in BOOLEAN, UNCHANGED <<guarded, sender, dest, store>>
      PROVE  IInv'
  <2>1. store' = store
    BY <1>5
  <2>. QED BY <1>1, <1>3, <1>5, <2>1, TopGoesOn
<1>6. ASSUME FallBack(t), f.ttl > 0, trouble' \in BOOLEAN,
             UNCHANGED <<guarded, sender, dest, store>>
      PROVE  IInv'
  <2>. DEFINE g == [f EXCEPT !.phase = "fallback", !.hops = <<>>]
  <2>1. g \in Frame /\ g.ttl = f.ttl /\ SoundFrame(g, store)
    BY <1>2, <1>6, EmptyRoute DEF Frame, SoundFrame
  <2>2. GoTo(t, g)
    BY <1>6 DEF FallBack
  <2>. HIDE DEF g
  <2>. QED BY <1>5, <1>6, <2>1, <2>2
<1>7. CASE Expire(t)
  BY <1>3, <1>4, <1>7 DEF Expire
<1>8. CASE StoreFails(t)
  BY <1>3, <1>4, <1>8 DEF StoreFails
<1>9. CASE ForwardFails(t) \/ ForwardRejected(t)
  <2>. DEFINE g == [f EXCEPT !.phase = "reroute"]
  <2>1. f.hops # <<>> /\ f.ttl > 0
    BY <1>9 DEF ForwardFails, ForwardRejected, IsFinal
  <2>2. g \in Frame /\ g.ttl = f.ttl /\ SoundFrame(g, store)
    BY <1>2, <2>1 DEF Frame, SoundFrame
  <2>3. GoTo(t, g) /\ trouble' \in BOOLEAN /\ UNCHANGED <<guarded, sender, dest, store>>
    BY <1>3, <1>9 DEF ForwardFails, ForwardRejected
  <2>. HIDE DEF g
  <2>. QED BY <1>5, <2>2, <2>3
<1>10. CASE Reroute(t)
  <2>1. PICK hops \in FullRoutes : GoTo(t, [f EXCEPT !.phase = "rerouted", !.hops = hops])
    BY <1>10 DEF Reroute
  <2>. DEFINE g == [f EXCEPT !.phase = "rerouted", !.hops = hops]
  <2>2. f.ttl > 0
    BY <1>2, <1>10 DEF Reroute, At, SoundFrame
  <2>3. g \in Frame /\ g.ttl = f.ttl /\ SoundFrame(g, store)
    BY <1>2, <2>2 DEF Frame, SoundFrame, FullRoutes
  <2>4. GoTo(t, g) /\ trouble' \in BOOLEAN /\ UNCHANGED <<guarded, sender, dest, store>>
    BY <1>3, <1>10, <2>1 DEF Reroute
  <2>. HIDE DEF g
  <2>. QED BY <1>5, <2>3, <2>4
<1>11. CASE NoRoute(t)
  <2>1. f.ttl > 0
    BY <1>2, <1>11 DEF NoRoute, At, SoundFrame
  <2>. QED BY <1>3, <1>6, <1>11, <2>1 DEF NoRoute
<1>12. CASE ForwardAgainFails(t)
  <2>1. f.ttl > 0
    BY <1>2, <1>12 DEF ForwardAgainFails, At, SoundFrame
  <2>. QED BY <1>6, <1>12, <2>1 DEF ForwardAgainFails
<1>13. CASE Keep(t)
  <2>1. store' = store \cup {f.node} /\ Reply(t, [ok |-> FALSE, node |-> f.node])
    BY <1>13 DEF Keep
  <2>2. [ok |-> FALSE, node |-> f.node] \in Answer
    BY <1>2 DEF Answer
  <2>3. UNCHANGED <<guarded, sender, dest, trouble>>
    BY <1>13 DEF Keep
  <2>. QED BY <1>2, <1>3, <1>4, <2>1, <2>2, <2>3
<1>14. CASE KeepFails(t)
  BY <1>3, <1>4, <1>14 DEF KeepFails
<1>. QED BY <1>7, <1>8, <1>9, <1>10, <1>11, <1>12, <1>13, <1>14

(* Storing the chunk where the route ends, and starting the replicas.      *)
LEMMA StoreIInv ==
  ASSUME IInv, NEW t \in Threads, Store(t)
  PROVE  IInv'
<1>. DEFINE f == Top(t)
            a == [ok |-> TRUE, node |-> f.node]
            g == [f EXCEPT !.phase = "answering", !.hops = <<>>, !.answer = a]
<1>1. Running(t) /\ stack[t] # <<>>
  BY DEF Store, At, Running
<1>2. f \in Frame /\ f.node \in Nodes /\ SoundStack(stack[t], store)
  BY <1>1, TopSound DEF Frame
<1>3. store' = store \cup {f.node} /\ UNCHANGED <<guarded, sender, dest, trouble>>
  BY DEF Store
<1>4. PICK used \in SUBSET {u \in Strays : ~Running(u)} : \E peer \in [used -> Nodes \ {f.node}] :
        stack' = [u \in Threads |->
          IF u = t THEN Replying(t, a)
          ELSE IF u \in used THEN <<Replica(peer[u])>> ELSE stack[u]]
  BY DEF Store
<1>5. PICK peer \in [used -> Nodes \ {f.node}] :
        stack' = [u \in Threads |->
          IF u = t THEN Replying(t, a)
          ELSE IF u \in used THEN <<Replica(peer[u])>> ELSE stack[u]]
  BY <1>4
<1>6. SoundStack(Replying(t, a), store')
  <2>1. a \in Answer /\ a.node \in store'
    BY <1>2, <1>3 DEF Answer
  <2>2. g \in Frame /\ g.ttl = f.ttl /\ SoundFrame(g, store')
    BY <1>2, <2>1, EmptyRoute DEF Frame, SoundFrame
  <2>3. SoundStack(stack[t], store')
    BY <1>2, <1>3, HeldGrows
  <2>. HIDE DEF g
  <2>4. SoundStack([stack[t] EXCEPT ![Len(stack[t])] = g], store')
    BY <1>1, <2>2, <2>3, ReplaceTop DEF Top
  <2>. QED BY <2>4 DEF Replying, WithTop, g
<1>7. ASSUME NEW u \in Threads
      PROVE  SoundStack(stack'[u], store')
  <2>1. CASE u = t
    BY <1>5, <1>6, <2>1
  <2>2. CASE u # t /\ u \in used
    <3>1. stack'[u] = <<Replica(peer[u])>>
      BY <1>5, <2>2
    <3>2. peer[u] \in Nodes
      BY <2>2
    <3>3. Replica(peer[u]) \in Frame /\ Replica(peer[u]).phase = "arrived"
      BY <3>2, EmptyRoute, RelayConstants DEF Replica, Request, Frame
    <3>. QED BY <3>1, <3>3, NewStackSound
  <2>3. CASE u # t /\ u \notin used
    <3>1. stack'[u] = stack[u]
      BY <1>5, <2>3
    <3>. QED BY <1>3, <3>1, HeldGrows DEF IInv
  <2>. QED BY <2>1, <2>2, <2>3
<1>8. RelayTypeOK'
  <2>1. stack' \in [Threads -> Seq(Frame)]
    BY <1>5, <1>7 DEF SoundStack
  <2>. QED BY <1>2, <1>3, <2>1 DEF IInv, RelayTypeOK
<1>9. sender'.phase = "ready" => stack'[Main] = <<>>
  <2>1. ASSUME sender'.phase = "ready"
        PROVE  stack'[Main] = <<>>
    <3>1. stack[Main] = <<>> /\ Main # t
      BY <1>1, <1>3, <2>1 DEF IInv
    <3>2. Main \in Threads /\ Main \notin used
      BY RelayConstants DEF Threads
    <3>. QED BY <1>5, <3>1, <3>2
  <2>. QED BY <2>1
<1>. QED BY <1>3, <1>7, <1>8, <1>9 DEF IInv

(* An answer reaches the handler below, or the sender.                     *)
LEMMA ReturnIInv ==
  ASSUME IInv, NEW t \in Threads, Return(t)
  PROVE  IInv'
<1>. DEFINE n == Len(stack[t]) - 1
            a == Top(t).answer
<1>1. Running(t) /\ stack[t] # <<>> /\ Top(t).phase = "answering"
  BY DEF Return, At, Running
<1>2. a \in Answer \cup {Failed} /\ (a # Failed => a.node \in store) /\ SoundStack(stack[t], store)
  BY <1>1, TopSound DEF Frame, SoundFrame
<1>3. n \in Nat /\ n < Len(stack[t])
  BY <1>1, <1>2, SoundFacts
<1>4. SoundStack(Below(stack[t], n, a), store)
  BY <1>2, <1>3, BelowSound
<1>5. /\ stack' = [stack EXCEPT ![t] = Below(stack[t], n, a)]
      /\ sender' = IF n = 0 /\ t = Main THEN [phase |-> "answered", answer |-> a] ELSE sender
      /\ UNCHANGED <<guarded, dest, store, trouble>>
  BY DEF Return
<1>. HIDE DEF n, a
<1>6. ASSUME NEW u \in Threads
      PROVE  SoundStack(stack'[u], store')
  BY <1>4, <1>5 DEF IInv, RelayTypeOK
<1>7. RelayTypeOK'
  <2>1. stack' \in [Threads -> Seq(Frame)]
    BY <1>4, <1>5 DEF IInv, RelayTypeOK, SoundStack
  <2>. QED BY <1>2, <1>5, <2>1 DEF IInv, RelayTypeOK
<1>8. sender'.phase = "ready" => stack'[Main] = <<>>
  BY <1>1, <1>5 DEF IInv, RelayTypeOK, Threads
<1>9. sender'.answer # Failed => sender'.answer.node \in store'
  BY <1>2, <1>5 DEF IInv
<1>. QED BY <1>6, <1>7, <1>8, <1>9 DEF IInv

(* A broken connection parts a stack in two.                               *)
LEMMA BreakIInv ==
  ASSUME IInv, NEW t \in Threads, NEW u \in Strays, NEW n \in 0..(MaxRoute + 2), Break(t, u, n)
  PROVE  IInv'
<1>. DEFINE s == Below(stack[t], n, Failed)
            r == SubSeq(stack[t], n + 1, Len(stack[t]))
<1>1. n \in Nat /\ n < Len(stack[t]) /\ SoundStack(stack[t], store)
  BY RelayConstants DEF Break, IInv
<1>2. SoundStack(s, store) /\ SoundStack(r, store)
  BY <1>1, BelowSound, AboveSound
<1>3. /\ stack' = [stack EXCEPT ![t] = s, ![u] = r]
      /\ sender' = IF n = 0 THEN [phase |-> "answered", answer |-> Failed] ELSE sender
      /\ trouble' = TRUE
      /\ UNCHANGED <<guarded, dest, store>>
  BY DEF Break
<1>. HIDE DEF s, r
<1>4. u \in Threads /\ Main \in Threads /\ u # Main
  BY RelayConstants DEF Threads
<1>5. ASSUME NEW v \in Threads
      PROVE  SoundStack(stack'[v], store')
  BY <1>2, <1>3, <1>4 DEF IInv, RelayTypeOK
<1>6. RelayTypeOK'
  <2>1. stack' \in [Threads -> Seq(Frame)]
    BY <1>2, <1>3, <1>4 DEF IInv, RelayTypeOK, SoundStack
  <2>. QED BY <1>3, <2>1 DEF IInv, RelayTypeOK
<1>7. sender'.phase = "ready" => stack'[Main] = <<>>
  <2>1. CASE t = Main
    <3>1. stack[t] # <<>>
      BY <1>1, EmptySeq
    <3>. QED BY <1>3, <2>1, <3>1 DEF IInv
  <2>2. CASE t # Main
    BY <1>3, <1>4, <2>2 DEF IInv, RelayTypeOK, Break
  <2>. QED BY <2>1, <2>2
<1>8. sender'.answer # Failed => sender'.answer.node \in store'
  BY <1>3 DEF IInv
<1>. QED BY <1>5, <1>6, <1>7, <1>8 DEF IInv

(* The oldest handler of a stray stack is gone.                            *)
LEMMA DieIInv ==
  ASSUME IInv, NEW u \in Strays, Die(u)
  PROVE  IInv'
<1>1. u \in Threads /\ Running(u)
  BY DEF Die, Threads
<1>2. SoundStack(stack[u], store) /\ stack[u] # <<>> /\ 0 < Len(stack[u])
  BY <1>1, TopSound, SoundFacts DEF Running
<1>3. SoundStack(Tail(stack[u]), store)
  <2>1. /\ Tail(stack[u]) \in Seq(Frame) /\ Len(Tail(stack[u])) = Len(stack[u]) - 1
        /\ Tail(stack[u]) = SubSeq(stack[u], 2, Len(stack[u]))
    BY <1>2, HeadTailProperties, TailIsSubSeq DEF SoundStack
  <2>2. CASE Len(stack[u]) = 1
    <3>1. Len(Tail(stack[u])) = 0
      BY <2>1, <2>2
    <3>. QED BY <2>1, <3>1 DEF SoundStack
  <2>3. CASE Len(stack[u]) # 1
    <3>1. Len(stack[u]) \in Nat /\ Len(stack[u]) # 0
      BY <1>2, SoundFacts
    <3>2. 1 < Len(stack[u])
      <4>1. \A k \in Nat : k # 0 /\ k # 1 => 1 < k
        OBVIOUS
      <4>. QED BY <2>3, <3>1, <4>1, Zenon
    <3>3. SoundStack(SubSeq(stack[u], 2, Len(stack[u])), store)
      BY <1>2, <3>2, AboveSound
    <3>. QED BY <2>1, <3>3, Zenon
  <2>. QED BY <2>2, <2>3
<1>4. stack' = [stack EXCEPT ![u] = Tail(stack[u])] /\ trouble' = TRUE
  BY DEF Die
<1>5. UNCHANGED <<guarded, sender, dest, store>> /\ store' \subseteq Nodes
  BY DEF Die, IInv, RelayTypeOK
<1>. QED BY <1>1, <1>3, <1>4, <1>5, OneStack

(* The first call of all, from outside the relays.                         *)
LEMMA FirstCallIInv ==
  ASSUME IInv, NEW f \in Frame, f.phase = "arrived",
         stack' = [stack EXCEPT ![Main] = <<f>>],
         sender' = [sender EXCEPT !.phase = "waiting"],
         UNCHANGED <<guarded, dest, store, trouble>>
  PROVE  IInv'
<1>1. SoundStack(<<f>>, store)
  BY NewStackSound
<1>2. \A t \in Threads : SoundStack(stack'[t], store')
  BY <1>1 DEF IInv, RelayTypeOK
<1>3. RelayTypeOK'
  <2>1. stack' \in [Threads -> Seq(Frame)]
    BY <1>1 DEF IInv, RelayTypeOK, SoundStack
  <2>. QED BY <2>1 DEF IInv, RelayTypeOK
<1>4. sender'.phase = "waiting" /\ sender'.answer = sender.answer
  BY DEF IInv, RelayTypeOK
<1>. QED BY <1>2, <1>3, <1>4 DEF IInv

(* The sender's call.                                                      *)
LEMMA SendIInv ==
  ASSUME IInv, NEW route \in FullRoutes, Send(route) \/ SendFails(route)
  PROVE  IInv'
<1>1. CASE Send(route)
  <2>. DEFINE f == Request(route[1], route, Len(route) + 2, Replicas)
  <2>1. route \in Routes /\ route[1] \in Nodes /\ Len(route) \in 1..MaxRoute
    BY RouteSteps DEF FullRoutes
  <2>2. f \in Frame /\ f.phase = "arrived"
    BY <2>1, RelayConstants DEF Request, Frame
  <2>3. /\ stack' = [stack EXCEPT ![Main] = <<f>>]
        /\ sender' = [sender EXCEPT !.phase = "waiting"]
        /\ UNCHANGED <<guarded, dest, store, trouble>>
    BY <1>1 DEF Send
  <2>. HIDE DEF f
  <2>. QED BY <2>2, <2>3, FirstCallIInv
<1>2. CASE SendFails(route)
  BY <1>2 DEF SendFails, IInv, RelayTypeOK
<1>. QED BY <1>1, <1>2

(* The call of a client that has a token.                                  *)
LEMMA SubmitIInv ==
  ASSUME IInv, NEW n \in Nodes, NEW hops \in Routes, NEW ttl \in 0..(MaxRoute + 2),
         NEW copies \in 1..Replicas, Submit(n, hops, ttl, copies)
  PROVE  IInv'
<1>. DEFINE f == Request(n, hops, ttl, copies)
<1>1. f \in Frame /\ f.phase = "arrived"
  BY DEF Request, Frame
<1>2. /\ stack' = [stack EXCEPT ![Main] = <<f>>]
      /\ sender' = [sender EXCEPT !.phase = "waiting"]
      /\ UNCHANGED <<guarded, dest, store, trouble>>
  BY DEF Submit
<1>. HIDE DEF f
<1>. QED BY <1>1, <1>2, FirstCallIInv

(* One step of the relays, as the list of its actions.                     *)
LEMMA NextCases ==
  ASSUME Next
  PROVE  \/ \E route \in FullRoutes : Send(route) \/ SendFails(route)
         \/ SendAlone
         \/ \E n \in Nodes, hops \in Routes, ttl \in 0..(MaxRoute + 2), copies \in 1..Replicas :
              Submit(n, hops, ttl, copies)
         \/ \E t \in Threads :
              \/ Expire(t) \/ StoreFails(t) \/ ForwardFails(t) \/ ForwardRejected(t)
              \/ Reroute(t) \/ NoRoute(t)
              \/ ForwardAgainFails(t) \/ Keep(t) \/ KeepFails(t)
         \/ \E t \in Threads : Store(t)
         \/ \E t \in Threads : Forward(t) \/ ForwardAgain(t)
         \/ \E t \in Threads : Return(t)
         \/ \E t \in Threads, u \in Strays, n \in 0..(MaxRoute + 2) : Break(t, u, n)
         \/ \E u \in Strays : Die(u)
BY DEF Next, Handle

(* Every step of a handler, the network or a process keeps the invariant.  *)
LEMMA StepIInv ==
  ASSUME IInv, [Next]_relayVars
  PROVE  IInv'
<1>1. ASSUME NEW route \in FullRoutes, Send(route) \/ SendFails(route)
      PROVE  IInv'
  BY <1>1, SendIInv
<1>2. ASSUME NEW t \in Threads,
             \/ Expire(t) \/ StoreFails(t) \/ ForwardFails(t) \/ ForwardRejected(t)
             \/ Reroute(t) \/ NoRoute(t)
             \/ ForwardAgainFails(t) \/ Keep(t) \/ KeepFails(t)
      PROVE  IInv'
  BY <1>2, HandlerIInv
<1>3. ASSUME NEW t \in Threads, Store(t)
      PROVE  IInv'
  BY <1>3, StoreIInv
<1>4. ASSUME NEW t \in Threads, Forward(t)
      PROVE  IInv'
  <2>1. Top(t).hops # <<>> /\ Top(t).ttl > 0
    BY <1>4 DEF Forward, IsFinal
  <2>. QED BY <1>4, <2>1, TopCalls DEF Forward, At
<1>5. ASSUME NEW t \in Threads, ForwardAgain(t)
      PROVE  IInv'
  <2>1. Top(t).hops # <<>> /\ Top(t).ttl > 0
    BY <1>5, TopSound DEF ForwardAgain, At, SoundFrame
  <2>. QED BY <1>5, <2>1, TopCalls DEF ForwardAgain, At
<1>6. ASSUME NEW t \in Threads, Return(t)
      PROVE  IInv'
  BY <1>6, ReturnIInv
<1>7. ASSUME NEW t \in Threads, NEW u \in Strays, NEW n \in 0..(MaxRoute + 2), Break(t, u, n)
      PROVE  IInv'
  BY <1>7, BreakIInv
<1>8. ASSUME NEW u \in Strays, Die(u)
      PROVE  IInv'
  BY <1>8, DieIInv
<1>9. ASSUME SendAlone
      PROVE  IInv'
  BY <1>9 DEF SendAlone, IInv, RelayTypeOK
<1>10. ASSUME NEW n \in Nodes, NEW hops \in Routes, NEW ttl \in 0..(MaxRoute + 2),
              NEW copies \in 1..Replicas, Submit(n, hops, ttl, copies)
       PROVE  IInv'
  BY <1>10, SubmitIInv
<1>11. CASE UNCHANGED relayVars
  BY <1>11 DEF relayVars, IInv, RelayTypeOK
<1>. QED
  BY <1>1, <1>2, <1>3, <1>4, <1>5, <1>6, <1>7, <1>8, <1>9, <1>10, <1>11, NextCases

(* Every reachable state of the relays satisfies the invariant.            *)
THEOREM RelayInvariant == Spec => []IInv
<1>. QED BY InitIInv, StepIInv, PTL DEF Spec

(* The relays keep their types: no ttl runs below zero, and a handler      *)
(* calls only where its route has a next hop.                              *)
THEOREM RelayTypes == Spec => []RelayTypeOK
<1>1. IInv => RelayTypeOK
  BY DEF IInv
<1>. QED BY <1>1, RelayInvariant, PTL

(* Whatever forwards, saves and connections fail, an answer that is no     *)
(* error names a node that has the chunk.                                  *)
THEOREM DataIsNotLost == Spec => []AnswersHeld
<1>1. IInv => AnswersHeld
  BY DEF IInv, AnswersHeld, SoundStack, SoundFrame
<1>. QED BY <1>1, RelayInvariant, PTL

(* However often a chunk is rerouted and whatever loops the routes have,   *)
(* the ttl bounds the handlers that wait for each other.                   *)
THEOREM TtlBoundsDepth == Spec => []DepthBounded
<1>1. IInv => DepthBounded
  <2>. SUFFICES ASSUME IInv, NEW t \in Threads, stack[t] # <<>>
                PROVE  Len(stack[t]) <= MaxRoute + 3
    BY EmptySeq, RelayConstants DEF DepthBounded
  <2>1. /\ stack[t][Len(stack[t])] \in Frame /\ Len(stack[t]) \in Nat
        /\ stack[t][Len(stack[t])].ttl + Len(stack[t]) <= MaxRoute + 3
    BY SoundFacts DEF IInv
  <2>. QED BY <2>1, RelayConstants DEF Frame
<1>. QED BY <1>1, RelayInvariant, PTL

-----------------------------------------------------------------------------
(* No handler steps back *)

(* Each frame of s that is still there in r is in no earlier phase.        *)
Later(s, r) ==
  \A i \in 1..Len(s) : i <= Len(r) => Stage[s[i].phase] <= Stage[r[i].phase]

(* The stages as numbers.                                                  *)
LEMMA StageOrder ==
  /\ Stage["arrived"] = 1 /\ Stage["calling"] = 2 /\ Stage["reroute"] = 3
  /\ Stage["rerouted"] = 4 /\ Stage["recalling"] = 5 /\ Stage["fallback"] = 6
  /\ Stage["answering"] = 7
BY DEF Stage

(* Every frame is at one of the seven stages.                              *)
LEMMA StageOfFrame ==
  ASSUME NEW f \in Frame
  PROVE  Stage[f.phase] \in 1..7
<1>1. f.phase \in {"arrived", "calling", "reroute", "rerouted", "recalling", "fallback",
                   "answering"}
  BY DEF Frame
<1>. QED BY <1>1, StageOrder

(* A stack that stays as it is.                                            *)
LEMMA SameIsLater ==
  ASSUME NEW s \in Seq(Frame)
  PROVE  Later(s, s)
<1>1. ASSUME NEW i \in 1..Len(s)
      PROVE  Stage[s[i].phase] <= Stage[s[i].phase]
  BY <1>1, ElementOfSeq, StageOfFrame
<1>. QED BY <1>1 DEF Later

(* The handler at work goes on, and perhaps calls another.                 *)
LEMMA TopLater ==
  ASSUME NEW s \in Seq(Frame), s # <<>>, NEW f \in Frame,
         Stage[s[Len(s)].phase] <= Stage[f.phase]
  PROVE  LET r == [s EXCEPT ![Len(s)] = f] IN
         Later(s, r) /\ \A g \in Frame : Later(s, Append(r, g))
<1>. DEFINE r == [s EXCEPT ![Len(s)] = f]
<1>1. /\ r \in Seq(Frame) /\ Len(r) = Len(s) /\ Len(s) \in Nat \ {0}
      /\ r[Len(s)] = f
      /\ \A i \in 1..(Len(s) - 1) : r[i] = s[i]
  BY TopReplaced
<1>. HIDE DEF r
<1>2. ASSUME NEW i \in 1..Len(s)
      PROVE  Stage[s[i].phase] <= Stage[r[i].phase]
  <2>1. CASE i = Len(s)
    BY <1>1, <2>1
  <2>2. CASE i # Len(s)
    <3>1. r[i] = s[i]
      BY <1>1, <2>2
    <3>2. Stage[s[i].phase] \in 1..7
      BY ElementOfSeq, StageOfFrame
    <3>. QED BY <3>1, <3>2
  <2>. QED BY <2>1, <2>2
<1>3. ASSUME NEW g \in Frame
      PROVE  Later(s, Append(r, g))
  <2>1. \A i \in 1..Len(r) : Append(r, g)[i] = r[i]
    BY <1>1, AppendProperties
  <2>. QED BY <1>1, <1>2, <2>1 DEF Later
<1>4. Later(s, r)
  BY <1>2 DEF Later
<1>. QED BY <1>3, <1>4 DEF r

(* A waiting handler goes on with the answer it gets.                      *)
LEMMA BelowLater ==
  ASSUME NEW s, SoundStack(s, store), NEW n \in Nat, n < Len(s), NEW a \in Answer \cup {Failed},
         a # Failed => a.node \in store
  PROVE  Later(s, Below(s, n, a))
<1>1. s \in Seq(Frame) /\ Len(s) \in Nat
  BY LenProperties DEF SoundStack
<1>2. ASSUME n > 0
      PROVE  /\ Resume(s[n], a) \in Frame
             /\ Stage[s[n].phase] <= Stage[Resume(s[n], a).phase]
  <2>1. n \in 1..Len(s)
    BY <1>1, <1>2
  <2>2. s[n] \in Frame /\ SoundFrame(s[n], store) /\ s[n].phase \in {"calling", "recalling"}
    BY <1>1, <2>1, ElementOfSeq DEF SoundStack
  <2>3. Resume(s[n], a) \in Frame
    BY <2>2, ResumeSound
  <2>4. Resume(s[n], a).phase = IF a = Failed /\ s[n].phase = "calling" THEN "reroute"
                                ELSE IF a = Failed THEN "fallback" ELSE "answering"
    BY <2>2 DEF Resume, Frame
  <2>. QED BY <2>2, <2>3, <2>4, StageOrder
<1>. DEFINE r == Below(s, n, a)
<1>3. /\ Len(r) = n
      /\ \A i \in 1..n : r[i] = IF i = n THEN Resume(s[n], a) ELSE s[i]
  BY <1>1, <1>2, BelowIsStack
<1>. HIDE DEF r
<1>4. ASSUME NEW i \in 1..Len(s), i <= n
      PROVE  Stage[s[i].phase] <= Stage[r[i].phase]
  <2>1. CASE i = n
    BY <1>2, <1>3, <2>1
  <2>2. CASE i # n
    <3>1. r[i] = s[i]
      BY <1>3, <1>4, <2>2
    <3>2. Stage[s[i].phase] \in 1..7
      BY <1>1, ElementOfSeq, StageOfFrame
    <3>. QED BY <3>1, <3>2
  <2>. QED BY <2>1, <2>2
<1>5. Later(s, r)
  BY <1>3, <1>4 DEF Later
<1>. QED BY <1>5 DEF r

(* The step of NoStepBack.                                                 *)
StepsOn == \A t \in Threads : ~Die(t) => Later(stack[t], stack'[t])

(* A step of one handler goes on if its own stack does.                    *)
LEMMA OthersStay ==
  ASSUME IInv, NEW t \in Threads, NEW s, stack' = [stack EXCEPT ![t] = s], Later(stack[t], s)
  PROVE  StepsOn
<1>1. ASSUME NEW u \in Threads
      PROVE  Later(stack[u], stack'[u])
  <2>1. CASE u = t
    BY <2>1 DEF IInv, RelayTypeOK
  <2>2. CASE u # t
    BY <2>2, SameIsLater DEF IInv, RelayTypeOK
  <2>. QED BY <2>1, <2>2
<1>. QED BY <1>1 DEF StepsOn

(* A handler that goes on by itself.                                       *)
LEMMA HandlerStepsOn ==
  ASSUME IInv, NEW t \in Threads,
         \/ Expire(t) \/ StoreFails(t) \/ ForwardFails(t) \/ ForwardRejected(t)
         \/ Reroute(t) \/ NoRoute(t)
         \/ ForwardAgainFails(t) \/ Keep(t) \/ KeepFails(t)
  PROVE  StepsOn
<1>. DEFINE f == Top(t)
<1>1. Running(t)
  BY DEF Expire, StoreFails, ForwardFails, ForwardRejected, Reroute, NoRoute,
         ForwardAgainFails, Keep, KeepFails, At
<1>2. /\ f \in Frame /\ f.node \in Nodes /\ stack[t] \in Seq(Frame) /\ stack[t] # <<>>
      /\ Stage[f.phase] \in 1..7
  BY <1>1, TopSound, StageOfFrame DEF Frame, SoundStack, Running
<1>3. ASSUME NEW g \in Frame, GoTo(t, g), Stage[f.phase] <= Stage[g.phase]
      PROVE  StepsOn
  <2>1. Later(stack[t], WithTop(t, g))
    BY <1>2, <1>3, TopLater DEF WithTop, Top
  <2>. QED BY <1>3, <2>1, OthersStay DEF GoTo
<1>4. ASSUME NEW a \in Answer \cup {Failed}, Reply(t, a)
      PROVE  StepsOn
  <2>. DEFINE g == [f EXCEPT !.phase = "answering", !.hops = <<>>, !.answer = a]
  <2>1. g \in Frame /\ g.phase = "answering"
    BY <1>2, EmptyRoute DEF Frame
  <2>2. GoTo(t, g)
    BY <1>4 DEF Reply, Replying, GoTo
  <2>. HIDE DEF g
  <2>. QED BY <1>2, <1>3, <2>1, <2>2, StageOrder
<1>5. ASSUME FallBack(t), Stage[f.phase] <= 6
      PROVE  StepsOn
  <2>. DEFINE g == [f EXCEPT !.phase = "fallback", !.hops = <<>>]
  <2>1. g \in Frame /\ g.phase = "fallback"
    BY <1>2, EmptyRoute DEF Frame
  <2>2. GoTo(t, g)
    BY <1>5 DEF FallBack
  <2>. HIDE DEF g
  <2>. QED BY <1>3, <1>5, <2>1, <2>2, StageOrder
<1>6. CASE Expire(t) \/ StoreFails(t) \/ KeepFails(t)
  BY <1>4, <1>6 DEF Expire, StoreFails, KeepFails
<1>7. CASE Keep(t)
  <2>1. [ok |-> FALSE, node |-> f.node] \in Answer
    BY <1>2 DEF Answer
  <2>. QED BY <1>4, <1>7, <2>1 DEF Keep
<1>8. CASE ForwardFails(t) \/ ForwardRejected(t)
  <2>. DEFINE g == [f EXCEPT !.phase = "reroute"]
  <2>1. g \in Frame /\ g.phase = "reroute" /\ f.phase = "arrived"
    BY <1>2, <1>8 DEF Frame, ForwardFails, ForwardRejected, At
  <2>2. GoTo(t, g)
    BY <1>8 DEF ForwardFails, ForwardRejected
  <2>. HIDE DEF g
  <2>. QED BY <1>3, <2>1, <2>2, StageOrder
<1>9. CASE Reroute(t)
  <2>1. PICK hops \in FullRoutes : GoTo(t, [f EXCEPT !.phase = "rerouted", !.hops = hops])
    BY <1>9 DEF Reroute
  <2>. DEFINE g == [f EXCEPT !.phase = "rerouted", !.hops = hops]
  <2>2. g \in Frame /\ g.phase = "rerouted" /\ f.phase = "reroute"
    BY <1>2, <1>9 DEF Frame, FullRoutes, Reroute, At
  <2>3. GoTo(t, g)
    BY <2>1
  <2>. HIDE DEF g
  <2>. QED BY <1>3, <2>2, <2>3, StageOrder
<1>10. CASE NoRoute(t) \/ ForwardAgainFails(t)
  BY <1>5, <1>10, StageOrder DEF NoRoute, ForwardAgainFails, At
<1>. QED BY <1>6, <1>7, <1>8, <1>9, <1>10

(* A handler that calls the next one.                                      *)
LEMMA CallStepsOn ==
  ASSUME IInv, NEW t \in Threads, Forward(t) \/ ForwardAgain(t)
  PROVE  StepsOn
<1>. DEFINE f == Top(t)
<1>1. PICK phase \in {"calling", "recalling"} :
        Call(t, phase) /\ Stage[f.phase] <= Stage[phase]
  BY StageOrder DEF Forward, ForwardAgain, At
<1>. DEFINE w == Waiting(f, phase)
            g == Request(f.hops[1], Tail(f.hops), f.ttl - 1, f.copies)
<1>2. Running(t) /\ f.hops # <<>> /\ f.ttl > 0
  BY TopSound DEF Forward, ForwardAgain, At, IsFinal, SoundFrame
<1>3. f \in Frame /\ f.ttl \in Nat /\ stack[t] \in Seq(Frame) /\ stack[t] # <<>>
  BY <1>2, TopSound DEF SoundStack, Running
<1>4. f.hops \in Routes /\ f.hops[1] \in Nodes /\ Tail(f.hops) \in Routes
  BY <1>2, <1>3, RouteSteps DEF Frame
<1>5. w \in Frame /\ w.phase = phase
  BY <1>3, <1>4, EmptyRoute DEF Waiting, Frame
<1>6. g \in Frame
  <2>1. f.ttl - 1 \in 0..(MaxRoute + 2)
    BY <1>2, <1>3, RelayConstants DEF Frame
  <2>. QED BY <1>3, <1>4, <2>1 DEF Request, Frame
<1>7. stack' = [stack EXCEPT ![t] = Append(WithTop(t, w), g)]
  BY <1>1 DEF Call
<1>. HIDE DEF w, g
<1>8. Later(stack[t], Append(WithTop(t, w), g))
  BY <1>1, <1>3, <1>5, <1>6, TopLater DEF WithTop, Top
<1>. QED BY <1>7, <1>8, OthersStay

(* The last hop of a route.                                                *)
LEMMA StoreStepsOn ==
  ASSUME IInv, NEW t \in Threads, Store(t)
  PROVE  StepsOn
<1>. DEFINE f == Top(t)
            a == [ok |-> TRUE, node |-> f.node]
            g == [f EXCEPT !.phase = "answering", !.hops = <<>>, !.answer = a]
<1>1. /\ f \in Frame /\ f.node \in Nodes /\ f.phase = "arrived"
      /\ stack[t] \in Seq(Frame) /\ stack[t] # <<>>
  BY TopSound DEF Store, At, Frame, SoundStack, Running
<1>2. a \in Answer
  BY <1>1 DEF Answer
<1>3. g \in Frame /\ g.phase = "answering"
  BY <1>1, <1>2, EmptyRoute DEF Frame
<1>4. PICK used \in SUBSET {u \in Strays : ~Running(u)} : \E peer \in [used -> Nodes \ {f.node}] :
        stack' = [u \in Threads |->
          IF u = t THEN Replying(t, a)
          ELSE IF u \in used THEN <<Replica(peer[u])>> ELSE stack[u]]
  BY DEF Store
<1>. HIDE DEF g
<1>5. Later(stack[t], Replying(t, a))
  <2>1. Later(stack[t], [stack[t] EXCEPT ![Len(stack[t])] = g])
    <3>1. Stage[stack[t][Len(stack[t])].phase] <= Stage[g.phase]
      BY <1>1, <1>3, StageOrder DEF Top
    <3>. QED BY <1>1, <1>3, <3>1, TopLater
  <2>. QED BY <2>1 DEF Replying, WithTop, g
<1>6. ASSUME NEW u \in Threads
      PROVE  Later(stack[u], stack'[u])
  <2>1. CASE u = t
    BY <1>4, <1>5, <2>1
  <2>2. CASE u # t /\ u \in used
    <3>1. stack[u] = <<>>
      BY <2>2 DEF Running
    <3>2. Len(stack[u]) = 0
      BY <3>1, EmptySeq
    <3>. QED BY <3>2 DEF Later
  <2>3. CASE u # t /\ u \notin used
    BY <1>4, <2>3, SameIsLater DEF IInv, RelayTypeOK
  <2>. QED BY <2>1, <2>2, <2>3
<1>. QED BY <1>6 DEF StepsOn

(* An answer on its way back.                                              *)
LEMMA ReturnStepsOn ==
  ASSUME IInv, NEW t \in Threads, Return(t)
  PROVE  StepsOn
<1>. DEFINE n == Len(stack[t]) - 1
            a == Top(t).answer
<1>1. Running(t) /\ stack[t] # <<>> /\ Top(t).phase = "answering"
  BY DEF Return, At, Running
<1>2. a \in Answer \cup {Failed} /\ (a # Failed => a.node \in store) /\ SoundStack(stack[t], store)
  BY <1>1, TopSound DEF Frame, SoundFrame
<1>3. n \in Nat /\ n < Len(stack[t])
  BY <1>1, <1>2, SoundFacts
<1>4. Later(stack[t], Below(stack[t], n, a))
  BY <1>2, <1>3, BelowLater
<1>5. stack' = [stack EXCEPT ![t] = Below(stack[t], n, a)]
  BY DEF Return
<1>. QED BY <1>4, <1>5, OthersStay

(* A stack that parts in two: both parts stay where they were or go on.    *)
LEMMA BreakStepsOn ==
  ASSUME IInv, NEW t \in Threads, NEW u \in Strays, NEW n \in 0..(MaxRoute + 2), Break(t, u, n)
  PROVE  StepsOn
<1>. DEFINE s == Below(stack[t], n, Failed)
            r == SubSeq(stack[t], n + 1, Len(stack[t]))
<1>1. n \in Nat /\ n < Len(stack[t]) /\ SoundStack(stack[t], store)
  BY RelayConstants DEF Break, IInv
<1>2. Later(stack[t], s)
  BY <1>1, BelowLater
<1>3. stack' = [stack EXCEPT ![t] = s, ![u] = r] /\ stack[u] = <<>> /\ u \in Threads
  BY DEF Break, Running, Threads
<1>4. Len(stack[u]) = 0 /\ u # t
  BY <1>1, <1>3, EmptySeq
<1>. HIDE DEF s, r
<1>5. ASSUME NEW v \in Threads
      PROVE  Later(stack[v], stack'[v])
  <2>1. CASE v = t
    BY <1>2, <1>3, <1>4, <2>1 DEF IInv, RelayTypeOK
  <2>2. CASE v = u
    BY <1>4, <2>2 DEF Later
  <2>3. CASE v # t /\ v # u
    BY <1>3, <2>3, SameIsLater DEF IInv, RelayTypeOK
  <2>. QED BY <2>1, <2>2, <2>3
<1>. QED BY <1>5 DEF StepsOn

(* The first call, on a stack that was empty.                              *)
LEMMA FirstCallStepsOn ==
  ASSUME IInv, sender.phase = "ready", NEW f, stack' = [stack EXCEPT ![Main] = <<f>>]
  PROVE  StepsOn
<1>1. stack[Main] = <<>> /\ Main \in Threads
  BY DEF IInv, Threads
<1>2. Later(stack[Main], <<f>>)
  BY <1>1, EmptySeq DEF Later
<1>. QED BY <1>1, <1>2, OthersStay

(* A handler never tries again what it has done: forward, reroute, forward *)
(* once more, keep, in this order.                                         *)
THEOREM NothingIsTriedAgain == Spec => NoStepBack
<1>1. ASSUME IInv, [Next]_relayVars
      PROVE  [StepsOn]_relayVars
  <2>1. ASSUME NEW u \in Strays, Die(u)
        PROVE  StepsOn
    BY <1>1, <2>1, SameIsLater DEF StepsOn, Die, IInv, RelayTypeOK
  <2>2. ASSUME NEW route \in FullRoutes, Send(route)
        PROVE  StepsOn
    BY <1>1, <2>2, FirstCallStepsOn DEF Send
  <2>3. ASSUME NEW n \in Nodes, NEW hops \in Routes, NEW ttl \in 0..(MaxRoute + 2),
               NEW copies \in 1..Replicas, Submit(n, hops, ttl, copies)
        PROVE  StepsOn
    BY <1>1, <2>3, FirstCallStepsOn DEF Submit
  <2>4. ASSUME UNCHANGED stack
        PROVE  StepsOn
    BY <1>1, <2>4, SameIsLater DEF StepsOn, IInv, RelayTypeOK
  <2>5. CASE UNCHANGED relayVars
    BY <2>5
  <2>6. ASSUME NEW route \in FullRoutes, SendFails(route)
        PROVE  StepsOn
    BY <2>4, <2>6 DEF SendFails
  <2>7. ASSUME SendAlone
        PROVE  StepsOn
    BY <2>4, <2>7 DEF SendAlone
  <2>. QED
    BY <1>1, <2>1, <2>2, <2>3, <2>5, <2>6, <2>7, NextCases, HandlerStepsOn, StoreStepsOn,
       CallStepsOn, ReturnStepsOn, BreakStepsOn
<1>2. [StepsOn]_relayVars =>
        [\A t \in Threads : ~Die(t) =>
           \A i \in 1..Len(stack[t]) : i <= Len(stack'[t]) =>
             Stage[stack[t][i].phase] <= Stage[stack'[t][i].phase]]_relayVars
  BY DEF StepsOn, Later
<1>. QED BY <1>1, <1>2, RelayInvariant, PTL DEF Spec, NoStepBack

-----------------------------------------------------------------------------
(* As long as nothing fails, without the interceptor and behind it *)

(* A handler of the route: its ttl is enough for the hops it has left, and *)
(* these lead to dest.                                                     *)
CleanFrame(f, d) ==
  /\ f.phase \in {"arrived", "calling", "answering"}
  /\ f.copies = Replicas
  /\ f.phase # "answering" =>
       /\ f.ttl = Len(f.hops) + 2
       /\ d = IF f.hops = <<>> THEN f.node ELSE FinalHop(f.hops)
  /\ f.phase = "answering" => f.answer = [ok |-> TRUE, node |-> d]

CleanStack(s, d) == \A i \in 1..Len(s) : CleanFrame(s[i], d)

(* A stray stack is one replica.                                           *)
ReplicaStack(s) ==
  /\ Len(s) = 1
  /\ s[1].phase \in {"arrived", "answering"}
  /\ s[1].ttl = 1 /\ s[1].hops = <<>> /\ s[1].copies = 1

(* Nodes that have the chunk, or to which a replica is on its way.         *)
Holders == store \cup {stack[u][1].node : u \in {u \in Strays : Running(u)}}

CleanInv == ~trouble /\ ~guarded =>
  /\ CleanStack(stack[Main], dest)
  /\ \A u \in Strays : Running(u) => ReplicaStack(stack[u])
  /\ sender.phase = "answered" => sender.answer = [ok |-> TRUE, node |-> dest]
  /\ sender.phase # "waiting" => stack[Main] = <<>>
  /\ sender.phase = "ready" \/ At(Main, "arrived") => Holders = {}
  /\ IsFiniteSet(Holders) /\ Cardinality(Holders) <= Replicas

(* Nothing has failed and nobody holds the chunk at first.                 *)
LEMMA InitCleanInv == Init => CleanInv
<1>. SUFFICES ASSUME Init PROVE CleanInv
  OBVIOUS
<1>1. Main \in Threads /\ Strays \subseteq Threads
  BY DEF Threads
<1>2. Holders = {}
  BY <1>1 DEF Init, Holders, Running
<1>3. IsFiniteSet(Holders) /\ Cardinality(Holders) = 0
  BY <1>2, FS_EmptySet
<1>4. CleanStack(stack[Main], dest)
  BY <1>1, EmptySeq DEF Init, CleanStack
<1>. QED BY <1>1, <1>2, <1>3, <1>4, RelayConstants DEF Init, CleanInv, Running

(* The handler at work on the sender's stack.                              *)
LEMMA TopClean ==
  ASSUME IInv, CleanStack(stack[Main], dest), Running(Main)
  PROVE  CleanFrame(Top(Main), dest)
<1>1. Len(stack[Main]) \in 1..Len(stack[Main])
  <2>1. Main \in Threads
    BY DEF Threads
  <2>2. Len(stack[Main]) \in Nat \ {0}
    BY <2>1, TopSound, SoundFacts DEF Running
  <2>. QED BY <2>2
<1>. QED BY <1>1 DEF CleanStack, Top

(* A replica has no hops and does not replicate, and its ttl is not 0.     *)
LEMMA TopReplica ==
  ASSUME NEW u \in Strays, Running(u), ReplicaStack(stack[u])
  PROVE  /\ Top(u) = stack[u][1]
         /\ Top(u).phase \in {"arrived", "answering"}
         /\ Top(u).ttl = 1 /\ Top(u).copies = 1 /\ IsFinal(Top(u))
BY DEF ReplicaStack, Top, IsFinal

(* A clean stack whose last handler goes on, and perhaps calls another.    *)
LEMMA CleanTopReplaced ==
  ASSUME NEW s \in Seq(Frame), s # <<>>, CleanStack(s, dest), NEW f \in Frame, CleanFrame(f, dest)
  PROVE  LET r == [s EXCEPT ![Len(s)] = f] IN
         CleanStack(r, dest) /\ \A g \in Frame : CleanFrame(g, dest) => CleanStack(Append(r, g), dest)
<1>. DEFINE r == [s EXCEPT ![Len(s)] = f]
<1>1. /\ r \in Seq(Frame) /\ Len(r) = Len(s) /\ Len(s) \in Nat \ {0}
      /\ r[Len(s)] = f
      /\ \A i \in 1..(Len(s) - 1) : r[i] = s[i]
  BY TopReplaced
<1>. HIDE DEF r
<1>2. ASSUME NEW i \in 1..Len(s)
      PROVE  CleanFrame(r[i], dest)
  <2>1. CASE i = Len(s)
    BY <1>1, <2>1
  <2>2. CASE i # Len(s)
    <3>1. r[i] = s[i]
      BY <1>1, <2>2
    <3>. QED BY <3>1 DEF CleanStack
  <2>. QED BY <2>1, <2>2
<1>3. CleanStack(r, dest)
  BY <1>1, <1>2 DEF CleanStack
<1>4. ASSUME NEW g \in Frame, CleanFrame(g, dest)
      PROVE  CleanStack(Append(r, g), dest)
  <2>1. /\ Len(Append(r, g)) = Len(s) + 1
        /\ \A i \in 1..Len(s) : Append(r, g)[i] = r[i]
        /\ Append(r, g)[Len(s) + 1] = g
    BY <1>1, AppendProperties
  <2>2. ASSUME NEW i \in 1..(Len(s) + 1)
        PROVE  CleanFrame(Append(r, g)[i], dest)
    <3>1. CASE i = Len(s) + 1
      BY <1>4, <2>1, <3>1
    <3>2. CASE i # Len(s) + 1
      <4>1. i \in 1..Len(s)
        BY <1>1, <3>2
      <4>. QED BY <1>2, <2>1, <4>1
    <3>. QED BY <3>1, <3>2
  <2>. QED BY <2>1, <2>2 DEF CleanStack
<1>. QED BY <1>3, <1>4 DEF r

(* A step that touches neither the strays nor the store.                   *)
LEMMA SameHolders ==
  ASSUME store' = store, \A u \in Strays : stack'[u] = stack[u]
  PROVE  Holders' = Holders
BY DEF Holders, Running

(* The sender gives the route its ttl.                                     *)
LEMMA SendClean ==
  ASSUME IInv, CleanInv, ~trouble, ~guarded, NEW route \in FullRoutes, Send(route)
  PROVE  CleanInv'
<1>. DEFINE f == Request(route[1], route, Len(route) + 2, Replicas)
<1>1. stack' = [stack EXCEPT ![Main] = <<f>>]
  BY DEF Send
<1>2. Main \in Threads /\ Main \notin Strays /\ Strays \subseteq Threads
  BY RelayConstants DEF Threads
<1>3. f.phase = "arrived" /\ f.ttl = Len(f.hops) + 2 /\ f.copies = Replicas
      /\ dest = FinalHop(f.hops) /\ f.hops # <<>>
  BY DEF Send, Request, FullRoutes
<1>. HIDE DEF f
<1>4. stack'[Main] = <<f>> /\ \A u \in Strays : stack'[u] = stack[u]
  BY <1>1, <1>2 DEF IInv, RelayTypeOK
<1>5. CleanStack(stack'[Main], dest')
  <2>1. dest' = dest
    BY DEF Send
  <2>2. CleanFrame(f, dest')
    BY <1>3, <2>1 DEF CleanFrame
  <2>. QED BY <1>4, <2>2 DEF CleanStack
<1>6. Holders' = Holders /\ Holders = {}
  BY <1>4, SameHolders DEF Send, CleanInv
<1>7. sender'.phase = "waiting"
  BY DEF Send, IInv, RelayTypeOK
<1>. QED BY <1>4, <1>5, <1>6, <1>7 DEF CleanInv, Running

(* Each forward takes one hop and one of the ttl.                          *)
LEMMA ForwardClean ==
  ASSUME IInv, CleanInv, ~trouble, ~guarded, NEW t \in Threads, Forward(t)
  PROVE  CleanInv'
<1>. DEFINE f == Top(Main)
            w == Waiting(f, "calling")
            g == Request(f.hops[1], Tail(f.hops), f.ttl - 1, f.copies)
<1>1. t = Main
  <2>1. CASE t \in Strays
    BY <2>1, TopReplica DEF Forward, At, CleanInv
  <2>. QED BY <2>1 DEF Threads
<1>2. Main \in Threads /\ Main \notin Strays
  BY RelayConstants DEF Threads
<1>3. /\ Running(Main) /\ f.phase = "arrived" /\ f.hops # <<>> /\ f.ttl > 0
      /\ stack' = [stack EXCEPT ![Main] = Append(WithTop(Main, w), g)]
      /\ UNCHANGED <<guarded, sender, dest, store, trouble>>
  BY <1>1 DEF Forward, At, Call, IsFinal
<1>4. /\ f \in Frame /\ f.ttl \in Nat /\ f.copies \in 1..Replicas
      /\ stack[Main] \in Seq(Frame) /\ stack[Main] # <<>> /\ CleanFrame(f, dest)
  BY <1>2, <1>3, TopSound, TopClean DEF SoundStack, Running, CleanInv
<1>5. /\ f.hops \in Routes /\ f.hops[1] \in Nodes /\ Tail(f.hops) \in Routes
      /\ Len(f.hops) \in Nat /\ Len(Tail(f.hops)) = Len(f.hops) - 1
      /\ Tail(f.hops) # <<>> => FinalHop(Tail(f.hops)) = FinalHop(f.hops)
      /\ Tail(f.hops) = <<>> => FinalHop(f.hops) = f.hops[1]
  BY <1>3, <1>4, RouteSteps DEF Frame
<1>6. w \in Frame /\ CleanFrame(w, dest)
  BY <1>3, <1>4 DEF Waiting, Frame, CleanFrame
<1>7. g \in Frame /\ CleanFrame(g, dest) /\ g.phase = "arrived"
  <2>1. f.ttl - 1 \in 0..(MaxRoute + 2)
    BY <1>3, <1>4, RelayConstants DEF Frame
  <2>2. g \in Frame
    BY <1>4, <1>5, <2>1 DEF Request, Frame
  <2>3. /\ g.phase = "arrived" /\ g.copies = f.copies /\ g.ttl = f.ttl - 1
        /\ g.hops = Tail(f.hops) /\ g.node = f.hops[1]
    BY DEF Request
  <2>4. f.ttl = Len(f.hops) + 2 /\ f.copies = Replicas /\ dest = FinalHop(f.hops)
    BY <1>3, <1>4 DEF CleanFrame
  <2>5. f.ttl - 1 = (Len(f.hops) - 1) + 2
    BY <1>5, <2>4
  <2>6. g.ttl = Len(g.hops) + 2
    BY <1>5, <2>3, <2>5
  <2>. HIDE DEF g
  <2>. QED BY <1>5, <2>2, <2>3, <2>4, <2>6 DEF CleanFrame
<1>. HIDE DEF w, g
<1>8. CleanStack(Append(WithTop(Main, w), g), dest)
  BY <1>4, <1>6, <1>7, CleanTopReplaced DEF WithTop, CleanInv
<1>9. CleanStack(stack'[Main], dest') /\ \A u \in Strays : stack'[u] = stack[u]
  <2>1. stack'[Main] = Append(WithTop(Main, w), g) /\ dest' = dest
    BY <1>2, <1>3 DEF IInv, RelayTypeOK
  <2>. QED BY <1>2, <1>3, <1>8, <2>1 DEF IInv, RelayTypeOK
<1>10. Holders' = Holders /\ Holders = {}
  BY <1>3, <1>9, SameHolders DEF CleanInv, At
<1>11. sender.phase = "waiting"
  BY <1>3 DEF CleanInv, Running
<1>. QED BY <1>3, <1>9, <1>10, <1>11 DEF CleanInv, Running

(* The answer of the last hop is passed on as it is.                       *)
LEMMA ReturnClean ==
  ASSUME IInv, CleanInv, ~trouble, ~guarded, NEW t \in Threads, Return(t)
  PROVE  CleanInv'
<1>. DEFINE n == Len(stack[t]) - 1
            a == Top(t).answer
<1>1. Running(t) /\ Top(t).phase = "answering"
  BY DEF Return, At
<1>2. /\ SoundStack(stack[t], store) /\ stack[t] # <<>> /\ stack[t] \in Seq(Frame)
      /\ a \in Answer \cup {Failed}
  BY <1>1, TopSound DEF Running, SoundStack, Frame
<1>3. n \in Nat /\ n < Len(stack[t]) /\ Len(stack[t]) \in Nat
  BY <1>2, SoundFacts
<1>4. /\ stack' = [stack EXCEPT ![t] = Below(stack[t], n, a)]
      /\ sender' = IF n = 0 /\ t = Main THEN [phase |-> "answered", answer |-> a] ELSE sender
      /\ UNCHANGED <<guarded, dest, store, trouble>>
  BY DEF Return
<1>5. Main \in Threads /\ Main \notin Strays /\ Strays \subseteq Threads
  BY RelayConstants DEF Threads
<1>6. CASE t = Main
  <2>1. CleanFrame(Top(Main), dest) /\ a = [ok |-> TRUE, node |-> dest] /\ a # Failed
    <3>1. CleanFrame(Top(Main), dest)
      BY <1>1, <1>6, TopClean DEF CleanInv
    <3>2. a = [ok |-> TRUE, node |-> dest]
      BY <1>1, <1>6, <3>1 DEF CleanFrame
    <3>3. [ok |-> TRUE, node |-> dest] \in [ok : BOOLEAN, node : Nodes]
      BY DEF IInv, RelayTypeOK
    <3>. QED BY <3>1, <3>2, <3>3, RelayConstants
  <2>2. ASSUME n > 0
        PROVE  /\ Resume(stack[t][n], a) \in Frame
               /\ CleanFrame(Resume(stack[t][n], a), dest)
               /\ Resume(stack[t][n], a).phase = "answering"
    <3>1. n \in 1..Len(stack[t])
      BY <1>3, <2>2
    <3>2. /\ stack[t][n] \in Frame /\ CleanFrame(stack[t][n], dest) /\ SoundFrame(stack[t][n], store)
          /\ stack[t][n].phase \in {"calling", "recalling"}
      BY <1>2, <1>3, <1>6, <3>1, ElementOfSeq DEF SoundStack, CleanStack, CleanInv
    <3>3. Resume(stack[t][n], a) = [stack[t][n] EXCEPT !.phase = "answering", !.hops = <<>>,
                                                       !.answer = a]
      BY <2>1 DEF Resume
    <3>. QED BY <1>2, <2>1, <3>2, <3>3, EmptyRoute DEF Frame, CleanFrame
  <2>. DEFINE r == Below(stack[t], n, a)
  <2>3. /\ r \in Seq(Frame) /\ Len(r) = n
        /\ \A i \in 1..n : r[i] = IF i = n THEN Resume(stack[t][n], a) ELSE stack[t][i]
    BY <1>2, <1>3, <2>2, BelowIsStack
  <2>4. stack'[Main] = r /\ \A u \in Strays : stack'[u] = stack[u]
    BY <1>4, <1>5, <1>6 DEF IInv, RelayTypeOK
  <2>. HIDE DEF n, r, a
  <2>5. CleanStack(r, dest)
    <3>1. ASSUME NEW i \in 1..n
          PROVE  CleanFrame(r[i], dest)
      <4>1. CASE i = n
        BY <2>2, <2>3, <4>1
      <4>2. CASE i # n
        <5>1. r[i] = stack[t][i] /\ i \in 1..Len(stack[t])
          BY <1>3, <2>3, <4>2
        <5>. QED BY <1>6, <5>1 DEF CleanInv, CleanStack
      <4>. QED BY <4>1, <4>2
    <3>. QED BY <2>3, <3>1 DEF CleanStack
  <2>6. CleanStack(stack'[Main], dest')
    BY <1>4, <2>4, <2>5 DEF CleanStack, CleanFrame
  <2>7. Holders' = Holders
    BY <1>4, <2>4, SameHolders
  <2>8. sender.phase = "waiting"
    BY <1>1, <1>6 DEF CleanInv, Running
  <2>9. CASE n = 0
    <3>1. stack'[Main] = <<>>
      BY <2>3, <2>4, <2>9, EmptySeq
    <3>2. sender' = [phase |-> "answered", answer |-> a] /\ dest' = dest
      BY <1>4, <1>6, <2>9
    <3>. QED BY <2>1, <2>4, <2>6, <2>7, <3>1, <3>2 DEF CleanInv, Running, At
  <2>10. CASE n # 0
    <3>1. sender' = sender /\ dest' = dest
      BY <1>4, <2>10
    <3>2. Len(r) = n /\ r[n].phase = "answering"
      <4>1. n > 0 /\ n \in 1..n
        BY <1>3, <2>10
      <4>. QED BY <2>2, <2>3, <4>1
    <3>3. ~At(Main, "arrived")'
      BY <2>4, <3>2 DEF At, Top
    <3>. QED BY <2>4, <2>6, <2>7, <2>8, <3>1, <3>3 DEF CleanInv, Running
  <2>. QED BY <2>9, <2>10
<1>7. CASE t # Main
  <2>1. t \in Strays
    BY <1>7 DEF Threads
  <2>2. ReplicaStack(stack[t])
    BY <1>1, <2>1 DEF CleanInv
  <2>3. Len(stack[t]) = 1
    BY <2>2 DEF ReplicaStack
  <2>4. Below(stack[t], n, a) = <<>>
    BY <2>3 DEF Below
  <2>5. /\ stack'[t] = <<>> /\ stack'[Main] = stack[Main]
        /\ \A u \in Strays : u # t => stack'[u] = stack[u]
    BY <1>4, <1>5, <1>7, <2>4 DEF IInv, RelayTypeOK
  <2>6. sender' = sender /\ dest' = dest /\ store' = store
    BY <1>4, <1>7
  <2>. HIDE DEF n, a
  <2>7. Holders' \subseteq Holders
    BY <2>5, <2>6 DEF Holders, Running
  <2>8. /\ IsFiniteSet(Holders') /\ Cardinality(Holders') <= Replicas
        /\ Holders = {} => Holders' = {}
    <3>1. IsFiniteSet(Holders) /\ Cardinality(Holders) <= Replicas
      BY DEF CleanInv
    <3>2. IsFiniteSet(Holders') /\ Cardinality(Holders') <= Cardinality(Holders)
      BY <2>7, <3>1, FS_Subset
    <3>3. Cardinality(Holders) \in Nat /\ Cardinality(Holders') \in Nat
      BY <3>1, <3>2, FS_CardinalityType
    <3>. QED BY <2>7, <3>1, <3>2, <3>3, RelayConstants
  <2>9. CleanStack(stack'[Main], dest')
    BY <2>5, <2>6 DEF CleanInv, CleanStack, CleanFrame
  <2>10. \A u \in Strays : Running(u)' => ReplicaStack(stack'[u])
    BY <2>5 DEF CleanInv, Running
  <2>11. At(Main, "arrived")' => At(Main, "arrived")
    BY <2>5 DEF At, Running, Top
  <2>. QED BY <2>5, <2>6, <2>8, <2>9, <2>10, <2>11 DEF CleanInv, ReplicaStack
<1>. QED BY <1>6, <1>7

(* The last hop stores the chunk and starts the replicas; a replica only   *)
(* stores it.                                                              *)
LEMMA StoreClean ==
  ASSUME IInv, CleanInv, ~trouble, ~guarded, NEW t \in Threads, Store(t)
  PROVE  CleanInv'
<1>. DEFINE f == Top(t)
            a == [ok |-> TRUE, node |-> f.node]
            g == [f EXCEPT !.phase = "answering", !.hops = <<>>, !.answer = a]
<1>1. Main \in Threads /\ Main \notin Strays /\ Strays \subseteq Threads
  BY RelayConstants DEF Threads
<1>2. At(t, "arrived") /\ Running(t) /\ f.phase = "arrived" /\ IsFinal(f)
  BY DEF Store, At
<1>3. /\ f \in Frame /\ f.node \in Nodes /\ f.copies \in 1..Replicas
      /\ SoundStack(stack[t], store) /\ stack[t] \in Seq(Frame) /\ stack[t] # <<>>
  BY <1>2, TopSound DEF Frame, SoundStack, Running
<1>4. store' = store \cup {f.node} /\ UNCHANGED <<guarded, sender, dest, trouble>>
  BY DEF Store
<1>. DEFINE Starts(used, peer) ==
              stack' = [u \in Threads |->
                IF u = t THEN Replying(t, a)
                ELSE IF u \in used THEN <<Replica(peer[u])>> ELSE stack[u]]
<1>4a. PICK used \in SUBSET {u \in Strays : ~Running(u)} :
         Cardinality(used) < f.copies /\ \E peer \in [used -> Nodes \ {f.node}] : Starts(used, peer)
  BY DEF Store
<1>5. PICK peer \in [used -> Nodes \ {f.node}] : Cardinality(used) < f.copies /\ Starts(used, peer)
  BY <1>4a
<1>6. IsFiniteSet(used) /\ Cardinality(used) \in Nat
  <2>1. used \in SUBSET Strays
    OBVIOUS
  <2>. QED BY <2>1, RelayConstants, FS_Subset, FS_CardinalityType
<1>7. a \in Answer /\ g \in Frame /\ g.node = f.node /\ g.phase = "answering"
      /\ g.answer = a /\ g.copies = f.copies /\ g.hops = <<>> /\ g.ttl = f.ttl
  <2>1. a \in Answer
    BY <1>3 DEF Answer
  <2>. QED BY <1>3, <2>1, EmptyRoute DEF Frame
<1>8. Replying(t, a) = [stack[t] EXCEPT ![Len(stack[t])] = g]
  BY DEF Replying, WithTop
<1>. HIDE DEF g
<1>9. ASSUME NEW u \in Strays, u # t, u \in used
      PROVE  ReplicaStack(stack'[u]) /\ stack'[u] # <<>> /\ stack'[u][1].node = peer[u]
  <2>1. stack'[u] = <<Replica(peer[u])>>
    BY <1>1, <1>5, <1>9
  <2>2. /\ Replica(peer[u]).phase = "arrived" /\ Replica(peer[u]).ttl = 1
        /\ Replica(peer[u]).hops = <<>> /\ Replica(peer[u]).copies = 1
        /\ Replica(peer[u]).node = peer[u]
    BY DEF Replica, Request
  <2>. HIDE DEF Replica
  <2>. QED BY <2>1, <2>2 DEF ReplicaStack
<1>10. ASSUME NEW u \in Strays, u # t, u \notin used
       PROVE  stack'[u] = stack[u]
  BY <1>1, <1>5, <1>10
<1>11. stack'[t] = [stack[t] EXCEPT ![Len(stack[t])] = g]
  BY <1>5, <1>8
<1>12. /\ stack'[t] \in Seq(Frame) /\ Len(stack'[t]) = Len(stack[t])
       /\ Len(stack[t]) \in Nat \ {0} /\ stack'[t][Len(stack[t])] = g
  BY <1>3, <1>7, <1>11, TopReplaced
<1>13. CASE t = Main
  <2>1. CleanFrame(f, dest) /\ f.node = dest /\ f.copies = Replicas
    <3>1. CleanFrame(f, dest)
      BY <1>2, <1>13, TopClean DEF CleanInv
    <3>2. CASE f.hops = <<>>
      BY <1>2, <3>1, <3>2 DEF CleanFrame
    <3>3. CASE f.hops = <<f.node>>
      <4>1. FinalHop(f.hops) = f.node /\ f.hops # <<>>
        BY <3>3 DEF FinalHop
      <4>. QED BY <1>2, <3>1, <4>1 DEF CleanFrame
    <3>. QED BY <1>2, <3>1, <3>2, <3>3 DEF IsFinal, CleanFrame
  <2>2. CleanFrame(g, dest)
    BY <1>7, <2>1 DEF CleanFrame
  <2>3. CleanStack(stack'[Main], dest')
    <3>1. CleanStack([stack[t] EXCEPT ![Len(stack[t])] = g], dest)
      BY <1>3, <1>7, <1>13, <2>2, CleanTopReplaced DEF CleanInv
    <3>. QED BY <1>4, <1>11, <1>13, <3>1
  <2>4. Holders = {}
    BY <1>2, <1>13 DEF CleanInv
  <2>5. store = {} /\ \A u \in Strays : ~Running(u)
    BY <2>4 DEF Holders
  <2>6. Holders' = {f.node} \cup {peer[u] : u \in used}
    <3>1. {u \in Strays : Running(u)'} = used
      BY <1>9, <1>10, <1>13, <1>1, <2>5 DEF Running
    <3>2. \A u \in used : stack'[u][1].node = peer[u]
      BY <1>1, <1>9, <1>13
    <3>3. Holders' = store' \cup {stack'[u][1].node : u \in used}
      BY <3>1 DEF Holders
    <3>4. {stack'[u][1].node : u \in used} = {peer[u] : u \in used}
      BY <3>2
    <3>. QED BY <1>4, <2>5, <3>3, <3>4
  <2>7. IsFiniteSet(Holders') /\ Cardinality(Holders') <= Replicas
    <3>. DEFINE P == {peer[u] : u \in used}
    <3>1. peer \in Surjection(used, P)
      BY DEF Surjection
    <3>2. IsFiniteSet(P) /\ Cardinality(P) <= Cardinality(used)
      BY <1>6, <3>1, FS_Surjection
    <3>3. Cardinality(P) \in Nat
      BY <3>2, FS_CardinalityType
    <3>4. IsFiniteSet(P \cup {f.node}) /\ Cardinality(P \cup {f.node}) <= Cardinality(P) + 1
      <4>1. Cardinality(P \cup {f.node}) \in {Cardinality(P), Cardinality(P) + 1}
        BY <3>2, FS_AddElement
      <4>. QED BY <3>2, <3>3, <4>1, FS_AddElement
    <3>5. Holders' = P \cup {f.node}
      BY <2>6
    <3>6. Cardinality(Holders') \in Nat
      BY <3>4, <3>5, FS_CardinalityType
    <3>. HIDE DEF P
    <3>. QED BY <1>5, <1>6, <2>1, <3>2, <3>3, <3>4, <3>5, <3>6, RelayConstants
  <2>8. \A u \in Strays : stack'[u] # <<>> => ReplicaStack(stack'[u])
    BY <1>1, <1>9, <1>10, <1>13, <2>5 DEF Running
  <2>9. sender' = sender /\ sender.phase = "waiting" /\ dest' = dest
    BY <1>2, <1>4, <1>13 DEF CleanInv, Running
  <2>10. ~At(Main, "arrived")'
    BY <1>7, <1>12, <1>13 DEF At, Top
  <2>. QED BY <2>3, <2>7, <2>8, <2>9, <2>10 DEF CleanInv, Running
<1>14. CASE t # Main
  <2>1. t \in Strays /\ ReplicaStack(stack[t])
    BY <1>2, <1>14 DEF Threads, CleanInv
  <2>2. f = stack[t][1] /\ f.copies = 1 /\ f.ttl = 1 /\ f.hops = <<>>
    BY <1>2, <2>1, TopReplica DEF ReplicaStack
  <2>3. used = {}
    <3>1. Cardinality(used) = 0
      BY <1>5, <1>6, <2>2
    <3>. QED BY <1>6, <3>1, FS_EmptySet
  <2>4. stack'[Main] = stack[Main] /\ \A u \in Strays : u # t => stack'[u] = stack[u]
    BY <1>1, <1>5, <1>14, <2>3
  <2>5. stack'[t] # <<>> /\ stack'[t][1] = g /\ ReplicaStack(stack'[t])
    <3>1. Len(stack'[t]) = 1 /\ stack'[t][1] = g
      BY <1>12, <2>1 DEF ReplicaStack
    <3>2. stack'[t] # <<>>
      BY <3>1, EmptySeq
    <3>. QED BY <1>7, <2>2, <3>1, <3>2 DEF ReplicaStack
  <2>6. Holders' = Holders
    <3>1. {u \in Strays : Running(u)'} = {u \in Strays : Running(u)}
      BY <1>2, <2>4, <2>5 DEF Running
    <3>2. \A u \in Strays : stack'[u][1].node = stack[u][1].node
      BY <1>7, <2>2, <2>4, <2>5
    <3>3. {stack'[u][1].node : u \in {u \in Strays : Running(u)}}
            = {stack[u][1].node : u \in {u \in Strays : Running(u)}}
      BY <3>2
    <3>4. f.node \in Holders
      BY <1>2, <2>1, <2>2 DEF Holders
    <3>. QED BY <1>4, <3>1, <3>3, <3>4 DEF Holders
  <2>7. CleanStack(stack'[Main], dest') /\ sender' = sender /\ dest' = dest
    BY <1>4, <2>4 DEF CleanInv
  <2>8. \A u \in Strays : stack'[u] # <<>> => ReplicaStack(stack'[u])
    BY <2>4, <2>5 DEF CleanInv, Running
  <2>9. At(Main, "arrived")' => At(Main, "arrived")
    BY <2>4 DEF At, Running, Top
  <2>. QED BY <2>4, <2>6, <2>7, <2>8, <2>9 DEF CleanInv, Running
<1>. QED BY <1>13, <1>14

(* In a clean run no ttl runs out, and nothing is rerouted or kept.        *)
LEMMA CleanPhases ==
  ASSUME IInv, CleanInv, ~trouble, ~guarded, NEW t \in Threads, Running(t)
  PROVE  /\ Top(t).phase \in {"arrived", "calling", "answering"}
         /\ Top(t).phase = "arrived" => Top(t).ttl # 0
<1>1. CASE t = Main
  <2>1. CleanFrame(Top(t), dest) /\ Top(t) \in Frame
    BY <1>1, TopClean, TopSound DEF CleanInv
  <2>2. Len(Top(t).hops) \in Nat
    BY <2>1, RouteIsSeq, LenProperties DEF Frame
  <2>. QED BY <2>1, <2>2 DEF CleanFrame
<1>2. CASE t # Main
  BY <1>2, TopReplica DEF Threads, CleanInv
<1>. QED BY <1>1, <1>2

(* A step of a clean run keeps it clean, or ends it.                       *)
LEMMA StepCleanInv ==
  ASSUME IInv, CleanInv, [Next]_relayVars
  PROVE  CleanInv'
<1>1. CASE trouble' \/ guarded'
  BY <1>1 DEF CleanInv
<1>2. CASE ~trouble' /\ ~guarded'
  <2>1. ASSUME NEW t \in Threads, ~trouble, ~guarded,
               \/ Expire(t) \/ StoreFails(t) \/ ForwardFails(t) \/ ForwardRejected(t)
               \/ Reroute(t) \/ NoRoute(t)
               \/ ForwardAgainFails(t) \/ Keep(t) \/ KeepFails(t) \/ ForwardAgain(t)
        PROVE  FALSE
    BY <1>2, <2>1, CleanPhases
    DEF Expire, StoreFails, ForwardFails, ForwardRejected, Reroute, NoRoute, ForwardAgainFails,
        Keep, KeepFails, ForwardAgain, At, Call
  <2>2. ASSUME NEW route \in FullRoutes, ~trouble, ~guarded, Send(route) \/ SendFails(route)
        PROVE  CleanInv'
    BY <1>2, <2>2, SendClean DEF SendFails
  <2>3. ASSUME NEW t \in Threads, ~trouble, ~guarded, Store(t) \/ Forward(t) \/ Return(t)
        PROVE  CleanInv'
    BY <2>3, StoreClean, ForwardClean, ReturnClean
  <2>4. ASSUME NEW t \in Threads, NEW u \in Strays, NEW n \in 0..(MaxRoute + 2), Break(t, u, n)
        PROVE  FALSE
    BY <1>2, <2>4 DEF Break
  <2>5. ASSUME NEW u \in Strays, Die(u)
        PROVE  FALSE
    BY <1>2, <2>5 DEF Die
  <2>6. CASE UNCHANGED relayVars
    BY <2>6 DEF relayVars, CleanInv, Holders, Running, At, Top
  <2>7. Next => ~trouble /\ ~guarded
    BY <1>2, NextCases DEF Send, SendFails, SendAlone, Submit, Expire, StoreFails, ForwardFails,
       ForwardRejected, Reroute, NoRoute, ForwardAgainFails, Keep, KeepFails, Store, Forward,
       ForwardAgain, Return, Break, Die
  <2>8. ASSUME ~guarded,
               \/ SendAlone
               \/ \E n \in Nodes, hops \in Routes, ttl \in 0..(MaxRoute + 2), copies \in 1..Replicas :
                    Submit(n, hops, ttl, copies)
        PROVE  FALSE
    BY <2>8 DEF SendAlone, Submit
  <2>. QED BY <2>1, <2>2, <2>3, <2>4, <2>5, <2>6, <2>7, <2>8, NextCases
<1>. QED BY <1>1, <1>2

(* Behind the interceptor one node at most is reached, and it stores the   *)
(* chunk once.                                                             *)
GuardedInv == ~trouble /\ guarded =>
  /\ \A u \in Strays : ~Running(u)
  /\ Len(stack[Main]) <= 1
  /\ sender.phase = "answered" => stack[Main] = <<>>
  /\ \E n \in Nodes : store \subseteq {n}
  /\ store # {} => sender.phase = "answered" \/ At(Main, "answering")

(* Nothing has been called and nobody holds the chunk at first.            *)
LEMMA InitGuardedInv == Init => GuardedInv
<1>. SUFFICES ASSUME Init PROVE GuardedInv
  OBVIOUS
<1>1. Main \in Threads /\ Strays \subseteq Threads
  BY DEF Threads
<1>2. dest \in Nodes /\ store = {} /\ Len(<<>>) = 0
  BY EmptySeq DEF Init
<1>. QED BY <1>1, <1>2 DEF Init, GuardedInv, Running

(* The handler that was called goes on by itself, and stores the chunk at  *)
(* most when it answers.                                                   *)
LEMMA HandlerGuarded ==
  ASSUME IInv, GuardedInv, ~trouble, guarded, NEW t \in Threads, Running(t),
         Top(t).phase # "answering",
         NEW f \in Frame, stack'[t] = WithTop(t, f),
         \A u \in Threads : u # t => stack'[u] = stack[u],
         \/ store' = store
         \/ store' = store \cup {Top(t).node} /\ f.phase = "answering",
         UNCHANGED <<guarded, sender, dest, trouble>>
  PROVE  GuardedInv'
<1>1. Main \in Threads /\ Main \notin Strays /\ Strays \subseteq Threads
  BY RelayConstants DEF Threads
<1>2. t = Main
  BY DEF GuardedInv, Threads
<1>3. Top(t) \in Frame /\ Top(t).node \in Nodes /\ stack[t] \in Seq(Frame) /\ stack[t] # <<>>
  BY TopSound DEF Frame, SoundStack, Running
<1>4. /\ stack'[Main] \in Seq(Frame) /\ Len(stack'[Main]) = Len(stack[Main])
      /\ Len(stack[Main]) \in Nat \ {0} /\ stack'[Main][Len(stack[Main])] = f
  BY <1>2, <1>3, TopReplaced DEF WithTop
<1>5. store = {} /\ sender.phase # "answered"
  BY <1>2, <1>3 DEF GuardedInv, At
<1>6. \E n \in Nodes : store' \subseteq {n}
  BY <1>3, <1>5
<1>7. store' # {} => At(Main, "answering")'
  <2>1. stack'[Main] # <<>>
    BY <1>4, EmptySeq
  <2>. QED BY <1>4, <1>5, <2>1 DEF At, Running, Top
<1>8. \A u \in Strays : ~Running(u)'
  BY <1>1, <1>2 DEF GuardedInv, Running
<1>. QED BY <1>4, <1>5, <1>6, <1>7, <1>8 DEF GuardedInv

(* A step behind the interceptor that is no failure.                       *)
LEMMA StepGuardedInv ==
  ASSUME IInv, GuardedInv, [Next]_relayVars
  PROVE  GuardedInv'
<1>1. CASE trouble' \/ ~guarded'
  BY <1>1 DEF GuardedInv
<1>2. CASE ~trouble' /\ guarded'
  <2>1. Main \in Threads /\ Main \notin Strays /\ Strays \subseteq Threads
    BY RelayConstants DEF Threads
  <2>2. CASE UNCHANGED relayVars
    BY <2>2 DEF relayVars, GuardedInv, Running, At, Top
  <2>3. Next => ~trouble /\ guarded
    BY <1>2, NextCases DEF Send, SendFails, SendAlone, Submit, Expire, StoreFails, ForwardFails,
       ForwardRejected, Reroute, NoRoute, ForwardAgainFails, Keep, KeepFails, Store, Forward,
       ForwardAgain, Return, Break, Die
  <2>4. ASSUME ~trouble, guarded, SendAlone
        PROVE  GuardedInv'
    BY <2>4 DEF SendAlone, GuardedInv, IInv, Running, At, Top
  <2>5. ASSUME ~trouble, guarded, NEW n \in Nodes, NEW hops \in Routes,
               NEW ttl \in 0..(MaxRoute + 2), NEW copies \in 1..Replicas,
               Submit(n, hops, ttl, copies)
        PROVE  GuardedInv'
    <3>. DEFINE f == Request(n, hops, ttl, copies)
    <3>1. stack' = [stack EXCEPT ![Main] = <<f>>] /\ UNCHANGED <<guarded, dest, store, trouble>>
      BY <2>5 DEF Submit
    <3>. HIDE DEF f
    <3>2. Len(<<f>>) = 1
      OBVIOUS
    <3>3. Len(stack'[Main]) = 1 /\ \A u \in Strays : stack'[u] = stack[u]
      BY <2>1, <3>1, <3>2 DEF IInv, RelayTypeOK
    <3>4. stack[Main] = <<>> /\ sender.phase = "ready" /\ sender'.phase = "waiting"
      BY <2>5 DEF Submit, IInv, RelayTypeOK
    <3>5. store = {}
      BY <2>5, <3>4 DEF GuardedInv, At, Running
    <3>6. Len(stack'[Main]) <= 1
      BY <3>3
    <3>7. store' = {} /\ \E m \in Nodes : store' \subseteq {m}
      BY <3>1, <3>5
    <3>8. \A u \in Strays : ~Running(u)'
      BY <2>5, <3>3 DEF GuardedInv, Running
    <3>. QED BY <3>4, <3>6, <3>7, <3>8 DEF GuardedInv
  <2>6. ASSUME ~trouble, guarded, NEW t \in Threads,
               Expire(t) \/ ForwardRejected(t) \/ NoRoute(t) \/ Keep(t)
        PROVE  GuardedInv'
    <3>1. /\ Running(t) /\ Top(t).phase # "answering"
          /\ UNCHANGED <<guarded, sender, dest, trouble>>
      BY <2>6 DEF Expire, ForwardRejected, NoRoute, Keep, At
    <3>2. Top(t) \in Frame /\ Top(t).node \in Nodes
      BY <3>1, TopSound DEF Frame
    <3>3. ASSUME NEW f \in Frame, stack' = [stack EXCEPT ![t] = WithTop(t, f)],
                 \/ store' = store
                 \/ store' = store \cup {Top(t).node} /\ f.phase = "answering"
          PROVE  GuardedInv'
      <4>1. stack'[t] = WithTop(t, f) /\ \A u \in Threads : u # t => stack'[u] = stack[u]
        BY <3>3 DEF IInv, RelayTypeOK
      <4>. QED BY <2>6, <3>1, <3>3, <4>1, HandlerGuarded
    <3>4. CASE Expire(t)
      BY <3>2, <3>3, <3>4, EmptyRoute DEF Expire, Reply, Replying, Frame
    <3>5. CASE ForwardRejected(t)
      BY <3>2, <3>3, <3>5 DEF ForwardRejected, GoTo, Frame
    <3>6. CASE NoRoute(t)
      BY <3>2, <3>3, <3>6, EmptyRoute DEF NoRoute, FallBack, GoTo, Frame
    <3>7. CASE Keep(t)
      <4>. DEFINE a == [ok |-> FALSE, node |-> Top(t).node]
                  f == [Top(t) EXCEPT !.phase = "answering", !.hops = <<>>, !.answer = a]
      <4>1. a \in Answer
        BY <3>2 DEF Answer
      <4>2. f \in Frame /\ f.phase = "answering"
        BY <3>2, <4>1, EmptyRoute DEF Frame
      <4>3. stack' = [stack EXCEPT ![t] = WithTop(t, f)] /\ store' = store \cup {Top(t).node}
        BY <3>7 DEF Keep, Reply, Replying
      <4>. HIDE DEF f
      <4>. QED BY <3>3, <4>2, <4>3
    <3>. QED BY <2>6, <3>4, <3>5, <3>6, <3>7
  <2>7. ASSUME ~trouble, guarded, NEW t \in Threads, Store(t)
        PROVE  GuardedInv'
    <3>. DEFINE a == [ok |-> TRUE, node |-> Top(t).node]
                f == [Top(t) EXCEPT !.phase = "answering", !.hops = <<>>, !.answer = a]
    <3>1. /\ Running(t) /\ Top(t).phase # "answering" /\ store' = store \cup {Top(t).node}
          /\ UNCHANGED <<guarded, sender, dest, trouble>>
      BY <2>7 DEF Store, At
    <3>2. Top(t) \in Frame /\ Top(t).node \in Nodes
      BY <3>1, TopSound DEF Frame
    <3>3. a \in Answer
      BY <3>2 DEF Answer
    <3>4. f \in Frame /\ f.phase = "answering"
      BY <3>2, <3>3, EmptyRoute DEF Frame
    <3>5. stack' = [u \in Threads |-> IF u = t THEN Replying(t, a) ELSE stack[u]]
      BY <2>7 DEF Store
    <3>6. Replying(t, a) = WithTop(t, f)
      BY DEF Replying
    <3>7. stack'[t] = WithTop(t, f) /\ \A u \in Threads : u # t => stack'[u] = stack[u]
      BY <3>5, <3>6
    <3>. HIDE DEF f
    <3>. QED BY <2>7, <3>1, <3>4, <3>7, HandlerGuarded
  <2>8. ASSUME ~trouble, guarded, NEW t \in Threads, Return(t)
        PROVE  GuardedInv'
    <3>1. t = Main /\ Running(t) /\ stack[t] # <<>>
      BY <2>8 DEF Return, At, GuardedInv, Threads, Running
    <3>2. Len(stack[t]) \in Nat \ {0}
      BY <3>1, TopSound, SoundFacts
    <3>3. Len(stack[t]) - 1 = 0
      <4>1. Len(stack[t]) <= 1
        BY <2>8, <3>1, Zenon DEF GuardedInv
      <4>2. \A n \in Nat \ {0} : n <= 1 => n - 1 = 0
        OBVIOUS
      <4>. QED BY <3>2, <4>1, <4>2, Zenon
    <3>4. Below(stack[t], Len(stack[t]) - 1, Top(t).answer) = <<>>
      <4>1. \A s, a : Below(s, 0, a) = <<>>
        BY DEF Below
      <4>. QED BY <3>3, <4>1, Zenon
    <3>. DEFINE r == Below(stack[t], Len(stack[t]) - 1, Top(t).answer)
    <3>5. /\ stack' = [stack EXCEPT ![t] = r]
          /\ sender' = IF Len(stack[t]) - 1 = 0 /\ t = Main
                       THEN [phase |-> "answered", answer |-> Top(t).answer] ELSE sender
          /\ UNCHANGED <<guarded, dest, store, trouble>>
      BY <2>8 DEF Return
    <3>6. r = <<>>
      BY <3>4
    <3>. HIDE DEF r
    <3>7. stack' = [stack EXCEPT ![Main] = <<>>] /\ sender'.phase = "answered"
      BY <3>1, <3>3, <3>5, <3>6
    <3>8. stack'[Main] = <<>> /\ \A u \in Strays : stack'[u] = stack[u]
      BY <2>1, <3>7 DEF IInv, RelayTypeOK
    <3>9. Len(stack'[Main]) <= 1
      BY <3>8, EmptySeq
    <3>. QED BY <2>8, <3>5, <3>7, <3>8, <3>9 DEF GuardedInv, Running
  <2>9. ASSUME guarded,
               \/ \E route \in FullRoutes : Send(route) \/ SendFails(route)
               \/ \E t \in Threads : Reroute(t) \/ Forward(t) \/ ForwardAgain(t)
        PROVE  FALSE
    BY <2>9 DEF Send, SendFails, Reroute, Forward, ForwardAgain, Call
  <2>10. ASSUME \/ \E t \in Threads : StoreFails(t) \/ ForwardFails(t) \/ KeepFails(t)
                                          \/ ForwardAgainFails(t)
                \/ \E t \in Threads, u \in Strays, n \in 0..(MaxRoute + 2) : Break(t, u, n)
                \/ \E u \in Strays : Die(u)
         PROVE  FALSE
    BY <1>2, <2>10 DEF StoreFails, ForwardFails, KeepFails, ForwardAgainFails, Break, Die
  <2>. QED BY <2>2, <2>3, <2>4, <2>5, <2>6, <2>7, <2>8, <2>9, <2>10, NextCases
<1>. QED BY <1>1, <1>2

(* Every reachable state of a run without failures satisfies CleanInv      *)
(* where no interceptor stands, and GuardedInv behind one.                 *)
THEOREM CleanInvariant == Spec => [](CleanInv /\ GuardedInv)
<1>1. Init => CleanInv /\ GuardedInv
  BY InitCleanInv, InitGuardedInv
<1>2. IInv /\ CleanInv /\ GuardedInv /\ [Next]_relayVars => (CleanInv /\ GuardedInv)'
  BY StepCleanInv, StepGuardedInv
<1>. QED BY <1>1, <1>2, RelayInvariant, PTL DEF Spec

(* As long as nothing fails, at most replication_factor nodes get the      *)
(* chunk.                                                                  *)
THEOREM CopiesAreBounded == Spec => []CopiesBounded
<1>1. CleanInv /\ GuardedInv => CopiesBounded
  <2>. SUFFICES ASSUME CleanInv, GuardedInv, ~trouble PROVE Cardinality(store) <= Replicas
    BY DEF CopiesBounded
  <2>1. CASE ~guarded
    <3>1. IsFiniteSet(Holders) /\ Cardinality(Holders) <= Replicas /\ store \in SUBSET Holders
      BY <2>1 DEF CleanInv, Holders
    <3>2. IsFiniteSet(store) /\ Cardinality(store) <= Cardinality(Holders)
      BY <3>1, FS_Subset
    <3>3. Cardinality(Holders) \in Nat /\ Cardinality(store) \in Nat
      BY <3>1, <3>2, FS_CardinalityType
    <3>. QED BY <3>1, <3>2, <3>3, RelayConstants
  <2>2. CASE guarded
    <3>1. PICK n \in Nodes : store \in SUBSET {n}
      BY <2>2 DEF GuardedInv
    <3>2. IsFiniteSet({n}) /\ Cardinality({n}) = 1
      BY FS_Singleton
    <3>3. IsFiniteSet(store) /\ Cardinality(store) <= 1
      BY <3>1, <3>2, FS_Subset
    <3>4. Cardinality(store) \in Nat
      BY <3>3, FS_CardinalityType
    <3>. QED BY <3>3, <3>4, RelayConstants
  <2>. QED BY <2>1, <2>2
<1>. QED BY <1>1, CleanInvariant, PTL

=============================================================================
