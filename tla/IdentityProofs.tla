--------------------------- MODULE IdentityProofs ---------------------------
(***************************************************************************)
(* Proofs about the parts of the identity service, for any accounts,       *)
(* devices, sessions and number of calls at the same time: friendships,    *)
(* peer sessions, the pairing of devices and the types of an account's     *)
(* verification.  Then the parts side by side, as TLC checks them, with    *)
(* the tokens of TokensProofs: each behaves as in its own module.          *)
(***************************************************************************)
EXTENDS MCIdentity, TokensProofs

-----------------------------------------------------------------------------
(* Friendships *)

(* What a pair keeps to that no call has missed: a call that is about to   *)
(* insert a row excludes the row, and another such call, the other way.    *)
Seen(p) ==
  /\ friendship[p] # "none" => friendship[Back(p)] = "none"
  /\ friendship[p] # "none" => \A s \in Senders : sending[s] # Back(p)
  /\ \A s, r \in Senders : sending[s] = p => sending[r] # Back(p)

UnseenBothWays == \A p \in Couple : p \in unseen => Back(p) \in unseen

FriendsInv ==
  /\ FriendsTypeOK
  /\ UnseenBothWays
  /\ \A p \in Couple : p \notin unseen => Seen(p)

-----------------------------------------------------------------------------

(* Back turns a pair of two users around. *)
LEMMA BackTurns ==
  ASSUME NEW p \in Couple
  PROVE  /\ Back(p) \in Couple /\ Back(Back(p)) = p /\ Back(p) # p
         /\ p # Nobody
<1>1. PICK a \in People, b \in People : p = <<a, b>> /\ a # b
  BY DEF Couple
<1> QED BY <1>1, FriendConstants DEF Couple, Back

(* No user, no row, no call. *)
LEMMA FriendsInitInv == FriendsInit => FriendsInv
<1> SUFFICES ASSUME FriendsInit PROVE FriendsInv
  OBVIOUS
<1>1. FriendsTypeOK
  BY DEF FriendsInit, FriendsTypeOK
<1>2. \A p \in Couple : Seen(p)
  BY BackTurns DEF FriendsInit, Seen
<1> QED BY <1>1, <1>2 DEF FriendsInv, UnseenBothWays, FriendsInit

(* A look that finds no row, while a call the other way marks the pair. *)
LEMMA LookKeeps ==
  ASSUME FriendsInv, NEW s \in Senders, NEW p \in Couple, LookForFriendship(s, p)
  PROVE  FriendsInv'
<1> USE DEF LookForFriendship
<1>1. FriendsTypeOK'
  BY BackTurns DEF FriendsInv, FriendsTypeOK, AskedMeanwhile
<1>2. UnseenBothWays'
  <2> SUFFICES ASSUME NEW q \in Couple, q \in unseen' PROVE Back(q) \in unseen'
    BY DEF UnseenBothWays
  <2>1. CASE q \in unseen
    BY <2>1 DEF FriendsInv, UnseenBothWays
  <2>2. CASE q \in AskedMeanwhile(p)
    BY <2>2, BackTurns DEF AskedMeanwhile
  <2> QED BY <2>1, <2>2
<1>3. ASSUME NEW q \in Couple, q \notin unseen' PROVE Seen(q)'
  <2>1. Seen(q) /\ Back(q) \notin unseen'
    BY <1>2, <1>3, BackTurns DEF FriendsInv, UnseenBothWays
  <2>2. friendship[p] = "none" /\ friendship[Back(p)] = "none"
    BY BackTurns DEF RowsBetween
  <2>3. sending' = [sending EXCEPT ![s] = p] /\ friendship' = friendship
    OBVIOUS
  <2>4. sending \in [Senders -> Couple \cup {Nobody}]
    BY DEF FriendsInv, FriendsTypeOK
  <2>5. ASSUME q = p \/ q = Back(p) PROVE \A r \in Senders : sending[r] # Back(p)
    BY <1>3, <2>1, <2>5, BackTurns DEF AskedMeanwhile
  <2>6. ASSUME friendship[q] # "none", NEW r \in Senders PROVE sending'[r] # Back(q)
    BY <2>1, <2>2, <2>3, <2>4, <2>6, BackTurns DEF Seen
  <2>7. ASSUME NEW r \in Senders, NEW t \in Senders, sending'[r] = q
        PROVE  sending'[t] # Back(q)
    <3>1. CASE q # p /\ q # Back(p)
      BY <3>1, <2>1, <2>3, <2>4, <2>7, BackTurns DEF Seen
    <3>2. CASE q = p
      BY <3>2, <2>1, <2>3, <2>4, <2>5, <2>7, BackTurns DEF Seen
    <3>3. CASE q = Back(p)
      <4>1. r # s
        BY <3>3, <2>3, <2>4, <2>7, BackTurns
      <4>2. sending[r] = Back(p)
        BY <4>1, <3>3, <2>3, <2>4, <2>7
      <4> QED BY <4>2, <2>5, <3>3
    <3> QED BY <3>1, <3>2, <3>3
  <2> QED BY <2>1, <2>3, <2>6, <2>7 DEF Seen
<1> QED BY <1>1, <1>2, <1>3 DEF FriendsInv

(* A look that fails marks the pair. *)
LEMMA LookFailsKeeps ==
  ASSUME FriendsInv, NEW s \in Senders, NEW p \in Couple, LookFails(s, p)
  PROVE  FriendsInv'
<1> USE DEF LookFails
<1>1. FriendsTypeOK'
  BY BackTurns DEF FriendsInv, FriendsTypeOK
<1>2. UnseenBothWays'
  BY BackTurns DEF FriendsInv, UnseenBothWays
<1>3. ASSUME NEW q \in Couple, q \notin unseen' PROVE Seen(q)'
  <2>1. Seen(q) /\ q # p /\ q # Back(p) /\ Back(q) # p
    BY <1>3, BackTurns DEF FriendsInv
  <2>2. sending \in [Senders -> Couple \cup {Nobody}]
    BY DEF FriendsInv, FriendsTypeOK
  <2> QED BY <2>1, <2>2, BackTurns DEF Seen
<1> QED BY <1>1, <1>2, <1>3 DEF FriendsInv

(* The insert falls on a pair without a row the other way, or marked. *)
LEMMA CreateKeeps ==
  ASSUME FriendsInv, NEW s \in Senders, CreateFriendRequest(s)
  PROVE  FriendsInv'
<1> USE DEF CreateFriendRequest
<1> DEFINE p == sending[s]
<1>1. p \in Couple /\ sending \in [Senders -> Couple \cup {Nobody}]
      /\ friendship \in [Couple -> {"none", "pending", "accepted", "rejected"}]
  BY DEF FriendsInv, FriendsTypeOK
<1>2. FriendsTypeOK'
  BY <1>1 DEF FriendsInv, FriendsTypeOK
<1>3. UnseenBothWays'
  BY DEF FriendsInv, UnseenBothWays
<1>4. ASSUME NEW q \in Couple, q \notin unseen' PROVE Seen(q)'
  <2>1. Seen(q) /\ Back(q) \notin unseen /\ Seen(Back(q))
    BY <1>4, BackTurns DEF FriendsInv, UnseenBothWays
  <2>2. \A r \in Senders : sending'[r] \in {sending[r], Nobody}
    BY <1>1
  <2>3. \A r, t \in Senders : sending'[r] = q => sending'[t] # Back(q)
    BY <2>1, <2>2, BackTurns DEF Seen
  <2>4. \A r \in Couple : r # p => friendship'[r] = friendship[r]
    BY <1>1
  <2>5. CASE q # p /\ Back(q) # p
    BY <2>1, <2>2, <2>3, <2>4, <2>5, BackTurns DEF Seen
  <2>6. CASE q = p
    <3>1. friendship[Back(q)] = "none"
      BY <2>1, <2>6, BackTurns DEF Seen
    <3>2. friendship'[Back(q)] = "none"
      BY <3>1, <2>4, <2>6, BackTurns
    <3>3. \A r \in Senders : sending[r] # Back(q)
      BY <2>1, <2>6 DEF Seen
    <3> QED BY <3>2, <3>3, <2>2, <2>3, BackTurns DEF Seen
  <2>7. CASE Back(q) = p
    <3>1. friendship[q] = "none"
      BY <2>1, <2>7 DEF Seen
    <3>2. friendship'[q] = "none"
      BY <3>1, <2>4, <2>7, BackTurns
    <3> QED BY <3>2, <2>3 DEF Seen
  <2> QED BY <2>5, <2>6, <2>7
<1> QED BY <1>2, <1>3, <1>4 DEF FriendsInv

(* The other steps take calls or rows away, or change a row's status. *)
LEMMA OthersKeep ==
  ASSUME FriendsInv,
         \/ \E s \in Senders : CreateFriendRequestFails(s)
         \/ \E p \in Couple, answer \in {"accepted", "rejected"} :
              RespondToFriendRequest(p, answer)
         \/ \E p \in Couple : RemoveFriend(p)
  PROVE  FriendsInv'
<1>1. FriendsTypeOK'
  BY DEF FriendsInv, FriendsTypeOK, CreateFriendRequestFails, RespondToFriendRequest,
         RemoveFriend
<1>2. UnseenBothWays' /\ unseen' = unseen
  BY DEF FriendsInv, UnseenBothWays, CreateFriendRequestFails, RespondToFriendRequest,
         RemoveFriend
<1>3. ASSUME NEW q \in Couple PROVE friendship'[q] # "none" => friendship[q] # "none"
  BY DEF FriendsInv, FriendsTypeOK, CreateFriendRequestFails, RespondToFriendRequest,
         RemoveFriend
<1>4. ASSUME NEW s \in Senders PROVE sending'[s] \in {sending[s], Nobody}
  BY DEF FriendsInv, FriendsTypeOK, CreateFriendRequestFails, RespondToFriendRequest,
         RemoveFriend
<1>5. ASSUME NEW q \in Couple, q \notin unseen' PROVE Seen(q)'
  <2>1. Seen(q)
    BY <1>2, <1>5 DEF FriendsInv
  <2> QED BY <2>1, <1>3, <1>4, BackTurns DEF Seen
<1> QED BY <1>1, <1>2, <1>5 DEF FriendsInv

(* A step of one call keeps the invariant.                                 *)
LEMMA FriendsStepInv ==
  ASSUME FriendsInv, [FriendsNext]_friendVars
  PROVE  FriendsInv'
<1>1. CASE UNCHANGED friendVars
  BY <1>1 DEF friendVars, FriendsInv, FriendsTypeOK, UnseenBothWays, Seen
<1>2. CASE FriendsNext
  BY <1>2, LookKeeps, LookFailsKeeps, CreateKeeps, OthersKeep DEF FriendsNext
<1> QED BY <1>1, <1>2

(* The inductive invariant: between two users that no call has missed, a   *)
(* row or a call that is about to insert one excludes the other way.       *)
THEOREM FriendsInvariant == FriendsSpec => []FriendsInv
<1>1. FriendsInv /\ [FriendsNext]_friendVars => FriendsInv'
  BY FriendsStepInv
<1> QED BY <1>1, FriendsInitInv, PTL DEF FriendsSpec

(* OneRowUnlessUnseen (handler.go:938-955): the look before the insert     *)
(* leaves two rows to calls that overlapped or could not look.             *)
THEOREM RowsAreSingle == FriendsSpec => []OneRowUnlessUnseen
<1>1. FriendsInv => OneRowUnlessUnseen
  <2> SUFFICES ASSUME FriendsInv, NEW p \in Couple, RowsBetween(p) = {p, Back(p)}
               PROVE  p \in unseen
    BY DEF OneRowUnlessUnseen
  <2>1. friendship[p] # "none" /\ friendship[Back(p)] # "none"
    BY DEF RowsBetween
  <2> QED BY <2>1 DEF FriendsInv, Seen
<1> QED BY <1>1, FriendsInvariant, PTL

-----------------------------------------------------------------------------
(* Peer sessions *)

(* A call that can still bring a device into a closed session was running  *)
(* when the session closed.                                                *)
Entering(j) == joiner[j].phase \in {"enter", "device", "join"}

SessionsInv ==
  /\ SessionsTypeOK
  /\ \A j \in Joiners : joiner[j].phase # "idle" => joiner[j].machine \in Machines
  /\ \A j \in Joiners : Entering(j) =>
       /\ joiner[j].session \in SessionIds
       /\ session[joiner[j].session] # "none"
       /\ session[joiner[j].session] = "closed" => j \in openCalls[joiner[j].session]

LEMMA SessionsInitInv == SessionsInit => SessionsInv
BY DEF SessionsInit, SessionsInv, SessionsTypeOK, Away, Entering

(* The end of a call: it has no session any more, the others keep theirs. *)
LEMMA OverKeeps ==
  ASSUME SessionsInv, NEW j \in Joiners, Over(j), session' = session,
         members' \in [SessionIds -> SUBSET Machines], gone' = gone, keys' \subseteq Machines
  PROVE  SessionsInv'
BY DEF SessionsInv, SessionsTypeOK, Over, Away, Entering

LEMMA SessionsStepInv ==
  ASSUME SessionsInv, [SessionsNext]_sessionVars
  PROVE  SessionsInv'
<1> USE DEF SessionsInv
<1>1. ASSUME NEW j \in Joiners, NEW s \in SessionIds, NEW m \in Machines \cup {NoMachine},
             CreatePeerSession(j, s, m)
      PROVE  SessionsInv'
  <2>1. CASE m = NoMachine
    BY <1>1, <2>1 DEF CreatePeerSession, SessionsTypeOK, Entering
  <2>2. CASE m # NoMachine
    BY <1>1, <2>2 DEF CreatePeerSession, Goes, SessionsTypeOK, Entering
  <2> QED BY <2>1, <2>2
<1>2. ASSUME NEW j \in Joiners, NEW s \in SessionIds, NEW m \in Machines,
             LookAtSession(j, s, m)
      PROVE  SessionsInv'
  BY <1>2 DEF LookAtSession, Goes, SessionsTypeOK, Entering
<1>3. ASSUME NEW j \in Joiners, NEW m \in Machines, LookAtKeyDevice(j, m)
      PROVE  SessionsInv'
  BY <1>3 DEF LookAtKeyDevice, Goes, SessionsTypeOK, Entering
<1>4. ASSUME NEW j \in Joiners, AutoJoin(j) \/ JoinPeerSession(j) PROVE SessionsInv'
  <2>1. /\ joiner[j].session \in SessionIds /\ joiner[j].machine \in Machines
        /\ Enter(joiner[j].session, joiner[j].machine) /\ Over(j)
        /\ session' = session /\ gone' = gone /\ keys' = keys
    BY <1>4 DEF AutoJoin, JoinPeerSession, Entering
  <2>2. members' \in [SessionIds -> SUBSET Machines] /\ keys' \subseteq Machines
    BY <2>1 DEF Enter, SessionsTypeOK
  <2> QED BY <2>1, <2>2, OverKeeps
<1>5. ASSUME NEW j \in Joiners, LookAtDevice(j) PROVE SessionsInv'
  BY <1>5 DEF LookAtDevice, SessionsTypeOK, Entering
<1>6. ASSUME NEW j \in Joiners, UpsertDeviceKey(j) PROVE SessionsInv'
  <2>1. /\ Over(j) /\ session' = session /\ gone' = gone /\ members' = members
        /\ keys' \subseteq Machines
    BY <1>6 DEF UpsertDeviceKey, SessionsTypeOK
  <2>2. members' \in [SessionIds -> SUBSET Machines]
    BY <2>1 DEF SessionsTypeOK
  <2> QED BY <2>1, <2>2, OverKeeps
<1>7. ASSUME NEW j \in Joiners, EndsEarly(j) PROVE SessionsInv'
  BY <1>7, OverKeeps DEF EndsEarly, SessionsTypeOK
<1>8. ASSUME NEW s \in SessionIds, NEW m \in Machines, LeavePeerSession(s, m)
      PROVE  SessionsInv'
  BY <1>8 DEF LeavePeerSession, SessionsTypeOK, Entering
<1>9. ASSUME NEW s \in SessionIds, ClosePeerSession(s) PROVE SessionsInv'
  BY <1>9 DEF ClosePeerSession, SessionsTypeOK, Entering
<1>10. ASSUME NEW m \in Machines, RevokeMachine(m) PROVE SessionsInv'
  BY <1>10 DEF RevokeMachine, SessionsTypeOK, Entering
<1>11. CASE UNCHANGED sessionVars
  BY <1>11 DEF sessionVars, SessionsTypeOK, Entering
<1> QED
  BY <1>1, <1>2, <1>3, <1>4, <1>5, <1>6, <1>7, <1>8, <1>9, <1>10, <1>11 DEF SessionsNext

(* The inductive invariant: whoever may still enter a closed session is    *)
(* among the calls that were running when it closed.                       *)
THEOREM SessionsInvariant == SessionsSpec => []SessionsInv
BY SessionsInitInv, SessionsStepInv, PTL DEF SessionsSpec

(* A step adds to the members of a session only the device of a call that  *)
(* enters it, and takes no revocation back.                                *)
LEMMA MembersGrow ==
  ASSUME SessionsInv, [SessionsNext]_sessionVars, NEW s \in SessionIds, NEW m,
         m \in members'[s]
  PROVE  /\ gone \subseteq gone'
         /\ m \in members[s] \/ \E j \in Joiners : /\ Entering(j)
                                                /\ joiner[j].session = s
                                                /\ joiner[j].machine = m
<1>1. gone \subseteq gone'
  BY DEF SessionsNext, CreatePeerSession, LookAtSession, LookAtKeyDevice, AutoJoin, LookAtDevice,
         JoinPeerSession, UpsertDeviceKey, EndsEarly, LeavePeerSession, ClosePeerSession,
         RevokeMachine, sessionVars
<1>2. CASE \E j \in Joiners : AutoJoin(j) \/ JoinPeerSession(j)
  <2>1. PICK j \in Joiners : AutoJoin(j) \/ JoinPeerSession(j)
    BY <1>2
  <2>2. Entering(j) /\ Enter(joiner[j].session, joiner[j].machine)
    BY <2>1 DEF AutoJoin, JoinPeerSession, Entering
  <2> QED BY <1>1, <2>2 DEF Enter, SessionsInv, SessionsTypeOK
<1>3. CASE \E t \in SessionIds, n \in Machines : LeavePeerSession(t, n)
  BY <1>1, <1>3 DEF LeavePeerSession, SessionsInv, SessionsTypeOK
<1>4. CASE members' = members
  BY <1>1, <1>4
<1> QED
  BY <1>2, <1>3, <1>4
  DEF SessionsNext, CreatePeerSession, LookAtSession, LookAtKeyDevice, LookAtDevice,
      UpsertDeviceKey, EndsEarly, ClosePeerSession, RevokeMachine, sessionVars

(* ClosedSessionsShrink (handler.go:679-684, 726-756), for any sessions    *)
(* and devices.                                                            *)
THEOREM ClosedSessionsOnlyShrink == SessionsSpec => ClosedSessionsShrink
<1>1. ASSUME SessionsInv, [SessionsNext]_sessionVars, NEW s \in SessionIds,
             session[s] = "closed"
      PROVE  SessionDevices(s)' \subseteq SessionDevices(s)
               \cup {joiner[j].machine : j \in openCalls[s]}
  <2> SUFFICES ASSUME NEW m, m \in members'[s], m \notin gone'
               PROVE  \/ m \in members[s] \ gone
                      \/ \E j \in openCalls[s] : m = joiner[j].machine
    BY DEF SessionDevices
  <2>1. m \notin gone
    BY <1>1, MembersGrow
  <2>2. CASE m \in members[s]
    BY <2>1, <2>2
  <2>3. CASE m \notin members[s]
    <3>1. PICK j \in Joiners : Entering(j) /\ joiner[j].session = s /\ joiner[j].machine = m
      BY <1>1, <2>3, MembersGrow
    <3>2. j \in openCalls[s]
      BY <1>1, <3>1 DEF SessionsInv
    <3> QED BY <3>1, <3>2
  <2> QED BY <2>2, <2>3
<1>2. SessionsInv /\ [SessionsNext]_sessionVars =>
        [\A s \in SessionIds :
           session[s] = "closed" =>
             SessionDevices(s)' \subseteq SessionDevices(s)
               \cup {joiner[j].machine : j \in openCalls[s]}]_sessionVars
  BY <1>1
<1> QED BY <1>2, SessionsInvariant, PTL DEF SessionsSpec, ClosedSessionsShrink

-----------------------------------------------------------------------------
(* Pairing of devices *)

(* a is an approved device of the account u. *)
Vouches(u, a) ==
  /\ u \in Accts
  /\ a \in DeviceIds
  /\ device[a].user = u
  /\ device[a].approved

(* No device came by the code k. *)
Unused(k) == \A d \in DeviceIds : device[d].code # k

(* What a call has read still holds: accounts keep their devices, approval *)
(* is never taken back, and a code taken out is with this call alone.      *)
CallInv(h) ==
  /\ call[h].phase # "idle" => call[h].user \in Accts
  /\ call[h].phase # "create" => call[h].code = Nil
  /\ call[h].phase = "create" => call[h].print \in Prints
  /\ call[h].phase \in {"store", "approver", "pending"} => Vouches(call[h].user, call[h].device)
  /\ call[h].phase = "pending" => /\ call[h].pending \in DeviceIds
                                  /\ device[call[h].pending].user = call[h].user
  /\ call[h].code # Nil => /\ call[h].code \in spent
                           /\ codes[call[h].code] = Nil
                           /\ Unused(call[h].code)
                           /\ \E a \in DeviceIds : Vouches(call[h].user, a)
                           /\ \A g \in Handlers \ {h} : call[g].code # call[h].code

(* A code in Redis is one that an approved device generated, and neither a *)
(* call nor a device has it; the same goes for one to come.                *)
CodeInv(k) ==
  /\ codes[k] # Nil => k \in spent /\ Vouches(device[codes[k]].user, codes[k])
  /\ codes[k] # Nil \/ k \notin spent => Unused(k) /\ \A h \in Handlers : call[h].code # k

(* An id that no device has yet. *)
FreeInv == \A d \in FreeIds : device[d].code = Nil

DevicesInv ==
  /\ DevicesTypeOK
  /\ FreeInv
  /\ \A h \in Handlers : CallInv(h)
  /\ \A k \in Codes : CodeInv(k)
  /\ OneDevicePerFingerprint

LEMMA DevicesInitInv == DevicesInit => DevicesInv
BY DeviceConstants
DEF DevicesInit, DevicesInv, DevicesTypeOK, Row, Call, Unregistered, Done, CallInv, CodeInv,
    Unused, FreeInv, FreeIds, OneDevicePerFingerprint, WithPrint, Own

(* Steps that leave the devices as they are, or revoke or approve some. *)
LEMMA DevicesStand ==
  ASSUME DevicesInv,
         device' \in [DeviceIds -> Row],
         \A d \in DeviceIds : /\ device'[d].user = device[d].user
                              /\ device'[d].code = device[d].code
                              /\ device'[d].print = device[d].print
                              /\ device[d].approved => device'[d].approved
                              /\ device[d].revoked => device'[d].revoked
  PROVE  /\ \A u, a : Vouches(u, a) => Vouches(u, a)'
         /\ \A k : Unused(k) => Unused(k)'
         /\ FreeInv' /\ OneDevicePerFingerprint'
BY DEF DevicesInv, Vouches, Unused, FreeInv, FreeIds, OneDevicePerFingerprint, WithPrint, Own

(* A call begins without a code, or goes on or ends without taking one. *)
LEMMA CallsStand ==
  ASSUME DevicesInv, device' = device, codes' = codes, spent' = spent, begun' \in 0..MaxBegun,
         NEW h \in Handlers, NEW c \in Call, call' = [call EXCEPT ![h] = c], c.code = Nil,
         c.phase # "idle" => c.user \in Accts,
         c.phase = "create" => c.print \in Prints,
         c.phase \in {"store", "approver", "pending"} => Vouches(c.user, c.device),
         c.phase = "pending" => c.pending \in DeviceIds /\ device[c.pending].user = c.user
  PROVE  DevicesInv'
<1>1. DevicesTypeOK'
  BY DEF DevicesInv, DevicesTypeOK
<1>2. call'[h] = c /\ \A g \in Handlers \ {h} : call'[g] = call[g]
  BY DEF DevicesInv, DevicesTypeOK
<1>3. \A u, a : Vouches(u, a)' <=> Vouches(u, a)
  BY DEF Vouches
<1>4. \A k : Unused(k)' <=> Unused(k)
  BY DEF Unused
<1>5. ASSUME NEW g \in Handlers PROVE CallInv(g)'
  BY <1>2, <1>3, <1>4 DEF DevicesInv, CallInv
<1>6. ASSUME NEW k \in Codes PROVE CodeInv(k)'
  BY <1>2, <1>3, <1>4, DeviceConstants DEF DevicesInv, CodeInv
<1>7. FreeInv' /\ OneDevicePerFingerprint'
  BY DEF DevicesInv, FreeInv, FreeIds, OneDevicePerFingerprint, WithPrint, Own
<1> QED BY <1>1, <1>5, <1>6, <1>7 DEF DevicesInv

(* The steps of a call that change nothing but the call itself. *)
LEMMA LooksKeep ==
  ASSUME DevicesInv, NEW h \in Handlers
  PROVE  /\ GiveUp(h) => DevicesInv'
         /\ \A u \in Accts, f \in Prints :
              LookUpPrint(h, u, f) \/ LookUpFails(h, u, f) => DevicesInv'
         /\ \A u \in Accts, d \in DeviceIds :
              AskForCode(h, u, d) \/ CheckApprover(h, u, d) => DevicesInv'
         /\ \A d \in DeviceIds : CheckPending(h, d) => DevicesInv'
<1>1. Done \in Call /\ Done.code = Nil /\ Done.phase = "idle"
  BY DEF Done, Call
<1>2. begun \in 0..MaxBegun /\ (OneMore => begun' \in 0..MaxBegun)
  BY DeviceConstants DEF DevicesInv, DevicesTypeOK, OneMore
<1>3. GiveUp(h) => DevicesInv'
  BY <1>1, <1>2, CallsStand DEF GiveUp
<1>4. ASSUME NEW u \in Accts, NEW f \in Prints, LookUpPrint(h, u, f) \/ LookUpFails(h, u, f)
      PROVE  DevicesInv'
  <2> DEFINE c == [Done EXCEPT !.phase = "create", !.user = u, !.print = f]
  <2>1. c \in Call /\ c.code = Nil /\ c.phase = "create" /\ c.user = u /\ c.print = f
    BY DEF Done, Call
  <2>2. device' = device /\ codes' = codes /\ spent' = spent /\ OneMore
        /\ call' = [call EXCEPT ![h] = c]
    BY <1>4 DEF LookUpPrint, LookUpFails, Begin
  <2> HIDE DEF c
  <2> QED BY <1>2, <2>1, <2>2, CallsStand
<1>5. ASSUME NEW u \in Accts, NEW d \in DeviceIds,
             AskForCode(h, u, d) \/ CheckApprover(h, u, d)
      PROVE  DevicesInv'
  <2>1. PICK p \in {"store", "approver"} :
          call' = [call EXCEPT ![h] = [Done EXCEPT !.phase = p, !.user = u, !.device = d]]
    BY <1>5 DEF AskForCode, CheckApprover, Begin
  <2> DEFINE c == [Done EXCEPT !.phase = p, !.user = u, !.device = d]
  <2>2. c \in Call /\ c.code = Nil /\ c.phase = p /\ c.user = u /\ c.device = d
    BY DEF Done, Call
  <2>3. device' = device /\ codes' = codes /\ spent' = spent /\ OneMore /\ Vouches(u, d)
    BY <1>5 DEF AskForCode, CheckApprover, Begin, Own, Vouches
  <2> HIDE DEF c
  <2>4. call' = [call EXCEPT ![h] = c]
    BY <2>1 DEF c
  <2> QED BY <1>2, <2>2, <2>3, <2>4, CallsStand
<1>6. ASSUME NEW d \in DeviceIds, CheckPending(h, d) PROVE DevicesInv'
  <2> DEFINE c == [call[h] EXCEPT !.phase = "pending", !.pending = d]
  <2>1. call[h] \in Call /\ call[h].phase = "approver" /\ call[h].code = Nil
        /\ Vouches(call[h].user, call[h].device) /\ call[h].user \in Accts
    BY <1>6 DEF CheckPending, DevicesInv, DevicesTypeOK, CallInv
  <2>2. c \in Call /\ c.code = Nil /\ c.phase = "pending" /\ c.user = call[h].user
        /\ c.device = call[h].device /\ c.pending = d
    BY <2>1 DEF Call
  <2>3. device' = device /\ codes' = codes /\ spent' = spent /\ begun' = begun
        /\ call' = [call EXCEPT ![h] = c] /\ device[d].user = call[h].user
    BY <1>6 DEF CheckPending, Own, DevicesInv, DevicesTypeOK
  <2> HIDE DEF c
  <2> QED BY <1>2, <2>1, <2>2, <2>3, CallsStand
<1> QED BY <1>3, <1>4, <1>5, <1>6

(* A code leaves Redis for the call of its account, or is lost. *)
LEMMA RedeemKeeps ==
  ASSUME DevicesInv, NEW h \in Handlers, NEW u \in Accts, NEW f \in Prints, NEW k \in Codes,
         RedeemCode(h, u, f, k)
  PROVE  DevicesInv'
<1> USE DEF DevicesInv
<1>1. /\ codes[k] # Nil /\ k \in spent /\ Vouches(device[codes[k]].user, codes[k])
      /\ Unused(k) /\ \A g \in Handlers : call[g].code # k
  BY DEF RedeemCode, CodeInv
<1>2. /\ device' = device /\ spent' = spent /\ codes' = [codes EXCEPT ![k] = Nil]
      /\ codes' \in [Codes -> DeviceIds \cup {Nil}] /\ begun' \in 0..MaxBegun
  BY DeviceConstants DEF RedeemCode, Begin, OneMore, DevicesTypeOK
<1>3. (\A v, a : Vouches(v, a)' <=> Vouches(v, a)) /\ (\A l : Unused(l)' <=> Unused(l))
      /\ FreeInv' /\ OneDevicePerFingerprint'
  BY <1>2 DEF Vouches, Unused, FreeInv, FreeIds, OneDevicePerFingerprint, WithPrint, Own
<1>4. CASE call' = call
  <2>1. DevicesTypeOK'
    BY <1>2, <1>4 DEF DevicesTypeOK
  <2>2. \A g \in Handlers : CallInv(g)'
    BY <1>2, <1>3, <1>4 DEF CallInv, DevicesTypeOK
  <2>3. \A l \in Codes : CodeInv(l)'
    BY <1>1, <1>2, <1>3, <1>4 DEF CodeInv, DevicesTypeOK
  <2> QED BY <1>3, <2>1, <2>2, <2>3
<1>5. CASE device[codes[k]].user = u
  <2> DEFINE c == [Done EXCEPT !.phase = "create", !.user = u, !.print = f, !.code = k]
  <2>1. c \in Call /\ c.phase = "create" /\ c.user = u /\ c.print = f /\ c.code = k
    BY DEF Done, Call
  <2>2. call' = [call EXCEPT ![h] = c]
    BY <1>5 DEF RedeemCode, Begin
  <2> HIDE DEF c
  <2>3. call'[h] = c /\ \A g \in Handlers \ {h} : call'[g] = call[g]
    BY <2>2 DEF DevicesTypeOK
  <2>4. DevicesTypeOK'
    BY <1>2, <2>1, <2>2 DEF DevicesTypeOK
  <2>5. CallInv(h)'
    <3>1. k # Nil /\ codes'[k] = Nil /\ \E a \in DeviceIds : Vouches(u, a)'
      <4>1. codes[k] \in DeviceIds /\ Vouches(u, codes[k])
        BY <1>1, <1>5 DEF Vouches
      <4>2. \E a \in DeviceIds : Vouches(u, a)
        BY <4>1
      <4> QED BY <1>2, <1>3, <4>2, DeviceConstants DEF DevicesTypeOK
    <3>2. \A g \in Handlers \ {h} : call'[g].code # k
      BY <1>1, <2>3
    <3> QED BY <1>1, <1>2, <1>3, <2>1, <2>3, <3>1, <3>2 DEF CallInv
  <2>6. ASSUME NEW g \in Handlers \ {h} PROVE CallInv(g)'
    <3>1. call'[g].code # k
      BY <1>1, <2>3
    <3>2. CallInv(g) /\ call'[g] = call[g]
      BY <2>3
    <3>3. codes'[call[g].code] = codes[call[g].code] \/ call[g].code = Nil
      BY <1>2, <3>1, <3>2 DEF DevicesTypeOK, Call
    <3> QED BY <1>2, <1>3, <2>1, <2>3, <3>1, <3>2, <3>3 DEF CallInv
  <2>7. ASSUME NEW l \in Codes PROVE CodeInv(l)'
    <3>1. CodeInv(l) /\ (codes'[l] # Nil => codes'[l] = codes[l] /\ l # k)
      BY <1>2 DEF DevicesTypeOK
    <3>2. l # k => \A g \in Handlers : call'[g].code = call[g].code \/ call'[g].code # l
      BY <2>1, <2>3
    <3> QED BY <1>1, <1>2, <1>3, <3>1, <3>2 DEF CodeInv
  <2> QED BY <1>3, <2>4, <2>5, <2>6, <2>7
<1> QED BY <1>4, <1>5 DEF RedeemCode

(* A new device takes the place of none, and its code leaves the call. *)
LEMMA CreateDeviceKeeps ==
  ASSUME DevicesInv, NEW h \in Handlers, CreateDevice(h)
  PROVE  DevicesInv'
<1> USE DEF DevicesInv
<1> DEFINE new == CHOOSE d \in FreeIds : TRUE
           row == [user |-> call[h].user, print |-> call[h].print,
                   approved |-> call[h].code = Nil, by |-> Nil, revoked |-> FALSE,
                   code |-> call[h].code]
<1>1. new \in DeviceIds /\ device[new].user = Nil
  BY DEF CreateDevice, InsertDevice, FreeIds
<1>2. /\ call[h] \in Call /\ call[h].phase = "create" /\ call[h].user \in Accts
      /\ call[h].print \in Prints /\ WithPrint(call[h].user, call[h].print) = {}
  BY DEF CreateDevice, InsertDevice, CallInv, DevicesTypeOK
<1>3. row \in Row /\ row.user = call[h].user /\ row.code = call[h].code
      /\ row.print = call[h].print /\ row.revoked = FALSE
  BY <1>2 DEF Row, Call
<1>4. /\ device' = [device EXCEPT ![new] = row] /\ call' = [call EXCEPT ![h] = Done]
      /\ codes' = codes /\ spent' = spent /\ begun' = begun
  BY DEF CreateDevice, InsertDevice
<1>5. Done \in Call /\ Done.phase = "idle" /\ Done.code = Nil
  BY DEF Done, Call
<1> HIDE DEF new, row
<1>6. device'[new] = row /\ \A d \in DeviceIds \ {new} : device'[d] = device[d]
  BY <1>1, <1>4 DEF DevicesTypeOK
<1>7. call'[h] = Done /\ \A g \in Handlers \ {h} : call'[g] = call[g]
  BY <1>4 DEF DevicesTypeOK
<1>8. DevicesTypeOK'
  BY <1>1, <1>3, <1>4, <1>5 DEF DevicesTypeOK
<1>9. ASSUME NEW u \in Accts, NEW a \in DeviceIds, Vouches(u, a) PROVE a # new /\ Vouches(u, a)'
  BY <1>1, <1>6, <1>9, DeviceConstants DEF Vouches
<1>10. ASSUME NEW k, Unused(k), k # call[h].code PROVE Unused(k)'
  BY <1>3, <1>6, <1>10 DEF Unused
<1>11. CallInv(h)'
  BY <1>5, <1>7 DEF CallInv
<1>12. ASSUME NEW g \in Handlers \ {h} PROVE CallInv(g)'
  <2>1. CallInv(g) /\ call'[g] = call[g] /\ call[g] \in Call
    BY <1>7 DEF DevicesTypeOK
  <2>2. call[g].code # Nil => call[g].code # call[h].code
    BY DEF CallInv
  <2>3. call[g].code # Nil => \A i \in Handlers \ {g} : call'[i].code # call[g].code
    BY <1>5, <1>7, <2>1 DEF CallInv
  <2>4. \A a \in DeviceIds : Vouches(call[g].user, a) => Vouches(call[g].user, a)'
    <3>1. \A a \in DeviceIds : Vouches(call[g].user, a) => call[g].user \in Accts
      BY DEF Vouches
    <3> QED BY <1>9, <2>1, <3>1 DEF Vouches
  <2>5. call[g].code # Nil => Unused(call[g].code)'
    <3>1. SUFFICES ASSUME call[g].code # Nil PROVE Unused(call[g].code)'
      OBVIOUS
    <3>2. Unused(call[g].code)
      BY <2>1, <3>1 DEF CallInv
    <3>3. \A d \in DeviceIds : device'[d].code # call[g].code
      BY <1>3, <1>6, <2>2, <3>1, <3>2 DEF Unused
    <3> QED BY <2>1, <3>3 DEF Unused
  <2>6. call[g].phase \in {"store", "approver", "pending"} =>
          Vouches(call[g].user, call[g].device) /\ call[g].device \in DeviceIds
    BY <2>1 DEF CallInv, Vouches
  <2>7. call[g].phase = "pending" => device'[call[g].pending].user = call[g].user
    BY <1>1, <1>6, <2>1, DeviceConstants DEF CallInv
  <2>8. call[g].phase \in {"store", "approver", "pending"} =>
          Vouches(call[g].user, call[g].device)'
    BY <2>1, <2>4, <2>6 DEF Vouches
  <2>9. call[g].code # Nil => \E a \in DeviceIds : Vouches(call[g].user, a)'
    BY <2>1, <2>4 DEF CallInv, Vouches
  <2> QED BY <1>4, <2>1, <2>3, <2>5, <2>7, <2>8, <2>9 DEF CallInv
<1>13. ASSUME NEW k \in Codes PROVE CodeInv(k)'
  <2>1. CodeInv(k)
    OBVIOUS
  <2>2. codes[k] # Nil => Vouches(device[codes[k]].user, codes[k])'
    <3>1. SUFFICES ASSUME codes[k] # Nil PROVE Vouches(device[codes[k]].user, codes[k])'
      OBVIOUS
    <3>2. Vouches(device[codes[k]].user, codes[k])
      BY <2>1, <3>1 DEF CodeInv
    <3>3. codes[k] \in DeviceIds /\ codes[k] # new
      BY <1>9, <3>2 DEF Vouches
    <3>4. device'[codes[k]] = device[codes[k]]
      BY <1>6, <3>3
    <3> QED BY <1>4, <3>2, <3>4 DEF Vouches
  <2>3. codes[k] # Nil \/ k \notin spent => k # call[h].code /\ Unused(k)
    BY <2>1 DEF CodeInv
  <2>4. codes[k] # Nil \/ k \notin spent => \A g \in Handlers : call'[g].code # k
    BY <1>5, <1>7, <2>1, DeviceConstants DEF CodeInv
  <2> QED BY <1>4, <1>10, <2>1, <2>2, <2>3, <2>4 DEF CodeInv, Unused
<1>14. OneDevicePerFingerprint'
  <2> SUFFICES ASSUME NEW u \in Accts, NEW f \in Prints, NEW d \in WithPrint(u, f)',
                      NEW e \in WithPrint(u, f)'
               PROVE  d = e
    BY DEF OneDevicePerFingerprint
  <2>1. \A x \in DeviceIds \ {new} : x \in WithPrint(u, f)' => x \in WithPrint(u, f)
    BY <1>6 DEF WithPrint, Own
  <2>2. new \in WithPrint(u, f)' => WithPrint(u, f) = {}
    BY <1>2, <1>3, <1>6 DEF WithPrint, Own
  <2>3. d \in DeviceIds /\ e \in DeviceIds
    BY DEF WithPrint
  <2> QED BY <2>1, <2>2, <2>3 DEF OneDevicePerFingerprint
<1>15. FreeInv'
  BY <1>2, <1>3, <1>6, DeviceConstants DEF FreeInv, FreeIds
<1> QED BY <1>8, <1>11, <1>12, <1>13, <1>14, <1>15

(* A code is generated for a device that has been looked at. *)
LEMMA GenerateKeeps ==
  ASSUME DevicesInv, NEW h \in Handlers, GenerateCode(h)
  PROVE  DevicesInv'
<1> USE DEF DevicesInv
<1>1. PICK k \in Codes \ spent : /\ codes' = [codes EXCEPT ![k] = call[h].device]
                                /\ spent' = spent \cup {k}
  BY DEF GenerateCode
<1>2. /\ device' = device /\ begun' = begun /\ call' = [call EXCEPT ![h] = Done]
      /\ Vouches(call[h].user, call[h].device) /\ Unused(k)
      /\ \A g \in Handlers : call[g].code # k
  BY <1>1 DEF GenerateCode, CallInv, CodeInv
<1>3. Done \in Call /\ Done.phase = "idle" /\ Done.code = Nil
  BY DEF Done, Call
<1>4. DevicesTypeOK'
  BY <1>1, <1>2, <1>3 DEF DevicesTypeOK, Vouches
<1>5. (\A v, a : Vouches(v, a)' <=> Vouches(v, a)) /\ (\A l : Unused(l)' <=> Unused(l))
      /\ FreeInv' /\ OneDevicePerFingerprint'
  BY <1>2 DEF Vouches, Unused, FreeInv, FreeIds, OneDevicePerFingerprint, WithPrint, Own
<1>6. call'[h] = Done /\ \A g \in Handlers \ {h} : call'[g] = call[g]
  BY <1>2 DEF DevicesTypeOK
<1>7. ASSUME NEW g \in Handlers PROVE CallInv(g)'
  <2>1. codes'[call[g].code] = codes[call[g].code] \/ call[g].code = Nil
    BY <1>1, <1>2 DEF DevicesTypeOK, Call
  <2> QED BY <1>1, <1>2, <1>3, <1>5, <1>6, <2>1 DEF CallInv
<1>8. ASSUME NEW l \in Codes PROVE CodeInv(l)'
  <2>1. \A g \in Handlers : call'[g].code \in {call[g].code, Nil}
    BY <1>3, <1>6
  <2>2. l = k => codes'[l] = call[h].device /\ device[call[h].device].user = call[h].user
    BY <1>1, <1>2 DEF DevicesTypeOK, Vouches
  <2>3. l # k => codes'[l] = codes[l]
    BY <1>1 DEF DevicesTypeOK
  <2> QED BY <1>1, <1>2, <1>5, <2>1, <2>2, <2>3, DeviceConstants DEF CodeInv
<1> QED BY <1>4, <1>5, <1>7, <1>8

LEMMA ExpiryKeeps ==
  ASSUME DevicesInv, NEW k \in Codes, CodeExpires(k)
  PROVE  DevicesInv'
<1> USE DEF DevicesInv
<1>1. /\ device' = device /\ spent' = spent /\ call' = call /\ begun' = begun
      /\ codes' = [codes EXCEPT ![k] = Nil] /\ k \in spent
  BY DEF CodeExpires, CodeInv
<1>2. DevicesTypeOK'
  BY <1>1 DEF DevicesTypeOK
<1>3. (\A v, a : Vouches(v, a)' <=> Vouches(v, a)) /\ (\A l : Unused(l)' <=> Unused(l))
      /\ FreeInv' /\ OneDevicePerFingerprint'
  BY <1>1 DEF Vouches, Unused, FreeInv, FreeIds, OneDevicePerFingerprint, WithPrint, Own
<1>4. \A h \in Handlers : CallInv(h)'
  BY <1>1, <1>3 DEF CallInv, DevicesTypeOK
<1>5. \A l \in Codes : CodeInv(l)'
  BY <1>1, <1>3 DEF CodeInv, DevicesTypeOK
<1> QED BY <1>2, <1>3, <1>4, <1>5

(* ApproveDevice, RejectDevice and RevokeDevice change neither whose a     *)
(* device is nor its code, and take no approval back.                      *)
LEMMA VerdictKeeps ==
  ASSUME DevicesInv,
         device' \in [DeviceIds -> Row], codes' = codes, spent' = spent,
         begun' \in 0..MaxBegun,
         call' = call \/ \E h \in Handlers : call' = [call EXCEPT ![h] = Done],
         \A d \in DeviceIds : /\ device'[d].user = device[d].user
                              /\ device'[d].code = device[d].code
                              /\ device'[d].print = device[d].print
                              /\ device[d].approved => device'[d].approved
                              /\ device[d].revoked => device'[d].revoked
  PROVE  DevicesInv'
<1> USE DEF DevicesInv
<1>1. /\ \A u, a : Vouches(u, a) => Vouches(u, a)'
      /\ \A k : Unused(k) => Unused(k)'
      /\ FreeInv' /\ OneDevicePerFingerprint'
  BY DevicesStand
<1>2. Done \in Call /\ Done.phase = "idle" /\ Done.code = Nil
  BY DEF Done, Call
<1>3. \A h \in Handlers : call'[h] \in {call[h], Done}
  BY DEF DevicesTypeOK
<1>4. DevicesTypeOK'
  BY <1>2 DEF DevicesTypeOK
<1>5. ASSUME NEW h \in Handlers PROVE CallInv(h)'
  <2>1. CASE call'[h] = Done
    BY <1>2, <2>1 DEF CallInv
  <2>2. CASE call'[h] = call[h]
    <3>1. call[h].code # Nil => \A g \in Handlers \ {h} : call'[g].code # call[h].code
      BY <1>2, <1>3 DEF CallInv
    <3> QED BY <1>1, <2>2, <3>1 DEF CallInv
  <2> QED BY <1>3, <2>1, <2>2
<1>6. ASSUME NEW k \in Codes PROVE CodeInv(k)'
  <2>1. \A h \in Handlers : call'[h].code \in {call[h].code, Nil}
    BY <1>2, <1>3
  <2>2. codes[k] # Nil => /\ codes[k] \in DeviceIds
                         /\ Vouches(device[codes[k]].user, codes[k])
                         /\ device'[codes[k]].user = device[codes[k]].user
    BY DEF CodeInv, Vouches
  <2>3. codes[k] # Nil => Vouches(device[codes[k]].user, codes[k])'
    BY <2>2 DEF Vouches
  <2> QED BY <1>1, <2>1, <2>3, DeviceConstants DEF CodeInv
<1> QED BY <1>1, <1>4, <1>5, <1>6

LEMMA DevicesStepInv ==
  ASSUME DevicesInv, [DevicesNext]_deviceVars
  PROVE  DevicesInv'
<1>0. /\ begun \in 0..MaxBegun /\ (OneMore => begun' \in 0..MaxBegun)
      /\ device \in [DeviceIds -> Row]
  BY DeviceConstants DEF DevicesInv, DevicesTypeOK, OneMore
<1>1. ASSUME NEW h \in Handlers, ApproveDevice(h) PROVE DevicesInv'
  <2>1. call[h].pending \in DeviceIds /\ call[h].device \in DeviceIds
    BY <1>1 DEF ApproveDevice, DevicesInv, CallInv, Vouches
  <2>2. device' = [device EXCEPT ![call[h].pending].approved = TRUE,
                                 ![call[h].pending].by = call[h].device]
    BY <1>1 DEF ApproveDevice
  <2>3. device' \in [DeviceIds -> Row]
    BY <1>0, <2>1, <2>2 DEF Row
  <2>4. \A d \in DeviceIds : /\ device'[d].user = device[d].user
                             /\ device'[d].code = device[d].code
                             /\ device'[d].print = device[d].print
                             /\ device[d].approved => device'[d].approved
                             /\ device[d].revoked => device'[d].revoked
    BY <1>0, <2>1, <2>2 DEF Row
  <2> QED BY <1>0, <1>1, <2>3, <2>4, VerdictKeeps DEF ApproveDevice
<1>2. ASSUME NEW h \in Handlers, RejectDevice(h) PROVE DevicesInv'
  <2> DEFINE p == call[h].pending
  <2>1. p \in DeviceIds
    BY <1>2 DEF RejectDevice, DevicesInv, CallInv
  <2>2. device' = [device EXCEPT ![p].revoked = @ \/ ~device[p].approved]
    BY <1>2 DEF RejectDevice
  <2>3. device' \in [DeviceIds -> Row]
    <3>1. PICK b \in BOOLEAN : b = (device[p].revoked \/ ~device[p].approved)
      OBVIOUS
    <3>2. device' = [device EXCEPT ![p].revoked = b]
      BY <2>2, <3>1, Zenon
    <3> QED BY <1>0, <2>1, <3>2 DEF Row
  <2>4. \A d \in DeviceIds : /\ device'[d].user = device[d].user
                             /\ device'[d].code = device[d].code
                             /\ device'[d].print = device[d].print
                             /\ device[d].approved => device'[d].approved
                             /\ device[d].revoked => device'[d].revoked
    BY <1>0, <2>1, <2>2 DEF Row
  <2> QED BY <1>0, <1>2, <2>3, <2>4, VerdictKeeps DEF RejectDevice
<1>3. ASSUME NEW u \in Accts, NEW d \in DeviceIds, RevokeDevice(u, d) PROVE DevicesInv'
  <2>1. device' = [device EXCEPT ![d].revoked = TRUE]
    BY <1>3 DEF RevokeDevice
  <2>2. device' \in [DeviceIds -> Row]
    BY <1>0, <2>1 DEF Row
  <2>3. \A e \in DeviceIds : /\ device'[e].user = device[e].user
                             /\ device'[e].code = device[e].code
                             /\ device'[e].print = device[e].print
                             /\ device[e].approved => device'[e].approved
                             /\ device[e].revoked => device'[e].revoked
    BY <1>0, <2>1 DEF Row
  <2> QED BY <1>0, <1>3, <2>2, <2>3, VerdictKeeps DEF RevokeDevice
<1>4. CASE UNCHANGED deviceVars
  <2>1. device' = device /\ codes' = codes /\ spent' = spent /\ call' = call /\ begun' = begun
    BY <1>4 DEF deviceVars
  <2> QED BY <1>0, <2>1, VerdictKeeps
<1> QED
  BY <1>1, <1>2, <1>3, <1>4, LooksKeep, RedeemKeeps, CreateDeviceKeeps, GenerateKeeps, ExpiryKeeps
  DEF DevicesNext

(* The inductive invariant: a code admits one device or none, and whoever  *)
(* is about to vouch has been approved.                                    *)
THEOREM DevicesInvariant == DevicesSpec => []DevicesInv
BY DevicesInitInv, DevicesStepInv, PTL DEF DevicesSpec

(* OneDevicePerFingerprint (handler.go:387-416, 581-596), for any number   *)
(* of devices and calls: the index alone sees to it.                       *)
THEOREM FingerprintsAreSingle == DevicesSpec => []OneDevicePerFingerprint
<1>1. DevicesInv => OneDevicePerFingerprint
  BY DEF DevicesInv
<1> QED BY <1>1, DevicesInvariant, PTL

(* The two halves of DevicesJoinByVouching: for the step that makes a      *)
(* device, and for the one that approves it.                               *)
JoinsByCode(d) ==
  device'[d].code # device[d].code =>
    /\ \A e \in DeviceIds \ {d} : device[e].code # device'[d].code
    /\ \E a \in DeviceIds \ {d} : device[a].user = device'[d].user /\ device[a].approved

IsVouchedFor(d) ==
  device'[d].approved /\ ~device[d].approved /\ device'[d].code # Nil =>
    /\ device[device'[d].by].approved
    /\ device[device'[d].by].user = device'[d].user

LEMMA CreatedByCode ==
  ASSUME DevicesInv, NEW h \in Handlers, CreateDevice(h), NEW d \in DeviceIds
  PROVE  JoinsByCode(d) /\ IsVouchedFor(d)
<1> DEFINE new == CHOOSE x \in FreeIds : TRUE
           row == [user |-> call[h].user, print |-> call[h].print,
                   approved |-> call[h].code = Nil, by |-> Nil, revoked |-> FALSE,
                   code |-> call[h].code]
<1>1. new \in DeviceIds /\ device[new].user = Nil
  BY DEF CreateDevice, InsertDevice, FreeIds
<1>2. device' = [device EXCEPT ![new] = row]
  BY DEF CreateDevice, InsertDevice
<1>3. row.user = call[h].user /\ row.code = call[h].code /\ (row.approved <=> call[h].code = Nil)
  OBVIOUS
<1> HIDE DEF new, row
<1>4. device \in [DeviceIds -> Row] /\ CallInv(h)
  BY DEF DevicesInv, DevicesTypeOK
<1>5. CASE d # new
  BY <1>1, <1>2, <1>4, <1>5 DEF JoinsByCode, IsVouchedFor
<1>6. CASE d = new
  <2>1. device'[d] = row
    BY <1>1, <1>2, <1>4, <1>6
  <2>2. CASE call[h].code = Nil
    <3>1. device[d].code = Nil
      BY <1>1, <1>6 DEF DevicesInv, FreeInv, FreeIds
    <3> QED BY <1>3, <2>1, <2>2, <3>1 DEF JoinsByCode, IsVouchedFor
  <2>3. CASE call[h].code # Nil
    <3>1. PICK a \in DeviceIds : Vouches(call[h].user, a)
      BY <1>4, <2>3 DEF CallInv
    <3>2. a # d
      BY <1>1, <1>6, <3>1, DeviceConstants DEF Vouches
    <3> QED BY <1>3, <1>4, <2>1, <2>3, <3>1, <3>2
            DEF JoinsByCode, IsVouchedFor, CallInv, Unused, Vouches
  <2> QED BY <2>2, <2>3
<1> QED BY <1>5, <1>6

LEMMA ApprovedByApproved ==
  ASSUME DevicesInv, NEW h \in Handlers, ApproveDevice(h), NEW d \in DeviceIds
  PROVE  JoinsByCode(d) /\ IsVouchedFor(d)
<1>1. /\ call[h].pending \in DeviceIds /\ Vouches(call[h].user, call[h].device)
      /\ device[call[h].pending].user = call[h].user /\ device \in [DeviceIds -> Row]
  BY DEF ApproveDevice, DevicesInv, DevicesTypeOK, CallInv
<1>2. device' = [device EXCEPT ![call[h].pending].approved = TRUE,
                               ![call[h].pending].by = call[h].device]
  BY DEF ApproveDevice
<1>3. CASE d # call[h].pending
  BY <1>1, <1>2, <1>3 DEF JoinsByCode, IsVouchedFor
<1>4. CASE d = call[h].pending
  <2>1. /\ device'[d].by = call[h].device /\ device'[d].user = device[d].user
        /\ device'[d].code = device[d].code
    BY <1>1, <1>2, <1>4 DEF Row
  <2> QED BY <1>1, <1>4, <2>1 DEF JoinsByCode, IsVouchedFor, Vouches
<1> QED BY <1>3, <1>4

(* Every other step leaves codes and approvals as they are. *)
LEMMA NothingJoins ==
  ASSUME NEW d \in DeviceIds, DevicesInv,
         device' = device \/ (\E h \in Handlers : RejectDevice(h))
           \/ (\E u \in Accts, e \in DeviceIds : RevokeDevice(u, e))
  PROVE  JoinsByCode(d) /\ IsVouchedFor(d)
<1>1. device \in [DeviceIds -> Row]
  BY DEF DevicesInv, DevicesTypeOK
<1>2. device'[d].code = device[d].code /\ (device'[d].approved <=> device[d].approved)
  <2>1. CASE device' = device
    BY <2>1
  <2>2. ASSUME NEW h \in Handlers, RejectDevice(h)
        PROVE  device'[d].code = device[d].code /\ (device'[d].approved <=> device[d].approved)
    BY <1>1, <2>2 DEF RejectDevice, Row
  <2>3. ASSUME NEW u \in Accts, NEW e \in DeviceIds, RevokeDevice(u, e)
        PROVE  device'[d].code = device[d].code /\ (device'[d].approved <=> device[d].approved)
    BY <1>1, <2>3 DEF RevokeDevice, Row
  <2> QED BY <2>1, <2>2, <2>3
<1> QED BY <1>2 DEF JoinsByCode, IsVouchedFor

(* DevicesJoinByVouching (handler.go:549-558, 573-596, 612-631), for any   *)
(* accounts, devices and codes.                                            *)
THEOREM DevicesAreVouchedFor == DevicesSpec => DevicesJoinByVouching
<1>1. ASSUME DevicesInv, DevicesNext, NEW d \in DeviceIds
      PROVE  JoinsByCode(d) /\ IsVouchedFor(d)
  <2>1. CASE \E h \in Handlers : CreateDevice(h)
    BY <1>1, <2>1, CreatedByCode
  <2>2. CASE \E h \in Handlers : ApproveDevice(h)
    BY <1>1, <2>2, ApprovedByApproved
  <2>3. CASE device' = device \/ (\E h \in Handlers : RejectDevice(h))
               \/ (\E u \in Accts, e \in DeviceIds : RevokeDevice(u, e))
    BY <1>1, <2>3, NothingJoins
  <2> QED
    BY <1>1, <2>1, <2>2, <2>3
    DEF DevicesNext, LookUpPrint, LookUpFails, RedeemCode, AskForCode, CheckApprover,
        CheckPending, GenerateCode, GiveUp, CodeExpires, Begin
<1>2. DevicesInv /\ [DevicesNext]_deviceVars =>
        [\A d \in DeviceIds : LET row == device'[d] IN
           /\ row.code # device[d].code =>
                /\ \A e \in DeviceIds \ {d} : device[e].code # row.code
                /\ \E a \in DeviceIds \ {d} : device[a].user = row.user /\ device[a].approved
           /\ row.approved /\ ~device[d].approved /\ row.code # Nil =>
                device[row.by].approved /\ device[row.by].user = row.user]_deviceVars
  BY <1>1 DEF JoinsByCode, IsVouchedFor
<1> QED BY <1>2, DevicesInvariant, PTL DEF DevicesSpec, DevicesJoinByVouching

-----------------------------------------------------------------------------
(* Accounts and their verification *)

LEMMA AccountsInitTypes == AccountsInit => AccountsTypeOK
BY AccountConstants DEF AccountsInit, AccountsTypeOK, NotMailing

(* Every statement of a call leaves a typed row, and calls that can go on. *)
LEMMA AccountsStepTypes ==
  ASSUME AccountsTypeOK, [AccountsNext]_accountVars
  PROVE  AccountsTypeOK'
<1>. USE AccountConstants DEF AccountsTypeOK
<1>1. ASSUME NEW m \in Mailings, Register(m) PROVE AccountsTypeOK'
  BY <1>1 DEF Register
<1>2. ASSUME NEW m \in Mailings, ResendVerification(m) \/ ResendImpatiently(m)
      PROVE  AccountsTypeOK'
  BY <1>2 DEF ResendVerification, ResendImpatiently, Asking
<1>3. ASSUME NEW m \in Mailings, SetVerificationToken(m) PROVE AccountsTypeOK'
  <2>1. PICK l \in Links :
          /\ account' = [account EXCEPT !.link = l, !.live = TRUE]
          /\ mailing' = [mailing EXCEPT ![m] = [phase |-> "mail", link |-> l]]
    BY <1>3 DEF SetVerificationToken
  <2>2. account' \in [exists : BOOLEAN, verified : BOOLEAN, link : Links \cup {NoLink},
                      live : BOOLEAN]
    BY <2>1
  <2>3. mailing' \in [Mailings -> [phase : {"idle", "set", "mail"}, link : Links \cup {NoLink}]]
    BY <2>1
  <2> QED BY <1>3, <2>2, <2>3 DEF SetVerificationToken
<1>4. ASSUME NEW m \in Mailings, SendVerification(m) \/ MailingFails(m)
      PROVE  AccountsTypeOK'
  BY <1>4 DEF SendVerification, MailingFails, NotMailing
<1>5. ASSUME NEW v \in Clicks, ClickLink(v) \/ VerifyUserEmail(v) \/ VerifyFails(v)
      PROVE  AccountsTypeOK'
  BY <1>5 DEF ClickLink, VerifyUserEmail, VerifyFails
<1>6. CASE LinkExpires
  BY <1>6 DEF LinkExpires
<1>7. CASE UNCHANGED accountVars
  BY <1>7 DEF accountVars
<1> QED BY <1>1, <1>2, <1>3, <1>4, <1>5, <1>6, <1>7 DEF AccountsNext

(* An account and the calls about it keep their types, for any number of   *)
(* calls, links and mails.                                                 *)
THEOREM AccountTypes == AccountsSpec => []AccountsTypeOK
<1>1. AccountsTypeOK /\ [AccountsNext]_accountVars => AccountsTypeOK'
  BY AccountsStepTypes
<1> QED BY <1>1, AccountsInitTypes, PTL DEF AccountsSpec

-----------------------------------------------------------------------------
(* Side by side *)

(* A step of the service is one of each part, or leaves it alone.          *)
LEMMA IdentityStep ==
  ASSUME [IdentityNext]_identityVars
  PROVE  /\ [TokensNext]_tokenVars
         /\ [AccountsNext]_accountVars
         /\ [DevicesNext]_deviceVars
         /\ [SessionsNext]_sessionVars
         /\ [FriendsNext]_friendVars
<1>1. CASE UNCHANGED identityVars
  BY <1>1 DEF identityVars
<1>2. CASE IdentityNext
  BY <1>2 DEF IdentityNext, Only
<1> QED BY <1>1, <1>2

(* Each part behaves as its own specification says; of the accounts that   *)
(* is said for their safety part only.                                     *)
THEOREM PartsBehave ==
  IdentitySpec =>
    /\ TokensSpec /\ DevicesSpec /\ SessionsSpec /\ FriendsSpec
    /\ AccountsInit /\ [][AccountsNext]_accountVars
<1>1. IdentityInit =>
        TokensInit /\ AccountsInit /\ DevicesInit /\ SessionsInit /\ FriendsInit
  BY DEF IdentityInit
<1> QED
  BY <1>1, IdentityStep, PTL
  DEF IdentitySpec, TokensSpec, DevicesSpec, SessionsSpec, FriendsSpec

(* Every part of the run keeps its types, whatever the sizes.              *)
THEOREM IdentityTypesCorrect == IdentitySpec => []IdentityTypeOK
<1>1. AccountsTypeOK /\ [AccountsNext]_accountVars => AccountsTypeOK'
  BY AccountsStepTypes
<1>2. TokensInv /\ AccountsTypeOK /\ DevicesInv /\ SessionsInv /\ FriendsInv => IdentityTypeOK
  BY DEF IdentityTypeOK, TokensInv, DevicesInv, SessionsInv, FriendsInv
<1> QED
  BY <1>1, <1>2, AccountsInitTypes, PartsBehave, TokensInvariant, DevicesInvariant,
     SessionsInvariant, FriendsInvariant, PTL

(* What the run of the identity service checks of its safety, for every    *)
(* value of the constants.                                                 *)
THEOREM IdentityIsSafe ==
  IdentitySpec =>
    /\ [](RevokedNeverValid /\ RotatedOnce /\ OneDevicePerFingerprint /\ OneRowUnlessUnseen)
    /\ DevicesJoinByVouching /\ ClosedSessionsShrink
<1> QED
  BY PartsBehave, RevokedStayInvalid, PairsAreSingle, FingerprintsAreSingle, RowsAreSingle,
     DevicesAreVouchedFor, ClosedSessionsOnlyShrink, PTL
=============================================================================
