------------------------------ MODULE Friends -------------------------------
(***************************************************************************)
(* Friend requests: the table friends of the identity service, with one    *)
(* row at most for each requester and addressee, and the handlers that     *)
(* write to it.  SendFriendRequest looks for a row in either direction and *)
(* then inserts one; other calls run in between.                           *)
(***************************************************************************)
CONSTANTS
  People,    \* users; none is ever deleted
  Senders,   \* SendFriendRequest calls at the same time
  Nobody     \* no user

ASSUME FriendConstants == Nobody \notin People \X People

VARIABLES
  friendship,  \* table friends: the status for <<requester, addressee>>
  sending,     \* the SendFriendRequest calls that have looked
  unseen       \* history: pairs of which a call may not have seen the other's row

friendVars == <<friendship, sending, unseen>>

Couple == {p \in People \X People : p[1] # p[2]}

Back(p) == <<p[2], p[1]>>

FriendsTypeOK ==
  /\ friendship \in [Couple -> {"none", "pending", "accepted", "rejected"}]
  /\ sending \in [Senders -> Couple \cup {Nobody}]
  /\ unseen \subseteq Couple

FriendsInit ==
  /\ friendship = [p \in Couple |-> "none"]
  /\ sending = [s \in Senders |-> Nobody]
  /\ unseen = {}

(* Every row that lets its two users be friends, or keeps them from it.    *)
RowsBetween(p) == {q \in {p, Back(p)} : friendship[q] # "none"}

-----------------------------------------------------------------------------

AskedMeanwhile(p) == {q \in {p, Back(p)} : \E s \in Senders : sending[s] = Back(p)}

LookForFriendship_OneWay(s, p) ==
  /\ sending[s] = Nobody
  /\ friendship[p] = "none"
  /\ sending' = [sending EXCEPT ![s] = p]
  /\ unseen' = unseen \cup AskedMeanwhile(p)
  /\ UNCHANGED friendship

(* GetFriendshipBetween finds no row: go on.  Any row, a rejected one too, *)
(* is the answer AlreadyExists.                                            *)
LookForFriendship(s, p) ==
  /\ sending[s] = Nobody
  /\ RowsBetween(p) = {}
  /\ sending' = [sending EXCEPT ![s] = p]
  /\ unseen' = unseen \cup AskedMeanwhile(p)
  /\ UNCHANGED friendship

(* Any error of the look is taken for "no row". *)
LookFails(s, p) ==
  /\ sending[s] = Nobody
  /\ sending' = [sending EXCEPT ![s] = p]
  /\ unseen' = unseen \cup {p, Back(p)}
  /\ UNCHANGED friendship

(* CreateFriendRequest; the UNIQUE constraint takes no second row. *)
CreateFriendRequest(s) ==
  LET p == sending[s] IN
  /\ p # Nobody
  /\ friendship' = IF friendship[p] = "none" THEN [friendship EXCEPT ![p] = "pending"]
                                             ELSE friendship
  /\ sending' = [sending EXCEPT ![s] = Nobody]
  /\ UNCHANGED unseen

(* A statement fails: an error, and no row. *)
CreateFriendRequestFails(s) ==
  /\ sending[s] # Nobody
  /\ sending' = [sending EXCEPT ![s] = Nobody]
  /\ UNCHANGED <<friendship, unseen>>

(* The addressee answers a request that is still pending. *)
RespondToFriendRequest(p, answer) ==
  /\ friendship[p] = "pending"
  /\ friendship' = [friendship EXCEPT ![p] = answer]
  /\ UNCHANGED <<sending, unseen>>

(* Either of the two deletes the row, whatever its status. *)
RemoveFriend(p) ==
  /\ friendship[p] # "none"
  /\ friendship' = [friendship EXCEPT ![p] = "none"]
  /\ UNCHANGED <<sending, unseen>>

FriendsNext ==
  \/ \E s \in Senders :
       \/ \E p \in Couple : LookForFriendship(s, p) \/ LookFails(s, p)
       \/ CreateFriendRequest(s) \/ CreateFriendRequestFails(s)
  \/ \E p \in Couple :
       \/ \E answer \in {"accepted", "rejected"} : RespondToFriendRequest(p, answer)
       \/ RemoveFriend(p)

FriendsSpec == FriendsInit /\ [][FriendsNext]_friendVars

-----------------------------------------------------------------------------
(* Properties *)

(* Two users have two rows only if they asked each other at the same time, *)
(* or a call could not look.  ListFriendDevices reads one row of the two,  *)
(* whichever comes first, so that only such users may be friends in one    *)
(* look and not in the next (handler.go:938-955, 1141-1147).               *)
OneRowUnlessUnseen ==
  \A p \in Couple : RowsBetween(p) = {p, Back(p)} => p \in unseen
=============================================================================
