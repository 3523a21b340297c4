------------------------------- MODULE Tokens -------------------------------
(***************************************************************************)
(* Access and refresh tokens of the identity service and the blacklist in  *)
(* Redis.  A token is a signed text of its user, the second it was issued  *)
(* and the second it expires, and of nothing else: two tokens issued to    *)
(* one user in one second for one length of life are the same text.        *)
(* RefreshToken asks the blacklist, adds the old token to it and issues    *)
(* the new pair; other calls run between these steps.  Redis may be out of *)
(* reach; it keeps what it has acknowledged.                               *)
(***************************************************************************)
EXTENDS Naturals

CONSTANTS
  Subjects,     \* users
  TokenCalls,   \* RefreshToken calls at the same time
  AccessLife,   \* accessExpiry, in seconds
  RefreshLife,  \* refreshExpiry, in seconds
  MaxNow,       \* seconds of a behaviour (bound)
  MaxCalls,     \* logins, refreshes and logouts (bound)
  MaxOutages,   \* times that Redis goes (bound)
  NoToken       \* no token

ASSUME TokenConstants ==
  /\ AccessLife \in Nat \ {0}
  /\ RefreshLife \in Nat \ {0}
  /\ MaxNow \in Nat /\ MaxCalls \in Nat /\ MaxOutages \in Nat

VARIABLES
  now,        \* the clock
  redisUp,    \* whether Redis answers
  outages,    \* times it has gone
  calls,      \* calls begun
  blacklist,  \* token:blacklist:, the second each entry lasts to (0: none)
  issued,     \* tokens handed out
  refresh,    \* the RefreshToken calls
  revoked,    \* history: tokens logged out or rotated, and acknowledged
  rotated,    \* history: tokens that gave a new pair
  again,      \* history: tokens that gave more than one
  contended   \* history: tokens whose rotations overlapped or missed Redis

tokenVars == <<now, redisUp, outages, calls, blacklist, issued, refresh, revoked, rotated, again, contended>>

Token == [user : Subjects, iat : 0..MaxNow, life : {AccessLife, RefreshLife}]

ASSUME NoTokenIsNone == NoToken \notin Token

TokenTypeOK ==
  /\ now \in 0..MaxNow
  /\ redisUp \in BOOLEAN
  /\ outages \in 0..MaxOutages
  /\ calls \in 0..MaxCalls
  /\ blacklist \in [Token -> Nat]
  /\ issued \subseteq Token
  /\ refresh \in [TokenCalls -> [phase : {"idle", "checked", "issue"}, token : Token \cup {NoToken}]]
  /\ revoked \subseteq Token
  /\ rotated \subseteq Token
  /\ again \subseteq rotated
  /\ contended \subseteq Token

NoCall == [phase |-> "idle", token |-> NoToken]

TokensInit ==
  /\ now = 0
  /\ redisUp = TRUE
  /\ outages = 0
  /\ calls = 0
  /\ blacklist = [t \in Token |-> 0]
  /\ issued = {}
  /\ refresh = [c \in TokenCalls |-> NoCall]
  /\ revoked = {}
  /\ rotated = {}
  /\ again = {}
  /\ contended = {}

-----------------------------------------------------------------------------
(* Operators *)

Expiry(t) == t.iat + t.life

Pair(u) == {[user |-> u, iat |-> now, life |-> life] : life \in {AccessLife, RefreshLife}}

(* IsBlacklisted: the callers take an error for "no". *)
IsBlacklisted(t) == redisUp /\ now < blacklist[t]

(* Manager.Validate. *)
Validate(t) == now < Expiry(t)

(* ValidateToken's answer. *)
ValidateToken(t) == ~IsBlacklisted(t) /\ Validate(t)

EntryUntil_AccessLife(t) == now + AccessLife

(* When the entry goes that Add makes: after the token's whole life. *)
EntryUntil(t) == now + t.life

Blacklisted(t) == [blacklist EXCEPT ![t] = EntryUntil(t)]

-----------------------------------------------------------------------------

OneCall ==
  /\ calls < MaxCalls
  /\ calls' = calls + 1

RedisGoes ==
  /\ redisUp
  /\ outages < MaxOutages
  /\ outages' = outages + 1
  /\ redisUp' = FALSE

(* Login of a verified user; access tokens pass for refresh tokens too. *)
Login(u) ==
  /\ OneCall
  /\ issued' = issued \cup Pair(u)
  /\ UNCHANGED <<now, redisUp, outages, blacklist, refresh, revoked, rotated, again, contended>>

InRefresh(t) == {c \in TokenCalls : refresh[c].token = t}

Check_ClaimsOnly(c, t) ==
  /\ OneCall
  /\ refresh[c].phase = "idle"
  /\ t \in issued
  /\ refresh' = [refresh EXCEPT ![c] = [phase |-> "checked", token |-> t]]
  /\ contended' = IF InRefresh(t) # {} \/ ~redisUp THEN contended \cup {t} ELSE contended
  /\ UNCHANGED <<now, redisUp, outages, blacklist, issued, revoked, rotated, again>>

(* RefreshToken: not on the blacklist, or Redis does not say. *)
Check(c, t) ==
  /\ OneCall
  /\ refresh[c].phase = "idle"
  /\ t \in issued
  /\ ~IsBlacklisted(t)
  /\ refresh' = [refresh EXCEPT ![c] = [phase |-> "checked", token |-> t]]
  /\ contended' = IF InRefresh(t) # {} \/ ~redisUp THEN contended \cup {t} ELSE contended
  /\ UNCHANGED <<now, redisUp, outages, blacklist, issued, revoked, rotated, again>>

Refuse(c) ==
  /\ refresh[c].phase = "checked"
  /\ ~Validate(refresh[c].token)
  /\ refresh' = [refresh EXCEPT ![c] = NoCall]
  /\ UNCHANGED <<now, redisUp, outages, calls, blacklist, issued, revoked, rotated, again, contended>>

(* Valid: the old token goes on the blacklist; an error is only logged. *)
Rotate(c) ==
  LET t == refresh[c].token IN
  /\ refresh[c].phase = "checked"
  /\ Validate(t)
  /\ refresh' = [refresh EXCEPT ![c].phase = "issue"]
  /\ \/ /\ redisUp
        /\ blacklist' = Blacklisted(t)
        /\ revoked' = revoked \cup {t}
        /\ UNCHANGED contended
     \/ /\ ~redisUp
        /\ contended' = contended \cup {t}
        /\ UNCHANGED <<blacklist, revoked>>
  /\ UNCHANGED <<now, redisUp, outages, calls, issued, rotated, again>>

Issue(c) ==
  LET t == refresh[c].token IN
  /\ refresh[c].phase = "issue"
  /\ issued' = issued \cup Pair(t.user)
  /\ rotated' = rotated \cup {t}
  /\ again' = again \cup (rotated \cap {t})
  /\ refresh' = [refresh EXCEPT ![c] = NoCall]
  /\ UNCHANGED <<now, redisUp, outages, calls, blacklist, revoked, contended>>

(* Logout does not ask the blacklist; without Redis it answers Internal. *)
Logout(t) ==
  /\ OneCall
  /\ t \in issued
  /\ Validate(t)
  /\ redisUp
  /\ blacklist' = Blacklisted(t)
  /\ revoked' = revoked \cup {t}
  /\ UNCHANGED <<now, redisUp, outages, issued, refresh, rotated, again, contended>>

(* The entry is made and the answer lost: Internal. *)
LogoutUnanswered(t) ==
  /\ OneCall
  /\ t \in issued
  /\ Validate(t)
  /\ blacklist' = Blacklisted(t)
  /\ RedisGoes
  /\ UNCHANGED <<now, issued, refresh, revoked, rotated, again, contended>>

(* A second passes, and Redis drops the entries that are over. *)
Second ==
  /\ now < MaxNow
  /\ now' = now + 1
  /\ blacklist' = [t \in Token |-> IF now + 1 < blacklist[t] THEN blacklist[t] ELSE 0]
  /\ UNCHANGED <<redisUp, outages, calls, issued, refresh, revoked, rotated, again, contended>>

RedisFails ==
  /\ RedisGoes
  /\ UNCHANGED <<now, calls, blacklist, issued, refresh, revoked, rotated, again, contended>>

RedisReturns ==
  /\ ~redisUp
  /\ redisUp' = TRUE
  /\ UNCHANGED <<now, outages, calls, blacklist, issued, refresh, revoked, rotated, again, contended>>

TokensNext ==
  \/ \E u \in Subjects : Login(u)
  \/ \E c \in TokenCalls, t \in Token : Check(c, t)
  \/ \E c \in TokenCalls : Refuse(c) \/ Rotate(c) \/ Issue(c)
  \/ \E t \in Token : Logout(t) \/ LogoutUnanswered(t)
  \/ Second \/ RedisFails \/ RedisReturns

TokensSpec == TokensInit /\ [][TokensNext]_tokenVars

-----------------------------------------------------------------------------
(* Properties *)

(* Once a logout or a rotation has been acknowledged, ValidateToken says   *)
(* no for ever, as long as Redis answers: the entry is never gone before   *)
(* the token expires, whenever in the token's life it was made             *)
(* (handler.go:332, 359).                                                  *)
RevokedNeverValid == \A t \in revoked : redisUp => ~ValidateToken(t)

(* A token gives one new pair, unless two RefreshToken calls with it       *)
(* overlapped between the check and the blacklist, or one of them did not  *)
(* reach Redis (handler.go:322-335).                                       *)
RotatedOnce == again \subseteq contended

(* "RefreshToken: issue new token pair with rotation (old refresh          *)
(* blacklisted)" (docs/architecture.md:75): the pair is new, and holds     *)
(* nothing that was just blacklisted.                                      *)
RotationGivesNewPair ==
  [][\A c \in TokenCalls :
       refresh[c].phase = "issue" /\ refresh'[c].phase = "idle" =>
         refresh[c].token \notin Pair(refresh[c].token.user)]_tokenVars
=============================================================================
