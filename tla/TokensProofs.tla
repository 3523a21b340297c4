---------------------------- MODULE TokensProofs ----------------------------
(* RevokedNeverValid and RotatedOnce, for any users, any number of calls   *)
(* and any lives of the tokens.                                            *)
EXTENDS Tokens, TLAPS

(* No token from the future; a call holds a token that was issued. *)
Sound ==
  /\ \A t \in issued : t.iat <= now
  /\ \A c \in TokenCalls :
       IF refresh[c].phase = "idle" THEN refresh[c].token = NoToken
                                    ELSE refresh[c].token \in issued

(* A revoked token is on the blacklist until it expires. *)
Covered == \A t \in revoked : Expiry(t) <= blacklist[t] \/ Expiry(t) <= now

Busy(c, t) == refresh[c].phase # "idle" /\ refresh[c].token = t

(* A token whose rotations neither overlap nor miss Redis: one call at     *)
(* most has it; once given for a pair, or about to be, it is revoked; and  *)
(* a call that has it again will find it expired.                          *)
Single(t) ==
  /\ \A c, d \in TokenCalls : Busy(c, t) /\ Busy(d, t) => c = d
  /\ t \in rotated => t \in revoked
  /\ \A c \in TokenCalls :
       /\ Busy(c, t) /\ refresh[c].phase = "issue" => t \in revoked /\ t \notin rotated
       /\ Busy(c, t) /\ t \in rotated => Expiry(t) <= now

TokensInv ==
  /\ TokenTypeOK
  /\ Sound
  /\ Covered
  /\ \A t \in Token : t \notin contended => Single(t)
  /\ again \subseteq contended

-----------------------------------------------------------------------------

(* The seconds of a token are numbers, and it lives for some. *)
LEMMA TokenNumbers ==
  ASSUME NEW t \in Token
  PROVE  t.iat \in Nat /\ t.life \in Nat /\ Expiry(t) \in Nat /\ t # NoToken
<1>1. t.iat \in 0..MaxNow /\ t.life \in {AccessLife, RefreshLife}
  BY DEF Token
<1> QED BY <1>1, TokenConstants, NoTokenIsNone DEF Expiry

(* A pair is two tokens of this second. *)
LEMMA PairTokens ==
  ASSUME now \in 0..MaxNow, NEW u \in Subjects
  PROVE  Pair(u) \subseteq Token /\ \A t \in Pair(u) : t.iat = now
BY DEF Pair, Token

(* A new entry lasts as long as its token, and the others stay. *)
LEMMA EntryCovers ==
  ASSUME TokenTypeOK, Sound, Covered, NEW t \in issued, blacklist' = Blacklisted(t),
         now' = now, revoked' \subseteq revoked \cup {t}
  PROVE  Covered' /\ blacklist' \in [Token -> Nat]
<1>1. t \in Token /\ now \in Nat /\ blacklist \in [Token -> Nat] /\ t.iat <= now
      /\ revoked \subseteq Token
  BY TokenConstants DEF TokenTypeOK, Sound
<1>2. t.iat \in Nat /\ t.life \in Nat /\ Expiry(t) <= EntryUntil(t) /\ EntryUntil(t) \in Nat
  BY <1>1, TokenNumbers DEF Expiry, EntryUntil
<1>3. blacklist' \in [Token -> Nat] /\ blacklist'[t] = EntryUntil(t)
      /\ \A r \in Token : r # t => blacklist'[r] = blacklist[r]
  BY <1>1, <1>2 DEF Blacklisted
<1>4. ASSUME NEW r \in revoked' PROVE Expiry(r) <= blacklist'[r] \/ Expiry(r) <= now'
  <2>1. CASE r = t
    BY <2>1, <1>2, <1>3
  <2>2. CASE r # t
    BY <2>2, <1>1, <1>3 DEF Covered
  <2> QED BY <2>1, <2>2
<1> QED BY <1>3, <1>4 DEF Covered, Expiry

(* The bounds on calls and outages hold. *)
LEMMA OneCallTypes ==
  ASSUME TokenTypeOK, OneCall
  PROVE  calls' \in 0..MaxCalls
BY TokenConstants DEF TokenTypeOK, OneCall

LEMMA OutageTypes ==
  ASSUME TokenTypeOK, UNCHANGED <<redisUp, outages>> \/ RedisGoes
  PROVE  redisUp' \in BOOLEAN /\ outages' \in 0..MaxOutages
<1>1. CASE UNCHANGED <<redisUp, outages>>
  BY <1>1 DEF TokenTypeOK
<1>2. CASE RedisGoes
  <2>1. redisUp' = FALSE
    BY <1>2 DEF RedisGoes
  <2>2. outages' = outages + 1 /\ outages < MaxOutages /\ outages \in 0..MaxOutages
    BY <1>2 DEF RedisGoes, TokenTypeOK
  <2>3. outages' \in 0..MaxOutages
    BY <2>2, TokenConstants
  <2> QED BY <2>1, <2>3
<1> QED BY <1>1, <1>2

(* Nothing is issued at the start. *)
LEMMA TokensInitInv == TokensInit => TokensInv
BY TokenConstants, NoTokenIsNone
   DEF TokensInit, TokensInv, TokenTypeOK, Sound, Covered, Single, Busy, NoCall

(* Login adds tokens of this second only. *)
LEMMA LoginKeeps ==
  ASSUME TokensInv, NEW u \in Subjects, Login(u)
  PROVE  TokensInv'
<1> USE DEF Login
<1>1. Pair(u) \subseteq Token /\ \A t \in Pair(u) : t.iat = now
  BY PairTokens DEF TokensInv, TokenTypeOK
<1>2. TokenTypeOK'
  BY <1>1, TokenConstants DEF TokensInv, TokenTypeOK, OneCall
<1>3. Sound'
  <2>1. now \in Nat
    BY TokenConstants DEF TokensInv, TokenTypeOK
  <2>2. \A t \in issued' : t.iat <= now'
    BY <1>1, <2>1 DEF TokensInv, Sound
  <2> QED BY <2>2 DEF TokensInv, Sound
<1>4. Covered' /\ again' \subseteq contended'
  BY DEF TokensInv, Covered, Expiry
<1>5. \A t \in Token : t \notin contended' => Single(t)'
  BY DEF TokensInv, Single, Busy, Expiry
<1> QED BY <1>2, <1>3, <1>4, <1>5 DEF TokensInv

(* A check lets a rotated token through only when it has expired, when     *)
(* Redis is away or when another call has it too.                          *)
LEMMA CheckKeeps ==
  ASSUME TokensInv, NEW c \in TokenCalls, NEW t \in Token, Check(c, t)
  PROVE  TokensInv'
<1> USE DEF Check
<1>0. now \in Nat /\ blacklist \in [Token -> Nat] /\ Expiry(t) \in Nat /\ t # NoToken
  BY TokenConstants, TokenNumbers DEF TokensInv, TokenTypeOK
<1>1. TokenTypeOK'
  BY TokenConstants DEF TokensInv, TokenTypeOK, OneCall
<1>2. refresh' = [refresh EXCEPT ![c] = [phase |-> "checked", token |-> t]]
      /\ DOMAIN refresh = TokenCalls
  BY DEF TokensInv, TokenTypeOK
<1>3. Sound'
  BY <1>2 DEF TokensInv, Sound
<1>4. Covered' /\ again' \subseteq contended'
  BY DEF TokensInv, Covered, Expiry
<1>5. ASSUME NEW r \in Token, r \notin contended' PROVE Single(r)'
  <2>1. Single(r) /\ r \notin contended
    BY <1>5 DEF TokensInv
  <2>2. CASE r # t
    <3>1. \A d \in TokenCalls : Busy(d, r)' => d # c /\ Busy(d, r)
                                              /\ refresh'[d].phase = refresh[d].phase
      BY <1>2, <2>2 DEF Busy
    <3> QED BY <2>1, <3>1 DEF Single, Expiry
  <2>3. CASE r = t
    <3>1. InRefresh(t) = {} /\ redisUp
      BY <1>5, <2>3
    <3>2. \A d \in TokenCalls : Busy(d, t)' => d = c
      BY <1>2, <3>1 DEF Busy, InRefresh
    <3>3. refresh'[c].phase = "checked"
      BY <1>2
    <3>4. blacklist[t] <= now
      BY <1>0, <3>1 DEF IsBlacklisted
    <3>5. t \in rotated => Expiry(t) <= now
      BY <1>0, <2>1, <2>3, <3>4 DEF Single, TokensInv, Covered
    <3> QED BY <2>1, <2>3, <3>2, <3>3, <3>5 DEF Single, Expiry
  <2> QED BY <2>2, <2>3
<1> QED BY <1>1, <1>3, <1>4, <1>5 DEF TokensInv

(* A refused call has gone. *)
LEMMA RefuseKeeps ==
  ASSUME TokensInv, NEW c \in TokenCalls, Refuse(c)
  PROVE  TokensInv'
<1> USE DEF Refuse, NoCall
<1>1. TokenTypeOK'
  BY DEF TokensInv, TokenTypeOK
<1>2. refresh' = [refresh EXCEPT ![c] = NoCall] /\ DOMAIN refresh = TokenCalls
  BY DEF TokensInv, TokenTypeOK
<1>3. Sound'
  BY <1>2 DEF TokensInv, Sound
<1>4. Covered' /\ again' \subseteq contended'
  BY DEF TokensInv, Covered, Expiry
<1>5. ASSUME NEW r \in Token, r \notin contended' PROVE Single(r)'
  <2>1. \A d \in TokenCalls : Busy(d, r)' => Busy(d, r) /\ refresh'[d] = refresh[d]
    BY <1>2 DEF Busy
  <2> QED BY <1>5, <2>1 DEF TokensInv, Single, Expiry
<1> QED BY <1>1, <1>3, <1>4, <1>5 DEF TokensInv

(* A rotation revokes its token, or marks it. *)
LEMMA RotateKeeps ==
  ASSUME TokensInv, NEW c \in TokenCalls, Rotate(c)
  PROVE  TokensInv'
<1> DEFINE t == refresh[c].token
<1>0. refresh[c].phase = "checked" /\ Validate(t) /\ t \in issued /\ t \in Token
      /\ now \in Nat /\ Expiry(t) \in Nat
  BY TokenNumbers, TokenConstants DEF Rotate, TokensInv, Sound, TokenTypeOK
<1>1. refresh' = [refresh EXCEPT ![c].phase = "issue"] /\ DOMAIN refresh = TokenCalls
      /\ now' = now /\ redisUp' = redisUp /\ issued' = issued /\ rotated' = rotated
      /\ again' = again /\ outages' = outages /\ calls' = calls
      /\ refresh \in [TokenCalls -> [phase : {"idle", "checked", "issue"},
                                     token : Token \cup {NoToken}]]
  BY DEF Rotate, TokensInv, TokenTypeOK
<1>2. Covered' /\ blacklist' \in [Token -> Nat] /\ revoked' \subseteq revoked \cup {t}
  <2>1. CASE redisUp
    <3>1. blacklist' = Blacklisted(t) /\ revoked' = revoked \cup {t}
      BY <2>1 DEF Rotate
    <3> QED BY <3>1, <1>0, <1>1, EntryCovers DEF TokensInv
  <2>2. CASE ~redisUp
    BY <2>2, <1>1 DEF Rotate, TokensInv, Covered, TokenTypeOK, Expiry
  <2> QED BY <2>1, <2>2
<1>3. contended \subseteq contended' /\ contended' \subseteq contended \cup {t}
      /\ revoked \subseteq revoked' /\ (t \in revoked' \/ t \in contended')
  BY DEF Rotate
<1>4. refresh' \in [TokenCalls -> [phase : {"idle", "checked", "issue"},
                                   token : Token \cup {NoToken}]]
      /\ refresh'[c].phase = "issue" /\ refresh'[c].token = t
      /\ \A d \in TokenCalls : d # c => refresh'[d] = refresh[d]
  BY <1>1
<1>5. TokenTypeOK'
  BY <1>0, <1>1, <1>2, <1>3, <1>4 DEF TokensInv, TokenTypeOK
<1>6. Sound'
  BY <1>0, <1>1, <1>4 DEF TokensInv, Sound
<1>7. ASSUME NEW r \in Token, r \notin contended' PROVE Single(r)'
  <2>1. Single(r)
    BY <1>3, <1>7 DEF TokensInv
  <2>2. \A d \in TokenCalls : Busy(d, r)' <=> Busy(d, r)
    BY <1>0, <1>4 DEF Busy
  <2>3. CASE r # t
    BY <2>1, <2>2, <2>3, <1>1, <1>3, <1>4 DEF Single, Busy, Expiry
  <2>4. CASE r = t
    <3>1. Busy(c, t)
      BY <1>0 DEF Busy
    <3>2. t \notin rotated /\ t \in revoked'
      BY <2>1, <2>4, <3>1, <1>0, <1>3, <1>7 DEF Single, Validate
    <3> QED BY <2>1, <2>2, <2>4, <3>2, <1>1 DEF Single, Expiry
  <2> QED BY <2>3, <2>4
<1> QED BY <1>1, <1>2, <1>3, <1>5, <1>6, <1>7 DEF TokensInv

(* The call that issues was the token's only one, or the token is marked. *)
LEMMA IssueKeeps ==
  ASSUME TokensInv, NEW c \in TokenCalls, Issue(c)
  PROVE  TokensInv'
<1> DEFINE t == refresh[c].token
<1>0. refresh[c].phase = "issue" /\ t \in issued /\ t \in Token /\ t.user \in Subjects
  BY DEF Issue, TokensInv, Sound, TokenTypeOK, Token
<1>1. issued' = issued \cup Pair(t.user) /\ rotated' = rotated \cup {t}
      /\ again' = again \cup (rotated \cap {t})
      /\ refresh' = [refresh EXCEPT ![c] = NoCall] /\ DOMAIN refresh = TokenCalls
      /\ UNCHANGED <<now, redisUp, outages, calls, blacklist, revoked, contended>>
  BY DEF Issue, TokensInv, TokenTypeOK
<1>2. Pair(t.user) \subseteq Token /\ \A r \in Pair(t.user) : r.iat = now
  BY <1>0, PairTokens DEF TokensInv, TokenTypeOK
<1>3. TokenTypeOK'
  BY <1>0, <1>1, <1>2 DEF TokensInv, TokenTypeOK, NoCall
<1>4. Sound'
  <2>1. now \in Nat
    BY TokenConstants DEF TokensInv, TokenTypeOK
  <2>2. \A r \in issued' : r.iat <= now'
    BY <1>1, <1>2, <2>1 DEF TokensInv, Sound
  <2> QED BY <2>2, <1>1 DEF TokensInv, Sound, NoCall
<1>5. Covered'
  BY <1>1 DEF TokensInv, Covered, Expiry
<1>6. again' \subseteq contended'
  <2>1. t \notin contended => t \notin rotated
    BY <1>0 DEF TokensInv, Single, Busy
  <2> QED BY <2>1, <1>1 DEF TokensInv
<1>7. ASSUME NEW r \in Token, r \notin contended' PROVE Single(r)'
  <2>1. Single(r)
    BY <1>1, <1>7 DEF TokensInv
  <2>2. \A d \in TokenCalls : Busy(d, r)' => Busy(d, r) /\ d # c /\ refresh'[d] = refresh[d]
    BY <1>1 DEF Busy, NoCall
  <2>3. CASE r # t
    BY <2>1, <2>2, <2>3, <1>1 DEF Single, Expiry
  <2>4. CASE r = t
    <3>1. Busy(c, r)
      BY <1>0, <2>4 DEF Busy
    <3>2. \A d \in TokenCalls : ~Busy(d, r)'
      BY <2>1, <2>2, <3>1 DEF Single
    <3>3. r \in revoked'
      BY <2>1, <3>1, <1>0, <1>1 DEF Single
    <3> QED BY <3>2, <3>3 DEF Single
  <2> QED BY <2>3, <2>4
<1> QED BY <1>3, <1>4, <1>5, <1>6, <1>7 DEF TokensInv

(* A logout makes an entry; that revokes the token, if it is acknowledged. *)
LEMMA LogoutKeeps ==
  ASSUME TokensInv, NEW t \in Token, Logout(t) \/ LogoutUnanswered(t)
  PROVE  TokensInv'
<1>1. t \in issued /\ blacklist' = Blacklisted(t)
      /\ revoked \subseteq revoked' /\ revoked' \subseteq revoked \cup {t}
      /\ UNCHANGED <<now, issued, refresh, rotated, again, contended>>
  BY DEF Logout, LogoutUnanswered
<1>2. Covered' /\ blacklist' \in [Token -> Nat]
  BY <1>1, EntryCovers DEF TokensInv
<1>3. redisUp' \in BOOLEAN /\ outages' \in 0..MaxOutages /\ calls' \in 0..MaxCalls
  <2>1. OneCall /\ (UNCHANGED <<redisUp, outages>> \/ RedisGoes)
    BY DEF Logout, LogoutUnanswered
  <2> QED BY <2>1, OneCallTypes, OutageTypes DEF TokensInv
<1>4. TokenTypeOK'
  BY <1>1, <1>2, <1>3 DEF TokensInv, TokenTypeOK
<1>5. Sound' /\ again' \subseteq contended'
  BY <1>1 DEF TokensInv, Sound
<1>6. \A r \in Token : r \notin contended' => Single(r)'
  BY <1>1 DEF TokensInv, Single, Busy, Expiry
<1> QED BY <1>2, <1>4, <1>5, <1>6 DEF TokensInv

(* An entry that Redis drops has outlived its token. *)
LEMMA SecondKeeps ==
  ASSUME TokensInv, Second
  PROVE  TokensInv'
<1> USE DEF Second
<1>1. now \in Nat /\ now' \in Nat /\ now' = now + 1 /\ now' \in 0..MaxNow
      /\ blacklist \in [Token -> Nat] /\ revoked \subseteq Token
  BY TokenConstants DEF TokensInv, TokenTypeOK
<1>2. blacklist' \in [Token -> Nat]
      /\ \A t \in Token : blacklist'[t] = IF now + 1 < blacklist[t] THEN blacklist[t] ELSE 0
  BY <1>1
<1>3. TokenTypeOK'
  BY <1>1, <1>2 DEF TokensInv, TokenTypeOK
<1>4. \A t \in issued : t \in Token /\ t.iat \in Nat
  BY TokenNumbers DEF TokensInv, TokenTypeOK
<1>5. Sound'
  BY <1>1, <1>4 DEF TokensInv, Sound
<1>6. ASSUME NEW t \in revoked' PROVE Expiry(t) <= blacklist'[t] \/ Expiry(t) <= now'
  <2>1. t \in Token /\ Expiry(t) \in Nat /\ blacklist[t] \in Nat
    BY <1>1, TokenNumbers
  <2>2. Expiry(t) <= blacklist[t] \/ Expiry(t) <= now
    BY DEF TokensInv, Covered
  <2> QED BY <2>1, <2>2, <1>1, <1>2
<1>7. Covered'
  BY <1>6 DEF Covered, Expiry
<1>8. ASSUME NEW t \in Token, t \notin contended' PROVE Single(t)'
  <2>1. Expiry(t) \in Nat /\ Single(t)
    BY <1>8, TokenNumbers DEF TokensInv
  <2>2. Expiry(t) <= now => Expiry(t) <= now'
    BY <2>1, <1>1
  <2> QED BY <2>1, <2>2 DEF Single, Busy, Expiry
<1> QED BY <1>3, <1>5, <1>7, <1>8 DEF TokensInv

(* Redis comes and goes, and keeps what it has. *)
LEMMA RedisKeeps ==
  ASSUME TokensInv, RedisFails \/ RedisReturns
  PROVE  TokensInv'
<1>1. UNCHANGED <<now, calls, blacklist, issued, refresh, revoked, rotated, again, contended>>
  BY DEF RedisFails, RedisReturns
<1>2. redisUp' \in BOOLEAN /\ outages' \in 0..MaxOutages
  <2>1. RedisGoes \/ (redisUp' = TRUE /\ outages' = outages)
    BY DEF RedisFails, RedisReturns
  <2>2. CASE redisUp' = TRUE /\ outages' = outages
    BY <2>2 DEF TokensInv, TokenTypeOK
  <2> QED BY <2>1, <2>2, OutageTypes DEF TokensInv
<1> QED BY <1>1, <1>2 DEF TokensInv, TokenTypeOK, Sound, Covered, Single, Busy, Expiry

(* The inductive invariant: revoked tokens are covered by their entries,   *)
(* and a token that is not contended has one call and one pair.            *)
THEOREM TokensInvariant == TokensSpec => []TokensInv
<1>1. TokensInv /\ [TokensNext]_tokenVars => TokensInv'
  <2> SUFFICES ASSUME TokensInv, [TokensNext]_tokenVars PROVE TokensInv'
    OBVIOUS
  <2>1. CASE UNCHANGED tokenVars
    BY <2>1 DEF tokenVars, TokensInv, TokenTypeOK, Sound, Covered, Single, Busy, Expiry
  <2>2. CASE TokensNext
    BY <2>2, LoginKeeps, CheckKeeps, RefuseKeeps, RotateKeeps, IssueKeeps, LogoutKeeps,
       SecondKeeps, RedisKeeps DEF TokensNext
  <2> QED BY <2>1, <2>2
<1> QED BY <1>1, TokensInitInv, PTL DEF TokensSpec

(* RevokedNeverValid (handler.go:332, 359): a blacklist entry is never     *)
(* gone before its token has expired.                                      *)
THEOREM RevokedStayInvalid == TokensSpec => []RevokedNeverValid
<1>1. TokensInv => RevokedNeverValid
  <2> SUFFICES ASSUME TokensInv, NEW t \in revoked, redisUp PROVE ~ValidateToken(t)
    BY DEF RevokedNeverValid
  <2>1. t \in Token /\ now \in Nat /\ Expiry(t) \in Nat /\ blacklist[t] \in Nat
    BY TokenNumbers, TokenConstants DEF TokensInv, TokenTypeOK
  <2>2. Expiry(t) <= blacklist[t] \/ Expiry(t) <= now
    BY DEF TokensInv, Covered
  <2> QED BY <2>1, <2>2 DEF ValidateToken, IsBlacklisted, Validate
<1> QED BY <1>1, TokensInvariant, PTL

(* RotatedOnce (handler.go:322-335): a second pair takes an overlap, or a  *)
(* call that did not reach Redis.                                          *)
THEOREM PairsAreSingle == TokensSpec => []RotatedOnce
<1>1. TokensInv => RotatedOnce
  BY DEF TokensInv, RotatedOnce
<1> QED BY <1>1, TokensInvariant, PTL
=============================================================================
