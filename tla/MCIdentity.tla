----------------------------- MODULE MCIdentity -----------------------------
(***************************************************************************)
(* The parts of the identity service side by side for TLC: a behaviour is  *)
(* one of one part, chosen at the start, while the others rest in their    *)
(* initial states.  They share the database and Redis, but no row and no   *)
(* key that another part writes, except users, of which none is deleted.   *)
(***************************************************************************)
EXTENDS Tokens, Accounts, Devices, PeerSessions, Friends

VARIABLE part

identityVars == <<part, tokenVars, accountVars, deviceVars, sessionVars, friendVars>>

Parts == {"tokens", "accounts", "devices", "sessions", "friends"}

IdentityInit ==
  /\ part \in Parts
  /\ TokensInit /\ AccountsInit /\ DevicesInit /\ SessionsInit /\ FriendsInit

(* Everything but p stays. *)
Only(p) ==
  /\ part = p
  /\ UNCHANGED part
  /\ IF p = "tokens" THEN TRUE ELSE UNCHANGED tokenVars
  /\ IF p = "accounts" THEN TRUE ELSE UNCHANGED accountVars
  /\ IF p = "devices" THEN TRUE ELSE UNCHANGED deviceVars
  /\ IF p = "sessions" THEN TRUE ELSE UNCHANGED sessionVars
  /\ IF p = "friends" THEN TRUE ELSE UNCHANGED friendVars

IdentityNext ==
  \/ Only("tokens") /\ TokensNext
  \/ Only("accounts") /\ AccountsNext
  \/ Only("devices") /\ DevicesNext
  \/ Only("sessions") /\ SessionsNext
  \/ Only("friends") /\ FriendsNext

(* Each part under the fairness of its own specification. *)
IdentitySpec ==
  /\ IdentityInit /\ [][IdentityNext]_identityVars
  /\ SF_identityVars(Only("accounts") /\ \E m \in Mailings : ResendVerification(m))
  /\ SF_identityVars(Only("accounts") /\ \E m \in Mailings : SetVerificationToken(m))
  /\ SF_identityVars(Only("accounts") /\ \E m \in Mailings : SendVerification(m))
  /\ SF_identityVars(Only("accounts") /\ \E v \in Clicks : ClickLink(v))
  /\ SF_identityVars(Only("accounts") /\ \E v \in Clicks : VerifyUserEmail(v))

(* The types of all parts. *)
IdentityTypeOK ==
  TokenTypeOK /\ AccountsTypeOK /\ DevicesTypeOK /\ SessionsTypeOK /\ FriendsTypeOK
=============================================================================
