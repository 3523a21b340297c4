------------------------------ MODULE Accounts ------------------------------
(***************************************************************************)
(* An account of the identity service and the verification of its e-mail   *)
(* address: the row of table users, the calls that write a verification    *)
(* token and mail it, and those that redeem one.  Each call is two or      *)
(* three statements with other calls in between, any of which may fail;    *)
(* the user reads the mail that came last.                                 *)
(***************************************************************************)
EXTENDS Naturals

CONSTANTS
  Mailings,     \* calls of Register and ResendVerification at the same time
  Clicks,       \* calls of VerifyEmail at the same time
  Links,        \* verification tokens, more than are about at a time
  MaxImpatience,\* mails asked for before the last call has answered (bound)
  NoLink        \* no verification token

ASSUME AccountConstants ==
  /\ NoLink \notin Links
  /\ MaxImpatience \in Nat

VARIABLES
  account,     \* the row: whether it exists, its link and whether that is live
  mailing,     \* the calls that write and mail a link
  clicking,    \* VerifyEmail calls that have found the account
  inbox,       \* the link of the mail that came last
  impatience   \* mails asked for too early

accountVars == <<account, mailing, clicking, inbox, impatience>>

AccountsTypeOK ==
  /\ account \in [exists : BOOLEAN, verified : BOOLEAN, link : Links \cup {NoLink},
                  live : BOOLEAN]
  /\ mailing \in [Mailings -> [phase : {"idle", "set", "mail"}, link : Links \cup {NoLink}]]
  /\ clicking \subseteq Clicks
  /\ inbox \in Links \cup {NoLink}
  /\ impatience \in 0..MaxImpatience

NotMailing == [phase |-> "idle", link |-> NoLink]

AccountsInit ==
  /\ account = [exists |-> FALSE, verified |-> FALSE, link |-> NoLink, live |-> FALSE]
  /\ mailing = [m \in Mailings |-> NotMailing]
  /\ clicking = {}
  /\ inbox = NoLink
  /\ impatience = 0

-----------------------------------------------------------------------------
(* Register and ResendVerification *)

(* CreateUser; the address is unique. *)
Register(m) ==
  /\ mailing[m].phase = "idle"
  /\ ~account.exists
  /\ account' = [account EXCEPT !.exists = TRUE]
  /\ mailing' = [mailing EXCEPT ![m].phase = "set"]
  /\ UNCHANGED <<clicking, inbox, impatience>>

Asking(m) ==
  /\ mailing[m].phase = "idle"
  /\ account.exists
  /\ ~account.verified
  /\ mailing' = [mailing EXCEPT ![m].phase = "set"]
  /\ UNCHANGED <<account, clicking, inbox>>

Patient == \A m \in Mailings : mailing[m].phase = "idle"

ResendVerification_NotTwice(m) ==
  /\ Patient
  /\ account.link = NoLink
  /\ Asking(m)
  /\ UNCHANGED impatience

(* ResendVerification finds the account, not verified. *)
ResendVerification(m) ==
  /\ Patient
  /\ Asking(m)
  /\ UNCHANGED impatience

ResendImpatiently(m) ==
  /\ ~Patient
  /\ impatience < MaxImpatience
  /\ impatience' = impatience + 1
  /\ Asking(m)

Fresh(l) == l # account.link /\ l # inbox /\ \A m \in Mailings : mailing[m].link # l

(* GenerateHexToken and SetVerificationToken, for 24 hours: the link of    *)
(* any earlier mail is dead.                                               *)
SetVerificationToken(m) ==
  /\ mailing[m].phase = "set"
  /\ \E l \in Links :
       /\ Fresh(l)
       /\ account' = [account EXCEPT !.link = l, !.live = TRUE]
       /\ mailing' = [mailing EXCEPT ![m] = [phase |-> "mail", link |-> l]]
  /\ UNCHANGED <<clicking, inbox, impatience>>

SendVerification(m) ==
  /\ mailing[m].phase = "mail"
  /\ inbox' = mailing[m].link
  /\ mailing' = [mailing EXCEPT ![m] = NotMailing]
  /\ UNCHANGED <<account, clicking, impatience>>

(* No token, or no mail.  Register answers success all the same. *)
MailingFails(m) ==
  /\ mailing[m].phase # "idle"
  /\ mailing' = [mailing EXCEPT ![m] = NotMailing]
  /\ UNCHANGED <<account, clicking, inbox, impatience>>

(* 24 hours later; the call that set the link is long over. *)
LinkExpires ==
  /\ account.live
  /\ \A m \in Mailings : mailing[m].link # account.link
  /\ account' = [account EXCEPT !.live = FALSE]
  /\ UNCHANGED <<mailing, clicking, inbox, impatience>>

-----------------------------------------------------------------------------
(* VerifyEmail *)

(* GetUserByVerificationToken finds the account, not verified. *)
ClickLink(v) ==
  /\ v \notin clicking
  /\ inbox # NoLink
  /\ inbox = account.link
  /\ account.live
  /\ ~account.verified
  /\ clicking' = clicking \cup {v}
  /\ UNCHANGED <<account, mailing, inbox, impatience>>

(* VerifyUserEmail, by the id of the user: whatever link the row has now. *)
VerifyUserEmail(v) ==
  /\ v \in clicking
  /\ account' = [account EXCEPT !.verified = TRUE, !.link = NoLink, !.live = FALSE]
  /\ clicking' = clicking \ {v}
  /\ UNCHANGED <<mailing, inbox, impatience>>

VerifyFails(v) ==
  /\ v \in clicking
  /\ clicking' = clicking \ {v}
  /\ UNCHANGED <<account, mailing, inbox, impatience>>

AccountsNext ==
  \/ \E m \in Mailings :
       \/ Register(m) \/ ResendVerification(m) \/ ResendImpatiently(m)
       \/ SetVerificationToken(m) \/ SendVerification(m) \/ MailingFails(m)
  \/ \E v \in Clicks : ClickLink(v) \/ VerifyUserEmail(v) \/ VerifyFails(v)
  \/ LinkExpires

(* A call ends, with success every now and then; the user asks again and   *)
(* clicks what came last, and is in time every now and then.               *)
AccountsSpec ==
  /\ AccountsInit /\ [][AccountsNext]_accountVars
  /\ SF_accountVars(\E m \in Mailings : ResendVerification(m))
  /\ SF_accountVars(\E m \in Mailings : SetVerificationToken(m))
  /\ SF_accountVars(\E m \in Mailings : SendVerification(m))
  /\ SF_accountVars(\E v \in Clicks : ClickLink(v))
  /\ SF_accountVars(\E v \in Clicks : VerifyUserEmail(v))

-----------------------------------------------------------------------------
(* Properties *)

(* Whatever is lost on the way, the token that Register could not write    *)
(* included, and in whatever order the mails come, a registered user who   *)
(* goes on asking and clicking is verified (handler.go:113-138, 196-293).  *)
EventuallyVerified == account.exists ~> account.verified
=============================================================================
