------------------------------ MODULE Devices -------------------------------
(***************************************************************************)
(* Devices of the identity service and how they are paired: the table      *)
(* devices, the pairing codes in Redis, and the handlers, each of which    *)
(* asks the table and then writes to it while others do the same.  A row   *)
(* is never deleted: a revoked one keeps its time of revocation, and every *)
(* query but ApproveDevice and RevokeDevice passes it over.  What a device *)
(* is called, its node id, activity and visibility are left out.           *)
(***************************************************************************)
EXTENDS Naturals

CONSTANTS
  Accts,      \* user accounts
  DeviceIds,  \* ids of devices
  Prints,     \* fingerprints
  Codes,      \* pairing codes; no code is drawn twice
  Handlers,   \* calls at the same time
  MaxBegun,   \* calls of a behaviour (bound)
  Nil         \* no account, device or code

ASSUME DeviceConstants ==
  /\ MaxBegun \in Nat
  /\ Nil \notin Accts \cup DeviceIds \cup Prints \cup Codes

VARIABLES
  device,  \* table devices
  codes,   \* pairing:, the device that each code was generated for
  spent,   \* history: codes generated so far
  call,    \* the handlers, and what they have read
  begun    \* calls so far

deviceVars == <<device, codes, spent, call, begun>>

Row == [user : Accts \cup {Nil}, print : Prints \cup {Nil}, approved : BOOLEAN,
        by : DeviceIds \cup {Nil}, revoked : BOOLEAN, code : Codes \cup {Nil}]

Call == [phase : {"idle", "create", "store", "approver", "pending"},
         user : Accts \cup {Nil}, device : DeviceIds \cup {Nil},
         pending : DeviceIds \cup {Nil}, print : Prints \cup {Nil}, code : Codes \cup {Nil}]

DevicesTypeOK ==
  /\ device \in [DeviceIds -> Row]
  /\ codes \in [Codes -> DeviceIds \cup {Nil}]
  /\ spent \subseteq Codes
  /\ call \in [Handlers -> Call]
  /\ begun \in 0..MaxBegun

Unregistered == [user |-> Nil, print |-> Nil, approved |-> FALSE, by |-> Nil,
                 revoked |-> FALSE, code |-> Nil]

Done == [phase |-> "idle", user |-> Nil, device |-> Nil, pending |-> Nil, print |-> Nil,
         code |-> Nil]

DevicesInit ==
  /\ device = [d \in DeviceIds |-> Unregistered]
  /\ codes = [k \in Codes |-> Nil]
  /\ spent = {}
  /\ call = [h \in Handlers |-> Done]
  /\ begun = 0

-----------------------------------------------------------------------------

(* GetDeviceByID, and that the device belongs to u. *)
Own(u, d) == device[d].user = u /\ ~device[d].revoked

(* GetDeviceByFingerprint. *)
WithPrint(u, f) == {d \in DeviceIds : Own(u, d) /\ device[d].print = f}

OneMore ==
  /\ begun < MaxBegun
  /\ begun' = begun + 1

Begin(h, record) ==
  /\ OneMore
  /\ call[h].phase = "idle"
  /\ call' = [call EXCEPT ![h] = record]

(* Any early return or failing statement after the first. *)
GiveUp(h) ==
  /\ call[h].phase # "idle"
  /\ call' = [call EXCEPT ![h] = Done]
  /\ UNCHANGED <<device, codes, spent, begun>>

-----------------------------------------------------------------------------
(* RegisterDevice and RedeemPairingCode *)

(* RegisterDevice finds no device with the fingerprint.  The one it finds  *)
(* is the answer, with its activity updated.                               *)
LookUpPrint(h, u, f) ==
  /\ WithPrint(u, f) = {}
  /\ Begin(h, [Done EXCEPT !.phase = "create", !.user = u, !.print = f])
  /\ UNCHANGED <<device, codes, spent>>

(* Any error of the look is taken for "no device". *)
LookUpFails(h, u, f) ==
  /\ Begin(h, [Done EXCEPT !.phase = "create", !.user = u, !.print = f])
  /\ UNCHANGED <<device, codes, spent>>

RedeemCode_Keeps(h, u, f, k) ==
  /\ codes[k] # Nil
  /\ device[codes[k]].user = u
  /\ Begin(h, [Done EXCEPT !.phase = "create", !.user = u, !.print = f, !.code = k])
  /\ UNCHANGED <<device, codes, spent>>

(* RedeemPairingCode takes the code out, whoever asks. *)
RedeemCode(h, u, f, k) ==
  /\ codes[k] # Nil
  /\ codes' = [codes EXCEPT ![k] = Nil]
  /\ IF device[codes[k]].user = u
       THEN Begin(h, [Done EXCEPT !.phase = "create", !.user = u, !.print = f, !.code = k])
       ELSE OneMore /\ UNCHANGED call
  /\ UNCHANGED <<device, spent>>

FreeIds == {d \in DeviceIds : device[d].user = Nil}

InsertDevice(h) ==
  /\ FreeIds # {}
  /\ call[h].phase = "create"
  /\ device' = [device EXCEPT ![CHOOSE d \in FreeIds : TRUE] =
       [user |-> call[h].user, print |-> call[h].print, approved |-> call[h].code = Nil,
        by |-> Nil, revoked |-> FALSE, code |-> call[h].code]]
  /\ call' = [call EXCEPT ![h] = Done]
  /\ UNCHANGED <<codes, spent, begun>>

CreateDevice_NoIndex(h) == InsertDevice(h)

(* CreateDevice; the unique index takes no second live device.  Who        *)
(* registers is approved, who redeemed a code is not.                      *)
CreateDevice(h) ==
  /\ WithPrint(call[h].user, call[h].print) = {}
  /\ InsertDevice(h)

-----------------------------------------------------------------------------
(* GeneratePairingCode *)

AskForCode(h, u, d) ==
  /\ Own(u, d)
  /\ device[d].approved
  /\ Begin(h, [Done EXCEPT !.phase = "store", !.user = u, !.device = d])
  /\ UNCHANGED <<device, codes, spent>>

GenerateCode(h) ==
  /\ call[h].phase = "store"
  /\ \E k \in Codes \ spent :
       /\ codes' = [codes EXCEPT ![k] = call[h].device]
       /\ spent' = spent \cup {k}
  /\ call' = [call EXCEPT ![h] = Done]
  /\ UNCHANGED <<device, begun>>

CodeExpires(k) ==
  /\ codes[k] # Nil
  /\ codes' = [codes EXCEPT ![k] = Nil]
  /\ UNCHANGED <<device, spent, call, begun>>

-----------------------------------------------------------------------------
(* ApprovePairing and RevokeDevice *)

CheckApprover_AnyOwn(h, u, a) ==
  /\ Own(u, a)
  /\ Begin(h, [Done EXCEPT !.phase = "approver", !.user = u, !.device = a])
  /\ UNCHANGED <<device, codes, spent>>

CheckApprover(h, u, a) ==
  /\ Own(u, a)
  /\ device[a].approved
  /\ Begin(h, [Done EXCEPT !.phase = "approver", !.user = u, !.device = a])
  /\ UNCHANGED <<device, codes, spent>>

(* The approver may be the pending device, and that may be approved. *)
CheckPending(h, d) ==
  /\ call[h].phase = "approver"
  /\ Own(call[h].user, d)
  /\ call' = [call EXCEPT ![h].phase = "pending", ![h].pending = d]
  /\ UNCHANGED <<device, codes, spent, begun>>

(* By id alone: the device may be revoked by now. *)
ApproveDevice(h) ==
  /\ call[h].phase = "pending"
  /\ device' = [device EXCEPT ![call[h].pending].approved = TRUE,
                              ![call[h].pending].by = call[h].device]
  /\ call' = [call EXCEPT ![h] = Done]
  /\ UNCHANGED <<codes, spent, begun>>

(* Rejected is revoked, unless the device has been approved meanwhile. *)
RejectDevice(h) ==
  LET d == call[h].pending IN
  /\ call[h].phase = "pending"
  /\ device' = [device EXCEPT ![d].revoked = @ \/ ~device[d].approved]
  /\ call' = [call EXCEPT ![h] = Done]
  /\ UNCHANGED <<codes, spent, begun>>

RevokeDevice(u, d) ==
  /\ device[d].user = u
  /\ OneMore
  /\ device' = [device EXCEPT ![d].revoked = TRUE]
  /\ UNCHANGED <<codes, spent, call>>

DevicesNext ==
  \/ \E h \in Handlers :
       \/ \E u \in Accts, f \in Prints :
            \/ LookUpPrint(h, u, f) \/ LookUpFails(h, u, f)
            \/ \E k \in Codes : RedeemCode(h, u, f, k)
       \/ \E u \in Accts, d \in DeviceIds : AskForCode(h, u, d) \/ CheckApprover(h, u, d)
       \/ \E d \in DeviceIds : CheckPending(h, d)
       \/ CreateDevice(h) \/ GenerateCode(h) \/ ApproveDevice(h) \/ RejectDevice(h)
       \/ GiveUp(h)
  \/ \E k \in Codes : CodeExpires(k)
  \/ \E u \in Accts, d \in DeviceIds : RevokeDevice(u, d)

DevicesSpec == DevicesInit /\ [][DevicesNext]_deviceVars

-----------------------------------------------------------------------------
(* Properties *)

(* However the calls race, an account has one live device for a            *)
(* fingerprint: the look of RegisterDevice does not see to it, nor does    *)
(* RedeemPairingCode look at all (handler.go:387-416, 581-596).            *)
OneDevicePerFingerprint ==
  \A u \in Accts, f \in Prints : \A d, e \in WithPrint(u, f) : d = e

(* A device that redeems a code joins the account by a code of its own,    *)
(* made by an approved device of the account, and is approved by a device  *)
(* of the account that was approved before: no code admits two, and none   *)
(* vouches for itself, whatever was revoked or redeemed in between         *)
(* (handler.go:549-558, 573-596, 612-631).                                 *)
DevicesJoinByVouching ==
  [][\A d \in DeviceIds : LET row == device'[d] IN
       /\ row.code # device[d].code =>
            /\ \A e \in DeviceIds \ {d} : device[e].code # row.code
            /\ \E a \in DeviceIds \ {d} : device[a].user = row.user /\ device[a].approved
       /\ row.approved /\ ~device[d].approved /\ row.code # Nil =>
            device[row.by].approved /\ device[row.by].user = row.user]_deviceVars
=============================================================================
