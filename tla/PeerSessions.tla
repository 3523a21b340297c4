---------------------------- MODULE PeerSessions ----------------------------
(***************************************************************************)
(* Peer sessions of one user and the keys of the devices in them: the      *)
(* tables peer_sessions, peer_session_devices and device_keys.  Joining a  *)
(* session and storing a key are each preceded by looks at the session and *)
(* the device, and other calls run in between.  A session is closed and a  *)
(* device revoked once and for all, and neither takes anything out of the  *)
(* other tables; the queries pass over what is left there.  The devices    *)
(* here are approved ones (Devices tells how they become so).              *)
(***************************************************************************)
CONSTANTS
  SessionIds,   \* sessions
  Machines,     \* devices
  Owned,        \* devices of the user; other calls are refused unchanged
  Joiners,      \* calls at the same time
  NoMachine,    \* no device
  NoSession     \* no session

ASSUME SessionConstants ==
  /\ Owned \subseteq Machines
  /\ NoMachine \notin Machines
  /\ NoSession \notin SessionIds

VARIABLES
  session,   \* peer_sessions: "none", "active" or "closed"
  members,   \* peer_session_devices whose left_at is NULL
  gone,      \* revoked devices
  keys,      \* devices with a row in device_keys
  joiner,    \* the calls, and what they have looked at
  openCalls  \* history: the calls that were running when a session closed

sessionVars == <<session, members, gone, keys, joiner, openCalls>>

SessionsTypeOK ==
  /\ session \in [SessionIds -> {"none", "active", "closed"}]
  /\ members \in [SessionIds -> SUBSET Machines]
  /\ gone \subseteq Owned
  /\ keys \subseteq Machines
  /\ joiner \in [Joiners -> [phase : {"idle", "enter", "device", "join", "key"},
                             session : SessionIds \cup {NoSession},
                             machine : Machines \cup {NoMachine}]]
  /\ openCalls \in [SessionIds -> SUBSET Joiners]

Away == [phase |-> "idle", session |-> NoSession, machine |-> NoMachine]

SessionsInit ==
  /\ session = [s \in SessionIds |-> "none"]
  /\ members = [s \in SessionIds |-> {}]
  /\ gone = {}
  /\ keys = {}
  /\ joiner = [j \in Joiners |-> Away]
  /\ openCalls = [s \in SessionIds |-> {}]

(* ListSessionDevices *)
SessionDevices(s) == members[s] \ gone

(* GetSessionDeviceKeys *)
SessionDeviceKeys(s) == SessionDevices(s) \cap keys

-----------------------------------------------------------------------------

Goes(j, phase, s, m) ==
  /\ joiner[j].phase = "idle"
  /\ joiner' = [joiner EXCEPT ![j] = [phase |-> phase, session |-> s, machine |-> m]]

(* The call is over: it was in no session's way. *)
Over(j) ==
  /\ joiner' = [joiner EXCEPT ![j] = Away]
  /\ openCalls' = [s \in SessionIds |-> openCalls[s] \ {j}]

Enter(s, m) == members' = [members EXCEPT ![s] = @ \cup {m}]

(* CreatePeerSession; the device of the request joins, whosever it is. *)
CreatePeerSession(j, s, m) ==
  /\ session[s] = "none"
  /\ session' = [session EXCEPT ![s] = "active"]
  /\ IF m = NoMachine THEN UNCHANGED joiner ELSE Goes(j, "enter", s, m)
  /\ UNCHANGED <<members, gone, keys, openCalls>>

AutoJoin(j) ==
  /\ joiner[j].phase = "enter"
  /\ Enter(joiner[j].session, joiner[j].machine)
  /\ Over(j)
  /\ UNCHANGED <<session, gone, keys>>

LookAtSession_AnyState(j, s, m) ==
  /\ session[s] # "none"
  /\ Goes(j, "device", s, m)
  /\ UNCHANGED <<session, members, gone, keys, openCalls>>

(* JoinPeerSession: the session is active, *)
LookAtSession(j, s, m) ==
  /\ session[s] = "active"
  /\ Goes(j, "device", s, m)
  /\ UNCHANGED <<session, members, gone, keys, openCalls>>

(* and the device the user's and not revoked. *)
LookAtDevice(j) ==
  /\ joiner[j].phase = "device"
  /\ joiner[j].machine \in Owned \ gone
  /\ joiner' = [joiner EXCEPT ![j].phase = "join"]
  /\ UNCHANGED <<session, members, gone, keys, openCalls>>

(* AddDeviceToSession, whatever has become of either. *)
JoinPeerSession(j) ==
  /\ joiner[j].phase = "join"
  /\ Enter(joiner[j].session, joiner[j].machine)
  /\ Over(j)
  /\ UNCHANGED <<session, gone, keys>>

(* UploadDeviceKey *)
LookAtKeyDevice(j, m) ==
  /\ m \in Owned \ gone
  /\ Goes(j, "key", NoSession, m)
  /\ UNCHANGED <<session, members, gone, keys, openCalls>>

UpsertDeviceKey(j) ==
  /\ joiner[j].phase = "key"
  /\ keys' = keys \cup {joiner[j].machine}
  /\ Over(j)
  /\ UNCHANGED <<session, members, gone>>

(* Refused, or a statement fails. *)
EndsEarly(j) ==
  /\ joiner[j].phase # "idle"
  /\ Over(j)
  /\ UNCHANGED <<session, members, gone, keys>>

LeavePeerSession(s, m) ==
  /\ m \in members[s]
  /\ members' = [members EXCEPT ![s] = @ \ {m}]
  /\ UNCHANGED <<session, gone, keys, joiner, openCalls>>

ClosePeerSession(s) ==
  /\ session[s] = "active"
  /\ session' = [session EXCEPT ![s] = "closed"]
  /\ openCalls' = [openCalls EXCEPT ![s] = {j \in Joiners : joiner[j].session = s}]
  /\ UNCHANGED <<members, gone, keys, joiner>>

RevokeMachine_Anyones(m) ==
  /\ m \notin gone
  /\ gone' = gone \cup {m}
  /\ UNCHANGED <<session, members, keys, joiner, openCalls>>

(* RevokeDevice, the user's own. *)
RevokeMachine(m) ==
  /\ m \in Owned \ gone
  /\ gone' = gone \cup {m}
  /\ UNCHANGED <<session, members, keys, joiner, openCalls>>

SessionsNext ==
  \/ \E j \in Joiners :
       \/ \E s \in SessionIds :
            \/ \E m \in Machines \cup {NoMachine} : CreatePeerSession(j, s, m)
            \/ \E m \in Machines : LookAtSession(j, s, m)
       \/ \E m \in Machines : LookAtKeyDevice(j, m)
       \/ AutoJoin(j) \/ LookAtDevice(j) \/ JoinPeerSession(j) \/ UpsertDeviceKey(j)
       \/ EndsEarly(j)
  \/ \E s \in SessionIds : (\E m \in Machines : LeavePeerSession(s, m)) \/ ClosePeerSession(s)
  \/ \E m \in Machines : RevokeMachine(m)

SessionsSpec == SessionsInit /\ [][SessionsNext]_sessionVars

-----------------------------------------------------------------------------
(* Properties *)

(* The devices that a closed session lists, to which others encrypt, only  *)
(* become fewer and a revoked one never comes back: all but for devices    *)
(* of calls that were already running when the session closed              *)
(* (handler.go:679-684, 726-756).                                          *)
ClosedSessionsShrink ==
  [][\A s \in SessionIds :
       session[s] = "closed" =>
         SessionDevices(s)' \subseteq SessionDevices(s)
           \cup {joiner[j].machine : j \in openCalls[s]}]_sessionVars
=============================================================================
