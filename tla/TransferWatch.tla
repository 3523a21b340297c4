--------------------------- MODULE TransferWatch ---------------------------
(***************************************************************************)
(* WatchTransfers: a subscriber hears of the transfers of its node by a    *)
(* stream of events.  The service asks the database every two seconds and  *)
(* sends what differs from the poll before; it keeps nothing else, so that *)
(* changes between two polls are told as one, or not at all.  The gateway  *)
(* passes the stream on.  When the stream breaks the subscriber opens a    *)
(* new one, which starts by telling everything.                            *)
(***************************************************************************)
EXTENDS Naturals

CONSTANTS
  Ids,           \* transfers of the node
  Incoming,      \* the ones it receives
  ReceiverOnly,  \* receiver_only of the request
  MaxDone,       \* chunks_done goes up to this (bound)
  MaxWrites,     \* changes of rows (bound)
  MaxBreaks,     \* failed queries and broken streams (bound)
  NoRow          \* no such transfer, or not known

ASSUME WatchConstants ==
  /\ Incoming \subseteq Ids
  /\ ReceiverOnly \in BOOLEAN
  /\ MaxDone \in Nat /\ MaxWrites \in Nat /\ MaxBreaks \in Nat
  /\ NoRow \notin [status : STRING, done : Nat]

VARIABLES
  rows,    \* table transfers: status and chunks_done
  known,   \* the snapshots of the last poll
  polled,  \* the poll whose events are being sent, and the ids still to do
  stream,  \* the subscriber's stream: "closed", "waiting", "sending"
  view,    \* what the subscriber was told last of each transfer
  budget   \* changes and breaks so far

watchVars == <<rows, known, polled, stream, view, budget>>

Statuses == {"pending", "inProgress", "paused", "completed", "cancelled"}
Snapshot == [status : Statuses, done : 0..MaxDone]

EventType == {"none", "new", "updated", "completed", "cancelled", "paused", "resumed"}

WatchTypeOK ==
  /\ rows \in [Ids -> Snapshot \cup {NoRow}]
  /\ known \in [Ids -> Snapshot \cup {NoRow}]
  /\ polled \in [rows : [Ids -> Snapshot \cup {NoRow}], todo : SUBSET Ids]
  /\ stream \in {"closed", "waiting", "sending"}
  /\ view \in [Ids -> [row : Snapshot \cup {NoRow}, event : EventType]]
  /\ budget \in [writes : 0..MaxWrites, breaks : 0..MaxBreaks]

Nobody == [i \in Ids |-> NoRow]

WatchInit ==
  /\ rows = Nobody
  /\ known = Nobody
  /\ polled = [rows |-> Nobody, todo |-> {}]
  /\ stream = "closed"
  /\ view = [i \in Ids |-> [row |-> NoRow, event |-> "none"]]
  /\ budget = [writes |-> 0, breaks |-> 0]

-----------------------------------------------------------------------------

(* Another handler inserts a row, or changes one in any way; "cancelled"  *)
(* stands for FAILED as well.                                              *)
RowChanges(i, s) ==
  /\ budget.writes < MaxWrites
  /\ s # rows[i]
  /\ rows[i] = NoRow => s = [status |-> "pending", done |-> 0]
  /\ rows' = [rows EXCEPT ![i] = s]
  /\ budget' = [budget EXCEPT !.writes = @ + 1]
  /\ UNCHANGED <<known, polled, stream, view>>

Subscribe ==
  /\ stream = "closed"
  /\ stream' = "waiting"
  /\ known' = Nobody
  /\ UNCHANGED <<rows, polled, view, budget>>

(* emit sends nothing of a transfer the subscriber has not asked for. *)
Wanted == IF ReceiverOnly THEN Incoming ELSE Ids

Differs_InStatus(i) == rows[i] # NoRow /\ (known[i] # NoRow => known[i].status # rows[i].status)

Differs(i) == rows[i] # NoRow /\ rows[i] # known[i]

(* The ticker: one query. *)
Poll ==
  /\ stream = "waiting"
  /\ polled' = [rows |-> rows, todo |-> {i \in Wanted : Differs(i)}]
  /\ stream' = "sending"
  /\ UNCHANGED <<rows, known, view, budget>>

(* The query failed: the next tick will do. *)
PollFails ==
  /\ stream = "waiting"
  /\ budget.breaks < MaxBreaks
  /\ budget' = [budget EXCEPT !.breaks = @ + 1]
  /\ UNCHANGED <<rows, known, polled, stream, view>>

TypeOf(old, new) ==
  CASE old = NoRow              -> "new"
    [] new.status = "completed" -> "completed"
    [] new.status = "cancelled" -> "cancelled"
    [] new.status = "paused"    -> "paused"
    [] new.status = "inProgress" /\ old.status = "paused" -> "resumed"
    [] OTHER                    -> "updated"

Emit(i) ==
  /\ stream = "sending"
  /\ i \in polled.todo
  /\ view' = [view EXCEPT ![i] = [row   |-> polled.rows[i],
                                  event |-> TypeOf(known[i], polled.rows[i])]]
  /\ polled' = [polled EXCEPT !.todo = @ \ {i}]
  /\ UNCHANGED <<rows, known, stream, budget>>

(* All events are out: the poll is what the subscriber knows. *)
Remember ==
  /\ stream = "sending"
  /\ polled.todo = {}
  /\ known' = polled.rows
  /\ stream' = "waiting"
  /\ UNCHANGED <<rows, polled, view, budget>>

Break_GoesOn ==
  /\ stream = "sending"
  /\ budget.breaks < MaxBreaks
  /\ budget' = [budget EXCEPT !.breaks = @ + 1]
  /\ \E i \in polled.todo : polled' = [polled EXCEPT !.todo = @ \ {i}]
  /\ UNCHANGED <<rows, known, stream, view>>

(* The subscriber is gone, or Send fails, at any time. *)
Break ==
  /\ stream # "closed"
  /\ budget.breaks < MaxBreaks
  /\ budget' = [budget EXCEPT !.breaks = @ + 1]
  /\ stream' = "closed"
  /\ known' = Nobody
  /\ polled' = [rows |-> Nobody, todo |-> {}]
  /\ UNCHANGED <<rows, view>>

WatchStep == Subscribe \/ Poll \/ (\E i \in Ids : Emit(i)) \/ Remember

WatchNext ==
  \/ \E i \in Ids, s \in Snapshot : RowChanges(i, s)
  \/ WatchStep
  \/ PollFails
  \/ Break

(* The subscriber comes back, and the ticker ticks. *)
WatchSpec == WatchInit /\ [][WatchNext]_watchVars /\ WF_watchVars(WatchStep)

-----------------------------------------------------------------------------
(* Properties *)

(* What a subscriber was told last of i is r; a row at its end, or paused, *)
(* was told as that, or as new to the stream, and no other row was.        *)
Told(i, r) ==
  LET ends == {"paused", "completed", "cancelled"} IN
  /\ view[i].row = r
  /\ view[i].event \in ends => view[i].event = r.status
  /\ r.status \in ends => view[i].event \in {"new", r.status}

(* No state of a row slips through between two polls, or between a query   *)
(* and the sends that follow it: while a stream is open, the subscriber    *)
(* has been told a row as it is, or is about to be by the poll under way,  *)
(* or the next poll will find it (handler.go:642-695).                     *)
NothingMissed ==
  stream # "closed" => \A i \in Wanted : rows[i] # NoRow =>
    \/ Told(i, rows[i])
    \/ stream = "sending" /\ (i \in polled.todo \/ polled.rows[i] # rows[i])
    \/ stream = "waiting" /\ Differs(i)

(* Once rows rest, the last thing a subscriber was told of each transfer   *)
(* is what its row says, whatever it missed in between                     *)
(* (handler.go:642-695).                                                   *)
WatchCatchesUp == <>[](\A i \in Wanted : rows[i] # NoRow => Told(i, rows[i]))
=============================================================================
