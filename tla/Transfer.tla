------------------------------ MODULE Transfer ------------------------------
(***************************************************************************)
(* The transfer service: the rows of the transfers table, the groups of    *)
(* the group_transfers table, the directories of the chunk store, and the  *)
(* handlers that run over them at the same time.                           *)
(*                                                                         *)
(* Every statement a handler sends to the database is one step here, since *)
(* no handler holds a transaction or a lock across two of them.  A         *)
(* SendChunk stream is a process of its own (variable stream); a unary     *)
(* handler that reads a row and later writes it is a process of two or     *)
(* three steps (variable call).  A call the handler refuses changes        *)
(* nothing and is not a step.  Chunks also arrive past SendChunk, over a   *)
(* libp2p stream or through the relay handler of the same process.         *)
(***************************************************************************)
EXTENDS Naturals

CONSTANTS
  Singles,      \* uuids InitiateTransfer may draw
  Recipients,   \* uuids InitiateGroupTransfer may draw for the rows it creates
  Groups,       \* uuids InitiateGroupTransfer may draw for the group
  Streams,      \* SendChunk handlers that may run at the same time
  Calls,        \* unary handlers that may stand between their read and their write
  TotalChunks,  \* total_chunks of every transfer
  MaxIndex,     \* largest chunk_index a message carries (the handler checks no range)
  Reports,      \* chunks_transferred values a P2P confirmation may carry
  None          \* SQL NULL in group_transfer_id, and the storage of an idle stream

ASSUME TransferConstants ==
  /\ TotalChunks \in Nat \ {0}
  /\ MaxIndex \in Nat
  /\ MaxIndex + 1 >= TotalChunks
  /\ Reports \subseteq 0..(MaxIndex + 1)
  /\ (Singles \cup Recipients) \cap Groups = {}
  /\ Singles \cap Recipients = {}
  /\ None \notin Singles \cup Recipients \cup Groups

VARIABLES
  row,     \* transfers: status, chunks_done and group_transfer_id of each row
  group,   \* group_transfers: does the row exist, and is its handler still running
  store,   \* chunk store: the indices on disk under each storage id
  stream,  \* what each SendChunk handler holds in its local variables
  call,    \* what each unary handler is about to write
  past     \* history: what has ever happened to a row (read by no action)

vars == <<row, group, store, stream, call, past>>

-----------------------------------------------------------------------------
(* Types *)

Status == {"PENDING", "IN_PROGRESS", "COMPLETED", "CANCELLED", "PAUSED",
           "AWAITING_APPROVAL"}
Rows == Singles \cup Recipients
Indices == 0..MaxIndex
Progress == 0..(MaxIndex + 1)
Storage == Rows \cup Groups
(* What a stream's total can be.  The header of a libp2p stream names any: *)
(* 1 also stands for every smaller one, which the first chunk reaches, and *)
(* the largest for all that no chunk_index reaches.                        *)
Totals == 1..(MaxIndex + 2)

RowType == [status : Status \cup {"ABSENT"}, done : Progress,
            group : Groups \cup {None}]
StreamType == [kind : {"upload", "direct"},
               phase : {"idle", "accepting", "recording", "completing"},
               storage : Storage \cup {None}, rows : SUBSET Rows,
               todo : SUBSET Rows, chunk : Indices, received : Progress, total : Totals]
CallType == [phase : {"write", "delete"}, kind : {"status", "cancel", "confirm"},
             row : Rows, status : Status, done : Progress]
IdleCall == [phase |-> "idle"]
(* "released": has been in another status than AWAITING_APPROVAL;          *)
(* "wiped": the directory of its chunks was deleted by CancelTransfer;     *)
(* "confirmed": ConfirmP2PTransfer has written it; "direct": libp2p or the *)
(* relay handler has stored, or is about to store, chunks under its id;    *)
(* "short": the header of a libp2p stream named fewer chunks than it has.  *)
Event == {"released", "wiped", "confirmed", "direct", "short"}

NoRow == [status |-> "ABSENT", done |-> 0, group |-> None]
IdleStream == [kind |-> "upload", phase |-> "idle", storage |-> None, rows |-> {}, todo |-> {},
               chunk |-> 0, received |-> 0, total |-> 1]

TypeOK ==
  /\ row \in [Rows -> RowType]
  /\ group \in [Groups -> {"absent", "creating", "closed"}]
  /\ store \in [Storage -> SUBSET Indices]
  /\ stream \in [Streams -> StreamType]
  /\ call \in [Calls -> CallType \cup {IdleCall}]
  /\ past \in [Rows -> SUBSET Event]

Init ==
  /\ row = [r \in Rows |-> NoRow]
  /\ group = [g \in Groups |-> "absent"]
  /\ store = [x \in Storage |-> {}]
  /\ stream = [s \in Streams |-> IdleStream]
  /\ call = [c \in Calls |-> IdleCall]
  /\ past = [r \in Rows |-> {}]

-----------------------------------------------------------------------------
(* Helpers *)

Exists(r) == row[r].status # "ABSENT"

(* The directory a row's chunks live in: its own, or its group's. *)
StorageOf(r) == IF row[r].group = None THEN r ELSE row[r].group

(* SELECT * FROM transfers WHERE group_transfer_id = g *)
Siblings(g) == {r \in Rows : row[r].group = g}

(* UPDATE transfers SET status = st ... WHERE transfer_id = r, whatever    *)
(* status the row has by now.                                              *)
SetStatus(r, st) ==
  /\ row' = [row EXCEPT ![r].status = st]
  /\ past' = [past EXCEPT ![r] =
                @ \cup (IF st = "AWAITING_APPROVAL" THEN {} ELSE {"released"})]

(* A statement that failed: SendChunk discards the error and goes on. *)
WriteLost == UNCHANGED <<row, past>>

-----------------------------------------------------------------------------
(* Creating transfers *)

InitiateTransfer(r, autoApprove) ==
  LET st == IF autoApprove THEN "PENDING" ELSE "AWAITING_APPROVAL" IN
  /\ ~Exists(r)
  /\ row' = [row EXCEPT ![r] = [status |-> st, done |-> 0, group |-> None]]
  /\ past' = IF autoApprove THEN [past EXCEPT ![r] = @ \cup {"released"}] ELSE past
  /\ UNCHANGED <<group, store, stream, call>>

(* InitiateGroupTransfer inserts the group row first ...                   *)
CreateGroup(g) ==
  /\ group[g] = "absent"
  /\ group' = [group EXCEPT ![g] = "creating"]
  /\ UNCHANGED <<row, store, stream, call, past>>

(* ... then one transfers row per recipient key ...                        *)
AddRecipient(g, r) ==
  /\ group[g] = "creating"
  /\ ~Exists(r)
  /\ row' = [row EXCEPT ![r] =
               [status |-> "AWAITING_APPROVAL", done |-> 0, group |-> g]]
  /\ UNCHANGED <<group, store, stream, call, past>>

(* ... and returns after the last one, or with the first bad key or failed *)
(* insert, leaving the rows made so far.                                   *)
EndGroup(g) ==
  /\ group[g] = "creating"
  /\ group' = [group EXCEPT ![g] = "closed"]
  /\ UNCHANGED <<row, store, stream, call, past>>

-----------------------------------------------------------------------------
(* SendChunk: one stream of chunk messages.  The first message names a     *)
(* group or a transfer; rows are the transfers the stream keeps up to date *)
(* and todo those the loop it is in has still to write.                    *)

Open(s, storage, rows, i) ==
  /\ stream[s].phase = "idle"
  /\ stream' = [stream EXCEPT ![s] =
                  [kind |-> "upload", phase |-> "accepting", storage |-> storage, rows |-> rows,
                   todo |-> rows, chunk |-> i, received |-> 0, total |-> TotalChunks]]
  /\ UNCHANGED <<row, group, store, call, past>>

(* First message names a group: every row of the group, whatever its       *)
(* status, or none when the query for them fails (its error is discarded). *)
OpenGroup(s, g, i) ==
  /\ group[g] # "absent"
  /\ \E rows \in {Siblings(g), {}} : Open(s, g, rows, i)

OpenTransfer_AnyStatus(s, r, i) ==
  /\ Exists(r)
  /\ Open(s, StorageOf(r), {r}, i)

(* First message names a transfer: refused only while it awaits approval   *)
(* or is paused.                                                           *)
OpenTransfer(s, r, i) ==
  /\ Exists(r)
  /\ row[r].status \notin {"AWAITING_APPROVAL", "PAUSED"}
  /\ Open(s, StorageOf(r), {r}, i)

(* A libp2p stream (handleStream): no status is read and none is set, the  *)
(* chunks go under the id in the header even for a row of a group, and the *)
(* total is the header's, which nothing compares with the row's.           *)
OpenDirect(s, r, i, total) ==
  /\ stream[s].phase = "idle"
  /\ Exists(r)
  /\ stream' = [stream EXCEPT ![s] =
                  [kind |-> "direct", phase |-> "accepting", storage |-> r, rows |-> {r},
                   todo |-> {}, chunk |-> i, received |-> 0, total |-> total]]
  /\ past' = [past EXCEPT ![r] = @ \cup {"direct"} \cup
                (IF total < TotalChunks THEN {"short"} ELSE {})]
  /\ UNCHANGED <<row, group, store, call>>

(* The relay handler of this process is a chunk's final hop or its         *)
(* fallback.  It reads no row: the request may name any transfer.          *)
RelayChunk(r, i) ==
  /\ Exists(r)
  /\ store' = [store EXCEPT ![r] = @ \cup {i}]
  /\ past' = [past EXCEPT ![r] = @ \cup {"direct"}]
  /\ UNCHANGED <<row, group, stream, call>>

(* UpdateTransferStatus(IN_PROGRESS), for the row or sibling by sibling. *)
MarkInProgress(s, r) ==
  /\ stream[s].phase = "accepting"
  /\ r \in stream[s].todo
  /\ stream' = [stream EXCEPT ![s].todo = @ \ {r}]
  /\ \/ SetStatus(r, "IN_PROGRESS")
     \/ WriteLost
  /\ UNCHANGED <<group, store, call>>

SaveChunk_IgnoringErrors(s) ==
  LET n == stream[s].chunk + 1 IN
  /\ stream[s].phase = "accepting"
  /\ stream[s].todo = {}
  /\ \/ store' = [store EXCEPT ![stream[s].storage] = @ \cup {stream[s].chunk}]
     \/ UNCHANGED store
  /\ stream' = [stream EXCEPT ![s].phase = "recording",
                              ![s].todo = stream[s].rows, ![s].received = n]
  /\ UNCHANGED <<row, group, call, past>>

SaveChunk_CountsTwice(s) ==
  LET n == stream[s].chunk + 2 IN
  /\ stream[s].phase = "accepting"
  /\ stream[s].todo = {}
  /\ store' = [store EXCEPT ![stream[s].storage] = @ \cup {stream[s].chunk}]
  /\ stream' = [stream EXCEPT ![s].phase = "recording",
                              ![s].todo = stream[s].rows, ![s].received = n]
  /\ UNCHANGED <<row, group, call, past>>

(* The hash matched and the chunk is on disk (temp file and rename under   *)
(* the store's lock); the forward along the route is logged only.          *)
SaveChunk(s) ==
  LET n == stream[s].chunk + 1 IN
  /\ stream[s].phase = "accepting"
  /\ stream[s].todo = {}
  /\ store' = [store EXCEPT ![stream[s].storage] = @ \cup {stream[s].chunk}]
  /\ stream' = [stream EXCEPT ![s].phase = "recording",
                              ![s].todo = stream[s].rows, ![s].received = n]
  /\ UNCHANGED <<row, group, call, past>>

(* UpdateTransferProgress(chunk_index + 1), for the row or sibling by sibling. *)
RecordProgress(s, r) ==
  /\ stream[s].phase = "recording"
  /\ r \in stream[s].todo
  /\ stream' = [stream EXCEPT ![s].todo = @ \ {r}]
  /\ \/ row' = [row EXCEPT ![r].done = stream[s].received]
     \/ UNCHANGED row
  /\ UNCHANGED <<group, store, call, past>>

(* The handler waits for a message.  The callback of a libp2p stream       *)
(* completes the row at the chunk that reaches the total and reads on.     *)
Receiving(s) ==
  /\ stream[s].todo = {}
  /\ \/ /\ stream[s].phase = "recording"
        /\ stream[s].kind = "direct" => stream[s].received < stream[s].total
     \/ stream[s].phase = "completing" /\ stream[s].kind = "direct"

(* A later message of the same stream: no status is read again. *)
NextMessage(s, i) ==
  /\ Receiving(s)
  /\ stream' = [stream EXCEPT ![s].phase = "accepting", ![s].chunk = i]
  /\ UNCHANGED <<row, group, store, call, past>>

(* The handler returns an error: the chunk's hash is missing or wrong, the *)
(* save failed, or the stream broke.  Nothing it did is undone.            *)
AbortStream(s) ==
  /\ Receiving(s) \/ (stream[s].phase = "accepting" /\ stream[s].todo = {})
  /\ stream' = [stream EXCEPT ![s] = IdleStream]
  /\ UNCHANGED <<row, group, store, call, past>>

(* io.EOF: complete when the last message's index reached the total.  (A   *)
(* libp2p stream: the callback's check after each chunk, against the total *)
(* its header named.)                                                      *)
EndOfStream(s) ==
  /\ stream[s].phase = "recording"
  /\ stream[s].todo = {}
  /\ stream' = [stream EXCEPT ![s] =
                  IF stream[s].received >= stream[s].total
                  THEN [@ EXCEPT !.phase = "completing", !.todo = stream[s].rows]
                  ELSE IdleStream]
  /\ UNCHANGED <<row, group, store, call, past>>

(* CompleteTransfer, for the row or sibling by sibling: chunks_done becomes *)
(* the row's total_chunks, whatever total the stream was checked against.   *)
MarkCompleted(s, r) ==
  /\ stream[s].phase = "completing"
  /\ r \in stream[s].todo
  /\ stream' = [stream EXCEPT ![s].todo = @ \ {r}]
  /\ \/ /\ row' = [row EXCEPT ![r] = [@ EXCEPT !.status = "COMPLETED", !.done = TotalChunks]]
        /\ past' = [past EXCEPT ![r] = @ \cup {"released"}]
     \/ WriteLost
  /\ UNCHANGED <<group, store, call>>

(* SendAndClose with status COMPLETED, or the end of a libp2p stream. *)
AnswerCompleted(s) ==
  /\ stream[s].phase = "completing"
  /\ stream[s].todo = {}
  /\ stream' = [stream EXCEPT ![s] = IdleStream]
  /\ UNCHANGED <<row, group, store, call, past>>

-----------------------------------------------------------------------------
(* Unary handlers: GetTransfer and the check on the status it returned ... *)

Decide(c, r, kind, st, n) ==
  /\ call[c].phase = "idle"
  /\ call' = [call EXCEPT ![c] = [phase |-> "write", kind |-> kind, row |-> r,
                                  status |-> st, done |-> n]]
  /\ UNCHANGED <<row, group, store, stream, past>>

PauseTransfer(c, r) ==
  row[r].status = "IN_PROGRESS" /\ Decide(c, r, "status", "PAUSED", 0)

ResumeTransfer(c, r) ==
  row[r].status = "PAUSED" /\ Decide(c, r, "status", "IN_PROGRESS", 0)

RespondToTransfer(c, r, accept) ==
  /\ row[r].status = "AWAITING_APPROVAL"
  /\ Decide(c, r, "status", IF accept THEN "PENDING" ELSE "CANCELLED", 0)

CancelTransfer(c, r) ==
  Exists(r) /\ Decide(c, r, "cancel", "CANCELLED", 0)

(* n is the caller's chunks_transferred; on failure the status is the one read. *)
ConfirmP2PTransfer(c, r, success, n) ==
  /\ Exists(r)
  /\ Decide(c, r, "confirm", IF success THEN "COMPLETED" ELSE row[r].status, n)

(* ... then the UPDATE by id of pause, resume and respond ...              *)
WriteStatus(c) ==
  /\ call[c].phase = "write" /\ call[c].kind = "status"
  /\ SetStatus(call[c].row, call[c].status)
  /\ call' = [call EXCEPT ![c] = IdleCall]
  /\ UNCHANGED <<group, store, stream>>

(* ... of cancel, which goes on to the chunk store ...                     *)
WriteCancelled(c) ==
  /\ call[c].phase = "write" /\ call[c].kind = "cancel"
  /\ SetStatus(call[c].row, call[c].status)
  /\ call' = [call EXCEPT ![c].phase = "delete"]
  /\ UNCHANGED <<group, store, stream>>

(* ... of a P2P confirmation, which also overwrites chunks_done ...        *)
WriteConfirmed(c) ==
  LET r == call[c].row IN
  /\ call[c].phase = "write" /\ call[c].kind = "confirm"
  /\ row' = [row EXCEPT ![r] =
               [@ EXCEPT !.status = call[c].status, !.done = call[c].done]]
  /\ past' = [past EXCEPT ![r] = @ \cup {"confirmed"} \cup
                (IF call[c].status = "AWAITING_APPROVAL" THEN {} ELSE {"released"})]
  /\ call' = [call EXCEPT ![c] = IdleCall]
  /\ UNCHANGED <<group, store, stream>>

(* ... or the UPDATE fails and the handler returns Internal.               *)
WriteFails(c) ==
  /\ call[c].phase = "write"
  /\ call' = [call EXCEPT ![c] = IdleCall]
  /\ UNCHANGED <<row, group, store, stream, past>>

DeleteChunks_OfStorage(c) ==
  LET r == call[c].row IN
  /\ call[c].phase = "delete"
  /\ store' = [store EXCEPT ![StorageOf(r)] = {}]
  /\ past' = [past EXCEPT ![r] = @ \cup {"wiped"}]
  /\ call' = [call EXCEPT ![c] = IdleCall]
  /\ UNCHANGED <<row, group, stream>>

(* DeleteTransfer of the transfer's own directory; RemoveAll may fail with *)
(* some of the files gone, which is logged only.                           *)
DeleteChunks(c) ==
  LET r == call[c].row IN
  /\ call[c].phase = "delete"
  /\ \E kept \in SUBSET store[r] : store' = [store EXCEPT ![r] = kept]
  /\ past' = [past EXCEPT ![r] = @ \cup IF StorageOf(r) = r THEN {"wiped"} ELSE {}]
  /\ call' = [call EXCEPT ![c] = IdleCall]
  /\ UNCHANGED <<row, group, stream>>

(* The process dies and comes back: handlers are gone, tables and files stay. *)
Restart ==
  /\ stream' = [s \in Streams |-> IdleStream]
  /\ call' = [c \in Calls |-> IdleCall]
  /\ group' = [g \in Groups |-> IF group[g] = "creating" THEN "closed" ELSE group[g]]
  /\ UNCHANGED <<row, store, past>>

-----------------------------------------------------------------------------
(* Next-state relation *)

Create ==
  \/ \E r \in Singles, auto \in BOOLEAN : InitiateTransfer(r, auto)
  \/ \E g \in Groups : CreateGroup(g) \/ EndGroup(g)
  \/ \E g \in Groups, r \in Recipients : AddRecipient(g, r)

StartStream(s) ==
  \/ \E r \in Rows, i \in Indices, total \in Totals : OpenDirect(s, r, i, total)
  \/ \E g \in Groups, i \in Indices : OpenGroup(s, g, i)
  \/ \E r \in Rows, i \in Indices : OpenTransfer(s, r, i)

(* What the handler does on its own between two messages. *)
ServeStream(s) ==
  \/ \E r \in Rows : \/ MarkInProgress(s, r)
                     \/ RecordProgress(s, r)
                     \/ MarkCompleted(s, r)
  \/ SaveChunk(s)
  \/ AnswerCompleted(s)

StartCall(c) ==
  \E r \in Rows :
    \/ PauseTransfer(c, r)
    \/ ResumeTransfer(c, r)
    \/ CancelTransfer(c, r)
    \/ \E accept \in BOOLEAN : RespondToTransfer(c, r, accept)
    \/ \E success \in BOOLEAN, n \in Reports : ConfirmP2PTransfer(c, r, success, n)

ServeCall(c) ==
  \/ WriteStatus(c)
  \/ WriteCancelled(c)
  \/ WriteConfirmed(c)
  \/ WriteFails(c)
  \/ DeleteChunks(c)

Next ==
  \/ Create
  \/ \E r \in Rows, i \in Indices : RelayChunk(r, i)
  \/ \E s \in Streams : \/ StartStream(s)
                        \/ ServeStream(s)
                        \/ \E i \in Indices : NextMessage(s, i)
                        \/ EndOfStream(s)
                        \/ AbortStream(s)
  \/ \E c \in Calls : StartCall(c) \/ ServeCall(c)
  \/ Restart

Spec == Init /\ [][Next]_vars

-----------------------------------------------------------------------------
(* Safety *)

(* A transfer holds no chunk under its id before it has once left          *)
(* AWAITING_APPROVAL (receiver's answer, auto-approval, cancellation or    *)
(* P2P confirmation), whatever streams and stale unary writes race on it:  *)
(* SendChunk's check of the status guards the chunk store.  Only libp2p    *)
(* and the relay, which read no status, can bring chunks earlier.          *)
UnapprovedHoldsNothing ==
  \A r \in Rows : store[r] # {} => past[r] \cap {"released", "direct"} # {}

Reaches(x, n) == n > 0 => \E i \in store[x] : i + 1 >= n

(* A recipient's chunks that came over libp2p are under its own id, where  *)
(* ReceiveChunks, which reads the group's directory, does not look.        *)
Misfiled(r) == "direct" \in past[r] /\ StorageOf(r) # r

(* chunks_done and COMPLETED never run ahead of the chunk store: a row     *)
(* that no P2P confirmation wrote, whose directory no cancellation deleted *)
(* and whose chunks were not misfiled has on disk a chunk at or beyond the *)
(* one its chunks_done counts, and one at or beyond the last chunk when it *)
(* is COMPLETED -- across parallel streams, group uploads, libp2p streams, *)
(* lost database writes, aborted streams and restarts -- unless the header *)
(* of a libp2p stream named fewer chunks than the row has, in which case   *)
(* the callback completes it early (cmd/transfer/main.go:148).  SendChunk  *)
(* and handleStream save before they record.                               *)
ProgressIsBacked ==
  \A r \in Rows :
    past[r] \cap {"confirmed", "wiped", "short"} = {} /\ ~Misfiled(r) =>
      /\ Reaches(StorageOf(r), row[r].done)
      /\ row[r].status = "COMPLETED" => Reaches(StorageOf(r), TotalChunks)

(* The chunks of a group are shared by all its recipients: no step of any  *)
(* handler, and in particular no recipient's cancellation, takes one away. *)
GroupChunksKept == [][\A g \in Groups : store[g] \subseteq store'[g]]_vars

-----------------------------------------------------------------------------
(* What comments and the protocol file say, and the code does not keep *)

(* "Reached terminal completed state", "Reached terminal cancelled/failed  *)
(* state" (transfer.proto): a COMPLETED or CANCELLED row stays so.         *)
TerminalStatusIsFinal ==
  [][\A r \in Rows : row[r].status \in {"COMPLETED", "CANCELLED"} =>
       row'[r].status = row[r].status]_vars

(* "Complete if all chunks received." (SendChunk): a row completed by      *)
(* SendChunk alone, and never wiped, has all its chunks.                   *)
CompletedHasAllChunks ==
  \A r \in Rows :
    row[r].status = "COMPLETED" /\ past[r] \cap {"confirmed", "wiped", "direct"} = {} =>
      0..(TotalChunks - 1) \subseteq store[StorageOf(r)]

(* "P2P failed -- keep current status so client can fall back to relay."   *)
(* (ConfirmP2PTransfer): the write of a failed confirmation leaves the     *)
(* row's status as it is; only a successful one completes it.              *)
FailedConfirmKeepsStatus ==
  [][\A c \in Calls : WriteConfirmed(c) =>
       LET r == call[c].row IN
       row'[r].status \in {row[r].status, "COMPLETED"}]_vars

=============================================================================
