--------------------------- MODULE TransferProofs ---------------------------
(***************************************************************************)
(* Proofs, for every value of the constants of Transfer, of its type       *)
(* invariant and of the three safety properties its runs check; and of the *)
(* invariants of Delivery, every step of which is a step of Transfer.      *)
(***************************************************************************)
EXTENDS Delivery, TLAPS

(* A row that was never inserted is blank; one that left AWAITING_APPROVAL *)
(* has been released.                                                      *)
RowInv(r) ==
  /\ row[r].status = "ABSENT" => row[r] = NoRow
  /\ row[r].status \notin {"ABSENT", "AWAITING_APPROVAL"} => "released" \in past[r]

(* What a running stream handler relies on: the rows it maintains share    *)
(* the directory it fills, or are misfiled; that directory holds a chunk   *)
(* at or beyond the progress it is about to record; it completes only at   *)
(* its total, and a total below the row's is known as a short header.      *)
StreamInv(s) == stream[s].phase # "idle" =>
  /\ stream[s].storage \in Storage
  /\ stream[s].storage \in Rows =>
       past[stream[s].storage] \cap {"released", "direct"} # {}
  /\ stream[s].todo \subseteq stream[s].rows
  /\ stream[s].phase = "completing" => stream[s].received >= stream[s].total
  /\ \A r \in stream[s].rows :
       /\ Exists(r)
       /\ stream[s].total >= TotalChunks \/ "short" \in past[r]
       /\ \/ Misfiled(r)
          \/ /\ StorageOf(r) = stream[s].storage
             /\ "wiped" \notin past[r] => Reaches(stream[s].storage, stream[s].received)

(* Only a P2P confirmation may be about to write COMPLETED.                *)
CallInv(c) == call[c].phase # "idle" =>
  /\ Exists(call[c].row)
  /\ call[c].phase = "write" /\ call[c].kind # "confirm" => call[c].status # "COMPLETED"

(* The bodies of UnapprovedHoldsNothing and ProgressIsBacked for one row.  *)
Unapproved(r) == store[r] # {} => past[r] \cap {"released", "direct"} # {}
Backed(r) == past[r] \cap {"confirmed", "wiped", "short"} = {} /\ ~Misfiled(r) =>
  /\ Reaches(StorageOf(r), row[r].done)
  /\ row[r].status = "COMPLETED" => Reaches(StorageOf(r), TotalChunks)

(* The inductive invariant.                                                *)
IInv ==
  /\ TypeOK
  /\ \A r \in Rows : RowInv(r) /\ Unapproved(r) /\ Backed(r)
  /\ \A s \in Streams : StreamInv(s)
  /\ \A c \in Calls : CallInv(c)

-----------------------------------------------------------------------------
(* The type invariant *)

(* One step of the service, as the list of its actions.                    *)
LEMMA NextCases ==
  ASSUME Next
  PROVE  \/ \E r \in Singles, auto \in BOOLEAN : InitiateTransfer(r, auto)
         \/ \E g \in Groups : CreateGroup(g) \/ EndGroup(g)
         \/ \E g \in Groups, r \in Recipients : AddRecipient(g, r)
         \/ \E s \in Streams : \/ StartStream(s)
                               \/ ServeStream(s)
                               \/ \E i \in Indices : NextMessage(s, i)
                               \/ EndOfStream(s)
                               \/ AbortStream(s)
         \/ \E c \in Calls : StartCall(c) \/ ServeCall(c)
         \/ \E r \in Rows, i \in Indices : RelayChunk(r, i)
         \/ Restart
  BY DEF Next, Create

(* Before the first call every table and every handler is empty.           *)
LEMMA InitTypeOK == Init => TypeOK
  BY TransferConstants
  DEF Init, TypeOK, NoRow, IdleStream, IdleCall, RowType, StreamType, CallType,
      Storage, Rows, Indices, Progress, Status, Event, Totals

(* Updating one field of a typed record keeps its type.                    *)
LEMMA RowUpdate ==
  ASSUME NEW x \in RowType
  PROVE  /\ \A st \in Status : [x EXCEPT !.status = st] \in RowType
         /\ \A n \in Progress : [x EXCEPT !.done = n] \in RowType
         /\ \A st \in Status, n \in Progress :
              [x EXCEPT !.status = st, !.done = n] \in RowType
  BY DEF RowType

(* The same for the local variables of a stream handler.                   *)
LEMMA StreamUpdate ==
  ASSUME NEW x \in StreamType
  PROVE  /\ \A T \in SUBSET Rows : [x EXCEPT !.todo = T] \in StreamType
         /\ \A i \in Indices :
              [x EXCEPT !.phase = "accepting", !.chunk = i] \in StreamType
         /\ \A T \in SUBSET Rows :
              [x EXCEPT !.phase = "completing", !.todo = T] \in StreamType
         /\ \A T \in SUBSET Rows, n \in Progress :
              [x EXCEPT !.phase = "recording", !.todo = T, !.received = n] \in StreamType
  BY DEF StreamType

(* A handler that has ended leaves a typed value behind.                   *)
LEMMA IdleStreamType == IdleStream \in StreamType
  BY TransferConstants DEF IdleStream, StreamType, Indices, Progress, Totals

(* CompleteTransfer writes total_chunks into chunks_done.                  *)
LEMMA TotalIsProgress == TotalChunks \in Progress /\ TotalChunks \in Totals
  BY TransferConstants DEF Progress, Totals

(* One step of each handler keeps the types.                               *)
LEMMA StepTypeOK ==
  ASSUME TypeOK, [Next]_vars
  PROVE  TypeOK'
<1>. USE DEF TypeOK
<1>1. ASSUME NEW r \in Singles, NEW auto \in BOOLEAN, InitiateTransfer(r, auto)
      PROVE  TypeOK'
  BY <1>1, TransferConstants DEF InitiateTransfer, RowType, Status, Progress, Event, Rows
<1>2. ASSUME NEW g \in Groups, CreateGroup(g) \/ EndGroup(g)
      PROVE  TypeOK'
  BY <1>2 DEF CreateGroup, EndGroup
<1>3. ASSUME NEW g \in Groups, NEW r \in Recipients, AddRecipient(g, r)
      PROVE  TypeOK'
  BY <1>3, TransferConstants DEF AddRecipient, RowType, Status, Progress, Rows
<1>4. ASSUME NEW s \in Streams, StartStream(s)
      PROVE  TypeOK'
  <2>1. ASSUME NEW x \in Storage, NEW R \in SUBSET Rows, NEW i \in Indices,
               Open(s, x, R, i)
        PROVE  TypeOK'
    BY <2>1, TransferConstants, TotalIsProgress DEF Open, StreamType, Progress
  <2>2. ASSUME NEW g \in Groups, NEW i \in Indices, OpenGroup(s, g, i)
        PROVE  TypeOK'
    BY <2>1, <2>2 DEF OpenGroup, Siblings, Storage
  <2>4. ASSUME NEW r \in Rows, NEW i \in Indices, NEW total \in Totals,
               OpenDirect(s, r, i, total)
        PROVE  TypeOK'
    <3>1. [kind |-> "direct", phase |-> "accepting", storage |-> r, rows |-> {r},
           todo |-> {}, chunk |-> i, received |-> 0, total |-> total] \in StreamType
      BY TransferConstants DEF StreamType, Progress, Storage
    <3>2. past' \in [Rows -> SUBSET Event]
      BY <2>4 DEF OpenDirect, Event
    <3>. QED BY <2>4, <3>1, <3>2 DEF OpenDirect
  <2>3. ASSUME NEW r \in Rows, NEW i \in Indices, OpenTransfer(s, r, i)
        PROVE  TypeOK'
    BY <2>1, <2>3 DEF OpenTransfer, StorageOf, Storage, RowType
  <2>. QED BY <1>4, <2>2, <2>3, <2>4 DEF StartStream
<1>5. ASSUME NEW s \in Streams, ServeStream(s)
      PROVE  TypeOK'
  <2>. DEFINE x == stream[s]
  <2>1. x \in StreamType
    OBVIOUS
  <2>2. /\ x.todo \in SUBSET Rows /\ x.rows \in SUBSET Rows
        /\ x.received \in Progress /\ x.chunk \in Indices
        /\ x.chunk + 1 \in Progress
    BY <2>1, TransferConstants DEF StreamType, Progress, Indices
  <2>3. ASSUME NEW r \in Rows, MarkInProgress(s, r)
        PROVE  TypeOK'
    <3>1. [x EXCEPT !.todo = @ \ {r}] \in StreamType
      BY <2>1, <2>2, StreamUpdate
    <3>2. [row[r] EXCEPT !.status = "IN_PROGRESS"] \in RowType
      BY RowUpdate DEF Status
    <3>. QED BY <2>3, <3>1, <3>2 DEF MarkInProgress, SetStatus, WriteLost, Event
  <2>4. ASSUME NEW r \in Rows, RecordProgress(s, r)
        PROVE  TypeOK'
    <3>1. [x EXCEPT !.todo = @ \ {r}] \in StreamType
      BY <2>1, <2>2, StreamUpdate
    <3>2. [row[r] EXCEPT !.done = x.received] \in RowType
      BY <2>2, RowUpdate
    <3>. QED BY <2>4, <3>1, <3>2 DEF RecordProgress
  <2>5. ASSUME NEW r \in Rows, MarkCompleted(s, r)
        PROVE  TypeOK'
    <3>1. [x EXCEPT !.todo = @ \ {r}] \in StreamType
      BY <2>1, <2>2, StreamUpdate
    <3>2. [row[r] EXCEPT !.status = "COMPLETED", !.done = TotalChunks] \in RowType
      BY RowUpdate, TotalIsProgress DEF Status
    <3>3. row' \in [Rows -> RowType]
      BY <2>5, <3>2 DEF MarkCompleted, WriteLost
    <3>4. past' \in [Rows -> SUBSET Event]
      BY <2>5 DEF MarkCompleted, WriteLost, Event
    <3>. QED BY <2>5, <3>1, <3>3, <3>4 DEF MarkCompleted
  <2>6. ASSUME SaveChunk(s)
        PROVE  TypeOK'
    <3>1. [x EXCEPT !.phase = "recording", !.todo = x.rows, !.received = x.chunk + 1]
            \in StreamType
      BY <2>1, <2>2, StreamUpdate
    <3>2. stream' \in [Streams -> StreamType]
      BY <2>6, <3>1 DEF SaveChunk
    <3>3. store' \in [Storage -> SUBSET Indices]
      BY <2>2, <2>6 DEF SaveChunk
    <3>. QED BY <2>6, <3>2, <3>3 DEF SaveChunk
  <2>7. ASSUME AnswerCompleted(s)
        PROVE  TypeOK'
    BY <2>7, IdleStreamType DEF AnswerCompleted
  <2>. QED BY <1>5, <2>3, <2>4, <2>5, <2>6, <2>7 DEF ServeStream
<1>6. ASSUME NEW s \in Streams, NEW i \in Indices, NextMessage(s, i)
      PROVE  TypeOK'
  <2>1. [stream[s] EXCEPT !.phase = "accepting", !.chunk = i] \in StreamType
    BY StreamUpdate
  <2>. QED BY <1>6, <2>1 DEF NextMessage
<1>7. ASSUME NEW s \in Streams, EndOfStream(s) \/ AbortStream(s)
      PROVE  TypeOK'
  <2>1. [stream[s] EXCEPT !.phase = "completing", !.todo = stream[s].rows] \in StreamType
    <3>1. stream[s].rows \in SUBSET Rows
      BY DEF StreamType
    <3>. QED BY <3>1, StreamUpdate
  <2>. QED BY <1>7, <2>1, IdleStreamType DEF EndOfStream, AbortStream
<1>8. ASSUME NEW c \in Calls, StartCall(c)
      PROVE  TypeOK'
  <2>1. ASSUME NEW r \in Rows, NEW st \in Status, NEW n \in Progress,
               NEW k \in {"status", "cancel", "confirm"}, Decide(c, r, k, st, n)
        PROVE  TypeOK'
    BY <2>1 DEF Decide, CallType
  <2>2. 0 \in Progress /\ Reports \subseteq Progress
    BY TransferConstants DEF Progress
  <2>3. ASSUME NEW r \in Rows, Exists(r)
        PROVE  row[r].status \in Status
    BY <2>3 DEF Exists, RowType
  <2>. QED
    BY <1>8, <2>1, <2>2, <2>3
    DEF StartCall, PauseTransfer, ResumeTransfer, CancelTransfer, RespondToTransfer,
        ConfirmP2PTransfer, Status
<1>9. ASSUME NEW c \in Calls, ServeCall(c)
      PROVE  TypeOK'
  <2>1. PICK r \in Rows, st \in Status, n \in Progress :
          r = call[c].row /\ (call[c].phase = "write" => st = call[c].status)
                          /\ n = call[c].done
    BY <1>9 DEF ServeCall, WriteStatus, WriteCancelled, WriteConfirmed, WriteFails,
                DeleteChunks, CallType, IdleCall
  <2>2. [row[r] EXCEPT !.status = st] \in RowType
    BY RowUpdate
  <2>3. [row[r] EXCEPT !.status = st, !.done = n] \in RowType
    BY RowUpdate
  <2>4. ASSUME WriteStatus(c)
        PROVE  TypeOK'
    BY <2>1, <2>2, <2>4 DEF WriteStatus, SetStatus, Event
  <2>5. ASSUME WriteCancelled(c)
        PROVE  TypeOK'
    <3>1. [call[c] EXCEPT !.phase = "delete"] \in CallType
      BY <2>5 DEF WriteCancelled, CallType, IdleCall
    <3>. QED BY <2>1, <2>2, <2>5, <3>1 DEF WriteCancelled, SetStatus, Event
  <2>6. ASSUME WriteConfirmed(c)
        PROVE  TypeOK'
    BY <2>1, <2>3, <2>6 DEF WriteConfirmed, Event
  <2>7. ASSUME WriteFails(c)
        PROVE  TypeOK'
    BY <2>7 DEF WriteFails
  <2>8. ASSUME DeleteChunks(c)
        PROVE  TypeOK'
    BY <2>1, <2>8 DEF DeleteChunks, Event, Storage
  <2>. QED BY <1>9, <2>4, <2>5, <2>6, <2>7, <2>8 DEF ServeCall
<1>10. ASSUME Restart
       PROVE  TypeOK'
  BY <1>10, IdleStreamType DEF Restart
<1>11. ASSUME NEW r \in Rows, NEW i \in Indices, RelayChunk(r, i)
       PROVE  TypeOK'
  BY <1>11 DEF RelayChunk, Storage, Rows, Event
<1>12. CASE UNCHANGED vars
  BY <1>12 DEF vars
<1>. QED
  BY NextCases, <1>1, <1>2, <1>3, <1>4, <1>5, <1>6, <1>7, <1>8, <1>9, <1>10, <1>11, <1>12

(* Every value the service keeps stays in its type: no status outside the  *)
(* enum, no progress beyond the largest index plus one.                    *)
THEOREM TypeCorrect == Spec => []TypeOK
<1>1. Init => TypeOK
  BY InitTypeOK
<1>2. TypeOK /\ [Next]_vars => TypeOK'
  BY StepTypeOK
<1>. QED BY <1>1, <1>2, PTL DEF Spec

-----------------------------------------------------------------------------
(* What every step respects *)

(* History only grows, a row keeps existing under the same group, and the  *)
(* directory of its chunks loses none unless the row is marked as wiped.   *)
Grows ==
  \A r \in Rows :
    /\ past[r] \subseteq past'[r]
    /\ Exists(r) => Exists(r)' /\ row'[r].group = row[r].group
    /\ Exists(r) /\ "wiped" \notin past'[r] =>
         store[StorageOf(r)] \subseteq store'[StorageOf(r)]

(* A row's chunks are under its own id only if it is in no group.          *)
LEMMA StorageFacts ==
  ASSUME TypeOK, NEW r \in Rows
  PROVE  /\ StorageOf(r) \in Storage
         /\ StorageOf(r) \in Rows => StorageOf(r) = r /\ row[r].group = None
  BY TransferConstants DEF TypeOK, RowType, StorageOf, Storage, Rows

(* A step that writes one row, keeps it in its group and deletes no chunk. *)
LEMMA WriteGrows ==
  ASSUME TypeOK, NEW q \in Rows,
         store' = store,
         \A r \in Rows : past[r] \subseteq past'[r],
         \A r \in Rows : r # q => row'[r] = row[r],
         Exists(q) => row'[q].status # "ABSENT",
         row'[q].group = row[q].group
  PROVE  Grows
  BY DEF Grows, Exists

(* Every step of the service respects Grows.                               *)
LEMMA StepGrows ==
  ASSUME IInv, [Next]_vars
  PROVE  Grows
<1>. USE DEF IInv, TypeOK
<1>0. /\ \A r \in Rows : StorageOf(r) \in Storage
      /\ \A r \in Rows : row[r] \in RowType
      /\ \A s \in Streams : stream[s] \in StreamType
  BY StorageFacts
<1>1. ASSUME NEW r \in Singles, NEW auto \in BOOLEAN, InitiateTransfer(r, auto)
      PROVE  Grows
  BY <1>1 DEF InitiateTransfer, Grows, Exists, Rows
<1>2. ASSUME NEW g \in Groups, CreateGroup(g) \/ EndGroup(g)
      PROVE  Grows
  BY <1>2 DEF CreateGroup, EndGroup, Grows, Exists
<1>3. ASSUME NEW g \in Groups, NEW r \in Recipients, AddRecipient(g, r)
      PROVE  Grows
  BY <1>3 DEF AddRecipient, Grows, Exists, Rows
<1>4. ASSUME NEW s \in Streams, StartStream(s)
      PROVE  Grows
  BY <1>4 DEF StartStream, OpenGroup, OpenTransfer, OpenDirect, Open, Grows, Exists
<1>5. ASSUME NEW s \in Streams, ServeStream(s)
      PROVE  Grows
  <2>1. ASSUME NEW r \in Rows,
               MarkInProgress(s, r) \/ RecordProgress(s, r) \/ MarkCompleted(s, r)
        PROVE  Grows
    <3>1. row[r] \in RowType
      OBVIOUS
    <3>2. /\ store' = store
          /\ \A q \in Rows : past[q] \subseteq past'[q]
          /\ \A q \in Rows : q # r => row'[q] = row[q]
      BY <2>1 DEF MarkInProgress, RecordProgress, MarkCompleted, SetStatus, WriteLost
    <3>3. \/ row'[r] = row[r]
          \/ row'[r] = [row[r] EXCEPT !.status = "IN_PROGRESS"]
          \/ row'[r] = [row[r] EXCEPT !.done = stream[s].received]
          \/ row'[r] = [row[r] EXCEPT !.status = "COMPLETED", !.done = TotalChunks]
      BY <2>1 DEF MarkInProgress, RecordProgress, MarkCompleted, SetStatus, WriteLost
    <3>4. /\ Exists(r) => row'[r].status # "ABSENT"
          /\ row'[r].group = row[r].group
      BY <3>1, <3>3 DEF RowType, Exists
    <3>. QED BY <3>2, <3>4, WriteGrows
  <2>3. ASSUME SaveChunk(s)
        PROVE  Grows
    BY <1>0, <2>3 DEF SaveChunk, Grows, Exists
  <2>4. ASSUME AnswerCompleted(s)
        PROVE  Grows
    BY <2>4 DEF AnswerCompleted, Grows, Exists
  <2>. QED BY <1>5, <2>1, <2>3, <2>4 DEF ServeStream
<1>6. ASSUME NEW s \in Streams,
             (\E i \in Indices : NextMessage(s, i)) \/ EndOfStream(s) \/ AbortStream(s)
      PROVE  Grows
  BY <1>6 DEF NextMessage, EndOfStream, AbortStream, Grows, Exists
<1>7. ASSUME NEW c \in Calls, StartCall(c)
      PROVE  Grows
  BY <1>7 DEF StartCall, PauseTransfer, ResumeTransfer, CancelTransfer,
              RespondToTransfer, ConfirmP2PTransfer, Decide, Grows, Exists
<1>8. ASSUME NEW c \in Calls, ServeCall(c)
      PROVE  Grows
  <2>1. call[c] \in CallType
    BY <1>8 DEF ServeCall, WriteStatus, WriteCancelled, WriteConfirmed, WriteFails,
                DeleteChunks, IdleCall
  <2>2. call[c].row \in Rows /\ call[c].status \in Status
    BY <2>1 DEF CallType
  <2>. DEFINE q == call[c].row
  <2>3. ASSUME WriteStatus(c) \/ WriteCancelled(c) \/ WriteConfirmed(c)
        PROVE  Grows
    <3>1. /\ store' = store
          /\ \A r \in Rows : past[r] \subseteq past'[r]
          /\ \A r \in Rows : r # q => row'[r] = row[r]
      BY <2>2, <2>3 DEF WriteStatus, WriteCancelled, WriteConfirmed, SetStatus
    <3>2. row'[q].status = call[c].status /\ row'[q].group = row[q].group
      <4>1. row[q] \in RowType
        BY <2>2
      <4>2. CASE WriteStatus(c) \/ WriteCancelled(c)
        BY <2>2, <4>1, <4>2 DEF WriteStatus, WriteCancelled, SetStatus, RowType
      <4>3. CASE WriteConfirmed(c)
        <5>1. row'[q] = [row[q] EXCEPT !.status = call[c].status, !.done = call[c].done]
          BY <2>2, <4>3 DEF WriteConfirmed
        <5>. QED BY <4>1, <5>1 DEF RowType
      <4>. QED BY <2>3, <4>2, <4>3
    <3>3. call[c].status # "ABSENT"
      BY <2>2 DEF Status
    <3>. QED BY <2>2, <3>1, <3>2, <3>3 DEF Grows, Exists
  <2>6. CASE WriteFails(c)
    BY <2>6 DEF WriteFails, Grows, Exists
  <2>7. CASE DeleteChunks(c)
    <3>1. /\ row' = row
          /\ \A r \in Rows : past[r] \subseteq past'[r]
          /\ \A x \in Storage : x # q => store'[x] = store[x]
          /\ StorageOf(q) = q => "wiped" \in past'[q]
      BY <2>2, <2>7 DEF DeleteChunks, Storage
    <3>2. ASSUME NEW r \in Rows, StorageOf(r) = q, "wiped" \notin past'[r]
          PROVE  FALSE
      <4>1. r = q
        BY <2>2, <3>2, StorageFacts
      <4>. QED BY <3>1, <3>2, <4>1
    <3>. QED BY <1>0, <3>1, <3>2 DEF Grows, Exists
  <2>. QED BY <1>8, <2>3, <2>6, <2>7 DEF ServeCall
<1>9. ASSUME NEW r \in Rows, NEW i \in Indices, RelayChunk(r, i)
      PROVE  Grows
  BY <1>0, <1>9 DEF RelayChunk, Grows, Exists
<1>10. CASE Restart \/ UNCHANGED vars
  BY <1>10 DEF Restart, vars, Grows, Exists
<1>. QED BY NextCases, <1>1, <1>2, <1>3, <1>4, <1>5, <1>6, <1>7, <1>8, <1>9, <1>10

-----------------------------------------------------------------------------
(* What a step does not touch stays in the invariant *)

(* The directory of an existing row across a step that does not wipe it.   *)
LEMMA KeepsChunks ==
  ASSUME Grows, NEW r \in Rows, Exists(r), "wiped" \notin past'[r]
  PROVE  StorageOf(r)' = StorageOf(r) /\ store[StorageOf(r)] \subseteq store'[StorageOf(r)]
  BY DEF Grows, StorageOf

(* A misfiled row stays so.                                                *)
LEMMA MisfiledStays ==
  ASSUME Grows, NEW r \in Rows, Exists(r), Misfiled(r)
  PROVE  Misfiled(r)'
  BY DEF Grows, Misfiled, StorageOf

(* A row the step did not write keeps its part of the invariant.           *)
LEMMA RowFrame ==
  ASSUME IInv, Grows, NEW r \in Rows, row'[r] = row[r]
  PROVE  RowInv(r)' /\ Backed(r)'
<1>. USE DEF IInv
<1>1. past[r] \subseteq past'[r] /\ RowInv(r) /\ Backed(r)
  BY DEF Grows
<1>2. RowInv(r)'
  BY <1>1 DEF RowInv, NoRow
<1>3. CASE Exists(r)
  <2>1. CASE Misfiled(r)
    BY <1>2, <1>3, <2>1, MisfiledStays DEF Backed
  <2>2. CASE ~Misfiled(r)
    BY <1>1, <1>2, <1>3, <2>2, KeepsChunks DEF Backed, Reaches
  <2>. QED BY <2>1, <2>2
<1>4. CASE ~Exists(r)
  BY <1>1, <1>4 DEF Backed, Reaches, RowInv, NoRow, Exists
<1>. QED BY <1>2, <1>3, <1>4

(* A stream that did not move, that only went on through its rows, or that *)
(* ended, keeps its part.                                                  *)
StreamCarriesOn(s) ==
  \/ stream'[s].phase = "idle"
  \/ /\ stream[s].phase # "idle"
     /\ stream'[s].storage = stream[s].storage
     /\ stream'[s].rows = stream[s].rows
     /\ stream'[s].received = stream[s].received
     /\ stream'[s].total = stream[s].total
     /\ stream'[s].todo \subseteq stream[s].rows
     /\ stream'[s].phase = "completing" => stream[s].received >= stream[s].total

(* The frame of a stream: nothing it relies on is taken away by others.    *)
LEMMA StreamFrame ==
  ASSUME IInv, Grows, NEW s \in Streams,
         stream'[s] = stream[s] \/ StreamCarriesOn(s)
  PROVE  StreamInv(s)'
<1>. USE DEF IInv
<1>1. StreamInv(s) /\ stream[s].rows \subseteq Rows
  BY DEF TypeOK, StreamType
<1>2. CASE stream'[s].phase = "idle"
  BY <1>2 DEF StreamInv
<1>3. CASE stream'[s].phase # "idle"
  <2>1. /\ stream[s].phase # "idle"
        /\ stream'[s].storage = stream[s].storage
        /\ stream'[s].rows = stream[s].rows
        /\ stream'[s].received = stream[s].received
        /\ stream'[s].total = stream[s].total
        /\ stream'[s].todo \subseteq stream[s].rows
        /\ stream'[s].phase = "completing" => stream[s].received >= stream[s].total
    BY <1>1, <1>3 DEF StreamCarriesOn, StreamInv
  <2>2. ASSUME NEW r \in stream[s].rows
        PROVE  /\ Exists(r)'
               /\ stream[s].total >= TotalChunks \/ "short" \in past'[r]
               /\ \/ Misfiled(r)'
                  \/ /\ StorageOf(r)' = stream[s].storage
                     /\ "wiped" \notin past'[r] =>
                          Reaches(stream[s].storage, stream[s].received)'
    <3>1. /\ r \in Rows /\ Exists(r)
          /\ stream[s].total >= TotalChunks \/ "short" \in past[r]
          /\ \/ Misfiled(r)
             \/ /\ StorageOf(r) = stream[s].storage
                /\ "wiped" \notin past[r] => Reaches(stream[s].storage, stream[s].received)
      BY <1>1, <2>1 DEF StreamInv
    <3>2. past[r] \subseteq past'[r] /\ Exists(r)' /\ StorageOf(r)' = StorageOf(r)
      BY <3>1 DEF Grows, StorageOf
    <3>3. CASE Misfiled(r)
      BY <3>1, <3>2, <3>3, MisfiledStays
    <3>4. CASE ~Misfiled(r)
      BY <2>1, <3>1, <3>2, <3>4, KeepsChunks DEF Reaches
    <3>. QED BY <3>3, <3>4
  <2>3. stream[s].storage \in Rows =>
          past'[stream[s].storage] \cap {"released", "direct"} # {}
    BY <1>1, <2>1 DEF StreamInv, Grows
  <2>. QED BY <1>1, <2>1, <2>2, <2>3 DEF StreamInv, Storage, Rows, Reaches
<1>. QED BY <1>2, <1>3

(* So does a call.                                                         *)
LEMMA CallFrame ==
  ASSUME IInv, Grows, NEW c \in Calls, call'[c] = call[c]
  PROVE  CallInv(c)'
<1>1. CallInv(c) /\ call[c] \in CallType \cup {IdleCall}
  BY DEF IInv, TypeOK
<1>. QED BY <1>1 DEF CallInv, Grows, CallType, IdleCall

(* The chunks of a row that this step did not add to.                      *)
LEMMA UnapprovedFrame ==
  ASSUME IInv, Grows, NEW r \in Rows, store'[r] \subseteq store[r]
  PROVE  Unapproved(r)'
  BY DEF IInv, Grows, Unapproved

-----------------------------------------------------------------------------
(* The invariant is inductive *)

(* Nothing has happened yet.                                               *)
LEMMA InitIInv == Init => IInv
  BY InitTypeOK
  DEF Init, IInv, RowInv, Unapproved, Backed, Reaches, StreamInv, CallInv, Storage, Rows,
      NoRow, IdleStream, IdleCall

(* What a step has to show: the invariant of each row and call it wrote,   *)
(* of each directory it added to and of each stream it did not merely      *)
(* carry on.                                                               *)
LEMMA Reassemble ==
  ASSUME IInv, TypeOK', Grows,
         \A r \in Rows : row'[r] = row[r] \/ (RowInv(r)' /\ Backed(r)'),
         \A r \in Rows : store'[r] \subseteq store[r] \/ Unapproved(r)',
         \A s \in Streams : \/ stream'[s] = stream[s]
                           \/ StreamCarriesOn(s)
                           \/ StreamInv(s)',
         \A c \in Calls : call'[c] = call[c] \/ CallInv(c)'
  PROVE  IInv'
<1>1. \A r \in Rows : RowInv(r)' /\ Backed(r)'
  BY RowFrame
<1>2. \A r \in Rows : Unapproved(r)'
  BY UnapprovedFrame
<1>3. \A s \in Streams : StreamInv(s)'
  BY StreamFrame
<1>4. \A c \in Calls : CallInv(c)'
  BY CallFrame
<1>. QED BY <1>1, <1>2, <1>3, <1>4 DEF IInv

(* A new row is blank but for its status and its group.                    *)
LEMMA CreateIInv ==
  ASSUME IInv, TypeOK', Grows, Create
  PROVE  IInv'
<1>. USE DEF IInv
<1>1. ASSUME NEW r \in Rows, NEW st \in {"PENDING", "AWAITING_APPROVAL"},
             NEW g \in Groups \cup {None},
             row' = [row EXCEPT ![r] = [status |-> st, done |-> 0, group |-> g]],
             st = "PENDING" => "released" \in past'[r],
             UNCHANGED <<store, stream, call>>
      PROVE  IInv'
  <2>1. row'[r] = [status |-> st, done |-> 0, group |-> g]
    BY <1>1 DEF TypeOK
  <2>2. RowInv(r)' /\ Backed(r)'
    BY <1>1, <2>1 DEF RowInv, Backed, Reaches
  <2>3. \A q \in Rows \ {r} : row'[q] = row[q]
    BY <1>1 DEF TypeOK
  <2>. QED BY <1>1, <2>2, <2>3, Reassemble
<1>2. ASSUME NEW r \in Singles, NEW auto \in BOOLEAN, InitiateTransfer(r, auto)
      PROVE  IInv'
  BY <1>1, <1>2 DEF InitiateTransfer, TypeOK, Rows
<1>3. ASSUME NEW g \in Groups, NEW r \in Recipients, AddRecipient(g, r)
      PROVE  IInv'
  BY <1>1, <1>3 DEF AddRecipient, Rows
<1>4. ASSUME NEW g \in Groups, CreateGroup(g) \/ EndGroup(g)
      PROVE  IInv'
  BY <1>4, Reassemble DEF CreateGroup, EndGroup
<1>. QED BY <1>2, <1>3, <1>4 DEF Create

(* A handler starts: every row it will maintain exists and keeps its       *)
(* chunks in the directory the handler will fill.                          *)
LEMMA StartStreamIInv ==
  ASSUME IInv, TypeOK', Grows, NEW s \in Streams, StartStream(s)
  PROVE  IInv'
<1>. USE DEF IInv
<1>1. ASSUME NEW x \in Storage, NEW R \in SUBSET Rows, NEW i \in Indices,
             x \in Rows => "released" \in past[x],
             \A r \in R : Exists(r) /\ StorageOf(r) = x,
             Open(s, x, R, i)
      PROVE  IInv'
  <2>1. /\ stream'[s].phase = "accepting" /\ stream'[s].storage = x
        /\ stream'[s].rows = R /\ stream'[s].todo = R /\ stream'[s].received = 0
        /\ stream'[s].total = TotalChunks
    BY <1>1 DEF Open, TypeOK
  <2>2. UNCHANGED <<row, store, past, call>>
    BY <1>1 DEF Open
  <2>3. StreamInv(s)'
    BY <1>1, <2>1, <2>2, TransferConstants DEF StreamInv, Reaches, Exists, StorageOf
  <2>4. \A t \in Streams \ {s} : stream'[t] = stream[t]
    BY <1>1 DEF Open, TypeOK
  <2>. QED BY <2>2, <2>3, <2>4, Reassemble
<1>2. ASSUME NEW g \in Groups, NEW i \in Indices, OpenGroup(s, g, i)
      PROVE  IInv'
  <2>1. g \in Storage /\ g \notin Rows /\ g # None
    BY TransferConstants DEF Storage, Rows
  <2>2. Siblings(g) \in SUBSET Rows
    BY DEF Siblings
  <2>3. \A r \in Siblings(g) : Exists(r) /\ StorageOf(r) = g
    BY <2>1 DEF Siblings, StorageOf, Exists, RowInv, NoRow
  <2>4. Open(s, g, Siblings(g), i) \/ Open(s, g, {}, i)
    BY <1>2 DEF OpenGroup
  <2>. QED BY <1>1, <2>1, <2>2, <2>3, <2>4
<1>3. ASSUME NEW r \in Rows, NEW i \in Indices, OpenTransfer(s, r, i)
      PROVE  IInv'
  <2>1. StorageOf(r) \in Storage /\ (StorageOf(r) \in Rows => StorageOf(r) = r)
    BY StorageFacts
  <2>2. Exists(r) /\ "released" \in past[r]
    BY <1>3 DEF OpenTransfer, Exists, RowInv
  <2>3. {r} \in SUBSET Rows
    OBVIOUS
  <2>4. Open(s, StorageOf(r), {r}, i)
    BY <1>3 DEF OpenTransfer
  <2>. QED BY <1>1, <2>1, <2>2, <2>3, <2>4
<1>4. ASSUME NEW r \in Rows, NEW i \in Indices, NEW total \in Totals,
             OpenDirect(s, r, i, total)
      PROVE  IInv'
  <2>1. /\ stream'[s].phase = "accepting" /\ stream'[s].storage = r
        /\ stream'[s].rows = {r} /\ stream'[s].todo = {} /\ stream'[s].received = 0
        /\ "direct" \in past'[r] /\ Exists(r)
        /\ stream'[s].total >= TotalChunks \/ "short" \in past'[r]
    BY <1>4, TransferConstants DEF OpenDirect, TypeOK, Totals
  <2>2. UNCHANGED <<row, store, call>> /\ \A t \in Streams \ {s} : stream'[t] = stream[t]
    BY <1>4 DEF OpenDirect, TypeOK
  <2>3. StreamInv(s)'
    BY <2>1, <2>2 DEF StreamInv, Reaches, Exists, StorageOf, Misfiled, Storage, Rows
  <2>. QED BY <2>2, <2>3, Reassemble
<1>. QED BY <1>2, <1>3, <1>4 DEF StartStream

(* A handler writes the rows it maintains, after the chunk is on disk.     *)
LEMMA ServeStreamIInv ==
  ASSUME IInv, TypeOK', Grows, NEW s \in Streams, ServeStream(s)
  PROVE  IInv'
<1>. USE DEF IInv
<1>. DEFINE x == stream[s]
<1>1. x \in StreamType /\ StreamInv(s)
  BY DEF TypeOK
<1>2. ASSUME NEW r \in Rows, r \in x.todo, x.phase # "idle"
      PROVE  /\ Exists(r) /\ Exists(r)' /\ StorageOf(r)' = StorageOf(r)
             /\ past[r] \subseteq past'[r] /\ row[r] \in RowType
             /\ x.total >= TotalChunks \/ "short" \in past'[r]
             /\ \/ Misfiled(r)'
                \/ /\ StorageOf(r) = x.storage
                   /\ "wiped" \notin past'[r] =>
                        (x.received > 0 => \E i \in store'[x.storage] : i + 1 >= x.received)
  <2>1. /\ Exists(r)
        /\ x.total >= TotalChunks \/ "short" \in past[r]
        /\ \/ Misfiled(r)
           \/ /\ StorageOf(r) = x.storage
              /\ "wiped" \notin past[r] => Reaches(x.storage, x.received)
    BY <1>1, <1>2 DEF StreamInv
  <2>2. /\ past[r] \subseteq past'[r] /\ Exists(r)' /\ StorageOf(r)' = StorageOf(r)
        /\ row[r] \in RowType
    BY <2>1 DEF Grows, StorageOf, TypeOK
  <2>3. CASE Misfiled(r)
    BY <2>1, <2>2, <2>3, MisfiledStays
  <2>4. CASE ~Misfiled(r)
    <3>1. ASSUME "wiped" \notin past'[r]
          PROVE  store[x.storage] \subseteq store'[x.storage]
      BY <2>1, <2>4, <3>1, KeepsChunks
    <3>. QED BY <2>1, <2>2, <2>4, <3>1 DEF Reaches
  <2>. QED BY <2>3, <2>4
<1>3. ASSUME NEW r \in Rows, MarkInProgress(s, r)
      PROVE  IInv'
  <2>1. /\ r \in x.todo /\ x.phase = "accepting" /\ store' = store /\ call' = call
        /\ stream' = [stream EXCEPT ![s].todo = @ \ {r}]
        /\ SetStatus(r, "IN_PROGRESS") \/ WriteLost
    BY <1>3 DEF MarkInProgress
  <2>2. StreamCarriesOn(s) /\ \A t \in Streams \ {s} : stream'[t] = stream[t]
    BY <1>1, <2>1 DEF StreamCarriesOn, StreamInv, TypeOK, StreamType
  <2>3. CASE WriteLost
    BY <2>1, <2>2, <2>3, Reassemble DEF WriteLost
  <2>4. CASE SetStatus(r, "IN_PROGRESS")
    <3>1. /\ row'[r] = [row[r] EXCEPT !.status = "IN_PROGRESS"]
          /\ "released" \in past'[r]
          /\ \A q \in Rows \ {r} : row'[q] = row[q]
      BY <2>4 DEF SetStatus, TypeOK
    <3>2. row'[r].status = "IN_PROGRESS" /\ row'[r].done = row[r].done
      BY <1>2, <2>1, <3>1 DEF RowType
    <3>3. RowInv(r)'
      BY <3>1, <3>2 DEF RowInv
    <3>4. Backed(r)'
      BY <1>2, <2>1, <3>2, KeepsChunks, MisfiledStays DEF Backed, Reaches
    <3>. QED BY <2>1, <2>2, <3>1, <3>3, <3>4, Reassemble
  <2>. QED BY <2>1, <2>3, <2>4
<1>4. ASSUME NEW r \in Rows, RecordProgress(s, r)
      PROVE  IInv'
  <2>1. /\ r \in x.todo /\ x.phase = "recording" /\ UNCHANGED <<store, call, past>>
        /\ stream' = [stream EXCEPT ![s].todo = @ \ {r}]
        /\ row' = [row EXCEPT ![r].done = x.received] \/ row' = row
    BY <1>4 DEF RecordProgress
  <2>2. StreamCarriesOn(s) /\ \A t \in Streams \ {s} : stream'[t] = stream[t]
    BY <1>1, <2>1 DEF StreamCarriesOn, StreamInv, TypeOK, StreamType
  <2>3. CASE row' = row
    BY <2>1, <2>2, <2>3, Reassemble
  <2>4. CASE row' = [row EXCEPT ![r].done = x.received]
    <3>1. /\ row'[r] = [row[r] EXCEPT !.done = x.received]
          /\ \A q \in Rows \ {r} : row'[q] = row[q]
      BY <2>4 DEF TypeOK
    <3>2. row'[r].status = row[r].status /\ row'[r].done = x.received
      BY <1>2, <2>1, <3>1 DEF RowType
    <3>3. RowInv(r)'
      BY <1>2, <2>1, <3>2 DEF RowInv, Exists
    <3>4. Backed(r)'
      BY <1>2, <2>1, <3>2, KeepsChunks, MisfiledStays DEF Backed, Reaches
    <3>. QED BY <2>1, <2>2, <3>1, <3>3, <3>4, Reassemble
  <2>. QED BY <2>1, <2>3, <2>4
<1>5. ASSUME NEW r \in Rows, MarkCompleted(s, r)
      PROVE  IInv'
  <2>1. /\ r \in x.todo /\ x.phase = "completing" /\ store' = store /\ call' = call
        /\ stream' = [stream EXCEPT ![s].todo = @ \ {r}]
    BY <1>5 DEF MarkCompleted
  <2>2. StreamCarriesOn(s) /\ \A t \in Streams \ {s} : stream'[t] = stream[t]
    BY <1>1, <2>1 DEF StreamCarriesOn, StreamInv, TypeOK, StreamType
  <2>3. CASE WriteLost
    BY <2>1, <2>2, <2>3, Reassemble DEF WriteLost
  <2>4. CASE ~WriteLost
    <3>1. /\ row'[r] = [row[r] EXCEPT !.status = "COMPLETED", !.done = TotalChunks]
          /\ "released" \in past'[r]
          /\ \A q \in Rows \ {r} : row'[q] = row[q]
      BY <1>5, <2>4 DEF MarkCompleted, TypeOK
    <3>2. row'[r].status = "COMPLETED" /\ row'[r].done = TotalChunks
      BY <1>2, <2>1, <3>1 DEF RowType
    <3>3. RowInv(r)'
      BY <3>1, <3>2 DEF RowInv
    <3>4. /\ x.received \in Nat /\ TotalChunks \in Nat
          /\ x.received >= TotalChunks \/ "short" \in past'[r]
      <4>1. x.received >= x.total /\ x.received \in Nat /\ x.total \in Nat
        BY <1>1, <2>1, TransferConstants DEF StreamInv, StreamType, Progress, Totals
      <4>. QED BY <1>2, <2>1, <4>1, TransferConstants
    <3>5. Backed(r)'
      <4>1. \A i \in store'[StorageOf(r)'] : i \in Nat
        BY <1>2, <2>1, StorageFacts DEF TypeOK, Indices, Storage, Rows
      <4>. QED BY <1>2, <2>1, <3>2, <3>4, <4>1 DEF Backed, Reaches
    <3>. QED BY <2>1, <2>2, <3>1, <3>3, <3>5, Reassemble
  <2>. QED BY <2>3, <2>4
<1>6. ASSUME SaveChunk(s)
      PROVE  IInv'
  <2>1. /\ x.phase = "accepting" /\ UNCHANGED <<row, call, past>>
        /\ store' = [store EXCEPT ![x.storage] = @ \cup {x.chunk}]
        /\ stream' = [stream EXCEPT ![s].phase = "recording", ![s].todo = x.rows,
                                    ![s].received = x.chunk + 1]
    BY <1>6 DEF SaveChunk
  <2>2. /\ stream'[s].phase = "recording" /\ stream'[s].todo = x.rows
        /\ stream'[s].rows = x.rows /\ stream'[s].storage = x.storage
        /\ stream'[s].received = x.chunk + 1 /\ stream'[s].total = x.total
        /\ \A t \in Streams \ {s} : stream'[t] = stream[t]
    BY <1>1, <2>1 DEF TypeOK, StreamType
  <2>3. /\ x.storage \in Storage
        /\ x.storage \in Rows => past[x.storage] \cap {"released", "direct"} # {}
        /\ \A r \in x.rows : Exists(r) /\ (Misfiled(r) \/ StorageOf(r) = x.storage)
    BY <1>1, <2>1 DEF StreamInv
  <2>7. \A r \in x.rows : x.total >= TotalChunks \/ "short" \in past'[r]
    BY <1>1, <2>1 DEF StreamInv
  <2>4. x.chunk \in store'[x.storage] /\ x.chunk \in Nat
    BY <1>1, <2>1, <2>3 DEF TypeOK, StreamType, Indices
  <2>5. StreamInv(s)'
    <3>1. \A r \in x.rows : Exists(r)' /\ (Misfiled(r)' \/ StorageOf(r)' = x.storage)
      BY <2>1, <2>3 DEF Exists, StorageOf, Misfiled
    <3>2. \E i \in store'[x.storage] : i + 1 >= x.chunk + 1
      BY <2>4
    <3>. QED BY <2>1, <2>2, <2>3, <2>7, <3>1, <3>2 DEF StreamInv, Storage, Rows, Reaches
  <2>6. \A r \in Rows : store'[r] \subseteq store[r] \/ Unapproved(r)'
    BY <2>1, <2>3 DEF Unapproved, TypeOK, Storage
  <2>. QED BY <2>1, <2>2, <2>5, <2>6, Reassemble
<1>7. ASSUME AnswerCompleted(s)
      PROVE  IInv'
  <2>1. StreamCarriesOn(s) /\ \A t \in Streams \ {s} : stream'[t] = stream[t]
    BY <1>7 DEF AnswerCompleted, StreamCarriesOn, IdleStream, TypeOK
  <2>. QED BY <1>7, <2>1, Reassemble DEF AnswerCompleted
<1>. QED BY <1>3, <1>4, <1>5, <1>6, <1>7 DEF ServeStream

(* A unary handler decides on a row that exists; of these only a P2P       *)
(* confirmation decides for COMPLETED.                                     *)
LEMMA StartCallIInv ==
  ASSUME IInv, TypeOK', Grows, NEW c \in Calls, StartCall(c)
  PROVE  IInv'
<1>1. ASSUME NEW r \in Rows, NEW k, NEW st, NEW n,
             Exists(r), k = "confirm" \/ st # "COMPLETED", Decide(c, r, k, st, n)
      PROVE  IInv'
  <2>1. /\ UNCHANGED <<row, store, stream>>
        /\ call'[c] = [phase |-> "write", kind |-> k, row |-> r, status |-> st, done |-> n]
        /\ \A d \in Calls \ {c} : call'[d] = call[d]
    BY <1>1 DEF Decide, IInv, TypeOK
  <2>2. CallInv(c)'
    BY <1>1, <2>1 DEF CallInv, Exists
  <2>. QED BY <2>1, <2>2, Reassemble
<1>. QED
  BY <1>1
  DEF StartCall, PauseTransfer, ResumeTransfer, CancelTransfer, RespondToTransfer,
      ConfirmP2PTransfer, Exists

(* It writes the status it decided on, or a confirmation, or nothing.      *)
LEMMA ServeCallIInv ==
  ASSUME IInv, TypeOK', Grows, NEW c \in Calls, ServeCall(c)
  PROVE  IInv'
<1>. USE DEF IInv
<1>1. call[c].phase # "idle" /\ call[c] \in CallType /\ CallInv(c)
  BY DEF ServeCall, WriteStatus, WriteCancelled, WriteConfirmed, WriteFails,
         DeleteChunks, TypeOK, IdleCall
<1>2. PICK r \in Rows, st \in Status : r = call[c].row /\ st = call[c].status
  BY <1>1 DEF CallType
<1>. /\ Exists(r) /\ row[r] \in RowType
  BY <1>1, <1>2 DEF CallInv, TypeOK
<1>3. past[r] \subseteq past'[r] /\ Backed(r)
  BY <1>2 DEF Grows
<1>4. ASSUME WriteStatus(c) \/ WriteCancelled(c)
      PROVE  IInv'
  <2>1. /\ SetStatus(r, st) /\ UNCHANGED <<store, stream>>
        /\ call'[c] = IdleCall \/ call'[c] = [call[c] EXCEPT !.phase = "delete"]
        /\ \A d \in Calls \ {c} : call'[d] = call[d]
        /\ st # "COMPLETED"
    BY <1>1, <1>2, <1>4 DEF WriteStatus, WriteCancelled, CallInv, TypeOK
  <2>2. /\ row'[r] = [row[r] EXCEPT !.status = st]
        /\ st # "AWAITING_APPROVAL" => "released" \in past'[r]
        /\ \A q \in Rows \ {r} : row'[q] = row[q]
    BY <1>2, <2>1 DEF SetStatus, TypeOK
  <2>3. row'[r].status = st /\ row'[r].done = row[r].done
    BY <1>2, <2>2 DEF RowType
  <2>4. RowInv(r)'
    BY <1>2, <2>2, <2>3 DEF RowInv, Status
  <2>5. Backed(r)'
    BY <1>2, <1>3, <2>1, <2>3, KeepsChunks, MisfiledStays DEF Backed, Reaches
  <2>6. CallInv(c)'
    <3>1. CASE call'[c] = IdleCall
      BY <3>1 DEF CallInv, IdleCall
    <3>2. CASE call'[c] = [call[c] EXCEPT !.phase = "delete"]
      <4>1. call'[c].phase = "delete" /\ call'[c].row = r
        BY <1>1, <1>2, <3>2 DEF CallType
      <4>2. row'[r].status # "ABSENT"
        BY <1>2, <2>3 DEF Status
      <4>. QED BY <4>1, <4>2 DEF CallInv, Exists
    <3>. QED BY <2>1, <3>1, <3>2
  <2>. QED BY <2>1, <2>2, <2>4, <2>5, <2>6, Reassemble
<1>5. ASSUME WriteConfirmed(c)
      PROVE  IInv'
  <2>1. /\ row'[r] = [row[r] EXCEPT !.status = st, !.done = call[c].done]
        /\ \A q \in Rows \ {r} : row'[q] = row[q]
        /\ "confirmed" \in past'[r]
        /\ st # "AWAITING_APPROVAL" => "released" \in past'[r]
        /\ call' = [call EXCEPT ![c] = IdleCall]
        /\ UNCHANGED <<store, stream>>
    BY <1>2, <1>5 DEF WriteConfirmed, TypeOK
  <2>2. row'[r].status = st
    BY <1>2, <2>1 DEF RowType
  <2>3. RowInv(r)' /\ Backed(r)'
    BY <1>2, <2>1, <2>2 DEF RowInv, Backed, Status
  <2>4. \A d \in Calls : call'[d] = call[d] \/ CallInv(d)'
    BY <2>1 DEF TypeOK, CallInv, IdleCall
  <2>. QED BY <2>1, <2>3, <2>4, Reassemble
<1>6. ASSUME WriteFails(c)
      PROVE  IInv'
  <2>1. \A d \in Calls : call'[d] = call[d] \/ CallInv(d)'
    BY <1>6 DEF WriteFails, TypeOK, CallInv, IdleCall
  <2>. QED BY <1>6, <2>1, Reassemble DEF WriteFails
<1>7. ASSUME DeleteChunks(c)
      PROVE  IInv'
  <2>1. \A d \in Calls : call'[d] = call[d] \/ CallInv(d)'
    BY <1>7 DEF DeleteChunks, TypeOK, CallInv, IdleCall
  <2>2. \A q \in Rows : store'[q] \subseteq store[q]
    BY <1>2, <1>7 DEF DeleteChunks, TypeOK, Storage
  <2>3. UNCHANGED <<row, stream>>
    BY <1>7 DEF DeleteChunks
  <2>. QED BY <2>1, <2>2, <2>3, Reassemble
<1>. QED BY <1>4, <1>5, <1>6, <1>7 DEF ServeCall

(* Every step of the service keeps the invariant.                          *)
LEMMA StepIInv ==
  ASSUME IInv, [Next]_vars
  PROVE  IInv'
<1>1. TypeOK' /\ Grows
  BY StepTypeOK, StepGrows DEF IInv
<1>2. CASE Create
  BY <1>1, <1>2, CreateIInv
<1>3. ASSUME NEW s \in Streams, StartStream(s)
      PROVE  IInv'
  BY <1>1, <1>3, StartStreamIInv
<1>4. ASSUME NEW s \in Streams, ServeStream(s)
      PROVE  IInv'
  BY <1>1, <1>4, ServeStreamIInv
<1>5. ASSUME NEW s \in Streams,
             (\E i \in Indices : NextMessage(s, i)) \/ EndOfStream(s) \/ AbortStream(s)
      PROVE  IInv'
  <2>1. stream[s] \in StreamType /\ StreamInv(s)
    BY DEF IInv, TypeOK
  <2>2. StreamCarriesOn(s) /\ \A t \in Streams \ {s} : stream'[t] = stream[t]
    <3>1. CASE \E i \in Indices : NextMessage(s, i)
      BY <2>1, <3>1
      DEF NextMessage, Receiving, StreamCarriesOn, StreamInv, StreamType, IInv, TypeOK
    <3>2. CASE EndOfStream(s)
      BY <2>1, <3>2
      DEF EndOfStream, StreamCarriesOn, StreamType, IdleStream, IInv, TypeOK
    <3>3. CASE AbortStream(s)
      BY <3>3 DEF AbortStream, StreamCarriesOn, IdleStream, IInv, TypeOK
    <3>. QED BY <1>5, <3>1, <3>2, <3>3
  <2>3. UNCHANGED <<row, store, call>>
    BY <1>5 DEF NextMessage, EndOfStream, AbortStream
  <2>. QED BY <1>1, <2>2, <2>3, Reassemble
<1>6. ASSUME NEW c \in Calls, StartCall(c)
      PROVE  IInv'
  BY <1>1, <1>6, StartCallIInv
<1>7. ASSUME NEW c \in Calls, ServeCall(c)
      PROVE  IInv'
  BY <1>1, <1>7, ServeCallIInv
<1>8. CASE Restart
  <2>1. /\ \A s \in Streams : StreamCarriesOn(s)
        /\ \A c \in Calls : CallInv(c)'
    BY <1>8 DEF Restart, StreamCarriesOn, IdleStream, CallInv, IdleCall
  <2>. QED BY <1>1, <1>8, <2>1, Reassemble DEF Restart
<1>9. ASSUME NEW r \in Rows, NEW i \in Indices, RelayChunk(r, i)
      PROVE  IInv'
  <2>1. UNCHANGED <<row, stream, call>> /\ "direct" \in past'[r] /\ r \in Rows
    BY <1>9 DEF RelayChunk, IInv, TypeOK, Rows
  <2>2. \A q \in Rows : store'[q] \subseteq store[q] \/ Unapproved(q)'
    BY <1>9, <2>1 DEF RelayChunk, Unapproved, IInv, TypeOK, Storage
  <2>. QED BY <1>1, <2>1, <2>2, Reassemble
<1>10. CASE UNCHANGED vars
  BY <1>1, <1>10, Reassemble DEF vars
<1>. QED BY <1>2, <1>3, <1>4, <1>5, <1>6, <1>7, <1>8, <1>9, <1>10 DEF Next

-----------------------------------------------------------------------------
(* The theorems *)

(* The strengthened invariant holds of every reachable state.              *)
THEOREM Inductive == Spec => []IInv
<1>. QED BY InitIInv, StepIInv, PTL DEF Spec

(* The status SendChunk reads before it accepts a stream guards the chunk  *)
(* store: no transfer holds a chunk before it has left AWAITING_APPROVAL.  *)
THEOREM ApprovalComesFirst == Spec => []UnapprovedHoldsNothing
<1>1. IInv => UnapprovedHoldsNothing
  BY DEF IInv, Unapproved, UnapprovedHoldsNothing
<1>. QED BY <1>1, Inductive, PTL

(* chunks_done and COMPLETED never run ahead of the chunk store, whatever  *)
(* streams, calls, lost writes and restarts interleave.                    *)
THEOREM RowsAreBacked == Spec => []ProgressIsBacked
<1>1. IInv => ProgressIsBacked
  BY DEF IInv, Backed, ProgressIsBacked
<1>. QED BY <1>1, Inductive, PTL

(* No row vanishes or changes its group, and no handler, restart or lost   *)
(* write takes a chunk from a row whose directory no cancellation deleted. *)
THEOREM RowsPersist == Spec => [][Grows]_vars
<1>1. IInv /\ [Next]_vars => [Grows]_vars
  BY StepGrows
<1>. QED BY <1>1, Inductive, PTL DEF Spec

(* No recipient's cancellation takes a chunk from the group it is in.      *)
THEOREM GroupsKeepTheirChunks == Spec => GroupChunksKept
<1>1. ASSUME TypeOK, [Next]_vars
      PROVE  [\A g \in Groups : store[g] \subseteq store'[g]]_vars
  <2>1. CASE UNCHANGED <<store>>
    BY <2>1
  <2>2. ASSUME NEW s \in Streams, SaveChunk(s)
        PROVE  \A g \in Groups : store[g] \subseteq store'[g]
    BY <1>1, <2>2 DEF SaveChunk, TypeOK, Storage
  <2>3. ASSUME NEW c \in Calls, DeleteChunks(c)
        PROVE  \A g \in Groups : store[g] \subseteq store'[g]
    <3>1. call[c] \in CallType
      BY <1>1, <2>3 DEF DeleteChunks, TypeOK, IdleCall
    <3>2. call[c].row \in Rows /\ call[c].row \notin Groups
      BY <3>1, TransferConstants DEF CallType, Rows
    <3>. QED BY <1>1, <2>3, <3>2 DEF DeleteChunks, TypeOK, Storage
  <2>4. ASSUME NEW r \in Rows, NEW i \in Indices, RelayChunk(r, i)
        PROVE  \A g \in Groups : store[g] \subseteq store'[g]
    BY <1>1, <2>4 DEF RelayChunk, TypeOK, Storage
  <2>5. CASE UNCHANGED vars
    BY <2>5
  <2>. QED
    BY <1>1, <2>1, <2>2, <2>3, <2>4, <2>5
    DEF Next, Create, InitiateTransfer, CreateGroup, AddRecipient, EndGroup, StartStream,
        OpenGroup, OpenTransfer, OpenDirect, Open, ServeStream, MarkInProgress, RecordProgress,
        MarkCompleted, AnswerCompleted, NextMessage, EndOfStream, AbortStream, StartCall,
        PauseTransfer, ResumeTransfer, CancelTransfer, RespondToTransfer,
        ConfirmP2PTransfer, Decide, ServeCall, WriteStatus, WriteCancelled,
        WriteConfirmed, WriteFails, Restart
<1>. QED BY <1>1, TypeCorrect, PTL DEF Spec, GroupChunksKept

-----------------------------------------------------------------------------
(* Delivery *)

(* The first n chunks of r are on disk, or r was wiped.                    *)
Kept(r, n) == "wiped" \notin past[r] => 0..(n - 1) \subseteq store[r]

(* A stream of the gateway: one row, one chunk, those before it kept, and  *)
(* its own once it is saved.                                               *)
UploadInv(s) == stream[s].phase # "idle" =>
  LET r == stream[s].storage IN
  /\ stream[s].kind = "upload"
  /\ r \in Singles
  /\ stream[s].rows = {r}
  /\ stream[s].total = TotalChunks
  /\ Kept(r, stream[s].chunk)
  /\ stream[s].phase # "accepting" =>
       stream[s].received = stream[s].chunk + 1 /\ Kept(r, stream[s].received)

(* A send command: what it has had answered is kept, and the stream it     *)
(* waits for carries its next chunk.                                       *)
CliInv(r) ==
  /\ cli[r].phase = "idle" => cli[r].next = 0
  /\ cli[r].phase # "idle" => Exists(r) /\ Kept(r, cli[r].next)
  /\ cli[r].phase = "waiting" => cli[r].next < cli[r].total
  /\ cli[r].phase = "sent" => cli[r].next = cli[r].total
  /\ cli[r].stream # None =>
       /\ cli[r].phase = "waiting"
       /\ stream[cli[r].stream].phase # "idle"
       /\ stream[cli[r].stream].storage = r
       /\ stream[cli[r].stream].chunk = cli[r].next

(* Only whole transfers are completed, unless a peer confirmed.            *)
Whole(r) ==
  row[r].status = "COMPLETED" /\ "confirmed" \notin past[r] => Kept(r, TotalChunks)

(* What a download has read is kept; a trusted row has all to read.        *)
DownloadInv(d) == download[d].phase # "idle" =>
  LET r == download[d].row IN
  /\ Exists(r)
  /\ Kept(r, download[d].next)
  /\ download[d].phase = "reading" => download[d].next < TotalChunks
  /\ download[d].phase = "ok" => download[d].next = TotalChunks
  /\ download[d].trusted => Kept(r, TotalChunks)
  /\ download[d].trusted /\ download[d].phase = "missing" => "wiped" \in past[r]

DInv ==
  /\ IInv
  /\ DeliveryTypeOK
  /\ \A r \in Rows : row[r].group = None /\ Whole(r)
  /\ \A s \in Streams : UploadInv(s)
  /\ \A r \in Singles : CliInv(r)
  /\ \A d \in Downloads : DownloadInv(d)

LEMMA DeliveryInitInv == DeliveryInit => DInv
<1>. SUFFICES ASSUME DeliveryInit PROVE DInv
  OBVIOUS
<1>1. IInv
  BY InitIInv DEF DeliveryInit
<1>2. DeliveryTypeOK
  BY <1>1, TransferConstants DEF DeliveryInit, DeliveryTypeOK, IInv, NoDownload
<1>3. \A r \in Rows : row[r].group = None /\ Whole(r)
  BY DEF DeliveryInit, Init, NoRow, Whole
<1>4. \A s \in Streams : UploadInv(s)
  BY DEF DeliveryInit, Init, IdleStream, UploadInv
<1>5. (\A r \in Singles : CliInv(r)) /\ \A d \in Downloads : DownloadInv(d)
  BY DEF DeliveryInit, CliInv, DownloadInv, NoDownload
<1>. QED BY <1>1, <1>2, <1>3, <1>4, <1>5 DEF DInv

(* Every step of the clients is a step of the service or leaves it alone.  *)
LEMMA DeliveryIsTransfer ==
  ASSUME DeliveryTypeOK, [DeliveryNext]_allVars
  PROVE  [Next]_vars
<1>1. ASSUME NEW r \in Singles, CliInitiate(r) PROVE Next
  BY <1>1 DEF CliInitiate, Next, Create
<1>2. ASSUME NEW r \in Singles, NEW s \in Streams, CliPost(r, s) PROVE Next
  <2>1. cli[r].next \in Indices
    BY <1>2, TransferConstants DEF CliPost, DeliveryTypeOK, Indices
  <2>. QED BY <1>2, <2>1 DEF CliPost, Next, StartStream, Rows
<1>3. ASSUME NEW s \in Streams, ServeUpload(s) \/ UploadCompletes(s) PROVE Next
  BY <1>3 DEF ServeUpload, UploadCompletes, Next, ServeStream
<1>4. ASSUME NEW s \in Streams, GatewayCloses(s) \/ UploadFails(s) PROVE Next
  BY <1>4 DEF GatewayCloses, UploadFails, Next
<1>5. ASSUME Others \/ DeliveryRestart PROVE Next
  BY <1>5 DEF Others, DeliveryRestart, Next
<1>6. ASSUME \/ \E r \in Singles : CliStops(r)
             \/ \E d \in Downloads : \/ LoadChunk(d)
                                     \/ DownloadFails(d)
                                     \/ \E r \in Rows : ReceiveChunks(d, r)
             \/ UNCHANGED allVars
      PROVE  UNCHANGED vars
  BY <1>6 DEF CliStops, LoadChunk, DownloadFails, ReceiveChunks, allVars
<1>. QED BY <1>1, <1>2, <1>3, <1>4, <1>5, <1>6 DEF DeliveryNext

(* What is kept stays so.                                                  *)
LEMMA KeptStays ==
  ASSUME DInv, Grows, NEW r \in Rows, Exists(r), NEW n, Kept(r, n)
  PROVE  "wiped" \notin past'[r] => 0..(n - 1) \subseteq store'[r]
<1>1. StorageOf(r) = r /\ past[r] \subseteq past'[r]
  BY DEF DInv, StorageOf, Grows
<1>. QED BY <1>1 DEF Grows, Kept

(* The types of the variables the clients add.                             *)
LEMMA DeliveryStepType ==
  ASSUME DInv, [DeliveryNext]_allVars
  PROVE  DeliveryTypeOK'
<1>. DEFINE CliType == [phase : {"idle", "ready", "waiting", "sent", "stopped"},
                        next : 0..TotalChunks, stream : Streams \cup {None},
                        total : {0, TotalChunks}]
<1>. USE TransferConstants DEF DInv
<1>1. TypeOK'
  BY DeliveryIsTransfer, StepTypeOK DEF DeliveryTypeOK
<1>2. cli \in [Singles -> CliType] /\ download \in [Downloads -> DownloadType \cup {NoDownload}]
  BY DEF DeliveryTypeOK
<1>3. SUFFICES /\ cli' \in [Singles -> CliType]
               /\ download' \in [Downloads -> DownloadType \cup {NoDownload}]
  BY <1>1 DEF DeliveryTypeOK
<1>4. ASSUME NEW r \in Singles, CliInitiate(r) \/ CliStops(r) \/ \E s \in Streams : CliPost(r, s)
      PROVE  cli' \in [Singles -> CliType] /\ download' = download
  <2>1. CASE CliInitiate(r)
    <3>1. PICK total \in {0, TotalChunks} :
            /\ cli' = [cli EXCEPT ![r].phase = IF total = 0 THEN "sent" ELSE "ready",
                                   ![r].total = total]
            /\ download' = download
      BY <2>1 DEF CliInitiate
    <3>2. [cli[r] EXCEPT !.phase = IF total = 0 THEN "sent" ELSE "ready", !.total = total]
            \in CliType
      BY <1>2
    <3>. QED BY <1>2, <3>1, <3>2
  <2>2. CASE CliStops(r)
    BY <1>2, <2>2 DEF CliStops
  <2>3. ASSUME NEW s \in Streams, CliPost(r, s)
        PROVE  cli' \in [Singles -> CliType] /\ download' = download
    <3>1. /\ cli' = [cli EXCEPT ![r].phase = "waiting", ![r].stream = s]
          /\ download' = download
      BY <2>3 DEF CliPost
    <3>. QED BY <1>2, <3>1
  <2>. QED BY <1>4, <2>1, <2>2, <2>3
<1>5. ASSUME NEW s \in Streams, NEW ok \in BOOLEAN, Notify(s, ok)
      PROVE  cli' \in [Singles -> CliType]
  <2>1. ASSUME NEW r \in Singles, cli[r].stream = s PROVE cli[r].next + 1 \in 0..TotalChunks
    BY <1>2, <2>1, DeliveryConstants DEF CliInv
  <2>. QED BY <1>2, <1>5, <2>1 DEF Notify
<1>6. ASSUME NEW s \in Streams,
             ServeUpload(s) \/ GatewayCloses(s) \/ UploadCompletes(s) \/ UploadFails(s)
      PROVE  cli' \in [Singles -> CliType] /\ download' = download
  BY <1>2, <1>5, <1>6 DEF ServeUpload, GatewayCloses, UploadCompletes, UploadFails
<1>7. ASSUME NEW d \in Downloads, NEW r \in Rows, ReceiveChunks(d, r)
      PROVE  cli' = cli /\ download' \in [Downloads -> DownloadType \cup {NoDownload}]
  <2>1. Trusted(r) \in BOOLEAN
    BY DEF Trusted
  <2>. QED BY <1>2, <1>7, <2>1 DEF ReceiveChunks, DownloadType
<1>8. ASSUME NEW d \in Downloads, LoadChunk(d)
      PROVE  cli' = cli /\ download' \in [Downloads -> DownloadType \cup {NoDownload}]
  <2>1. download[d] \in DownloadType /\ download[d].next + 1 \in 0..TotalChunks
    BY <1>2, <1>8 DEF LoadChunk, DownloadInv, NoDownload, DownloadType
  <2>. QED BY <1>2, <1>8, <2>1 DEF LoadChunk, DownloadType
<1>9. CASE DeliveryRestart
  BY <1>2, <1>9 DEF DeliveryRestart
<1>10. CASE Others \/ UNCHANGED allVars
  BY <1>2, <1>10 DEF Others, allVars
<1>11. ASSUME NEW d \in Downloads, DownloadFails(d)
       PROVE  cli' = cli /\ download' \in [Downloads -> DownloadType \cup {NoDownload}]
  <2>1. download[d] \in DownloadType
    BY <1>2, <1>11 DEF DownloadFails, NoDownload
  <2>. QED BY <1>2, <1>11, <2>1 DEF DownloadFails, DownloadType
<1>. QED BY <1>2, <1>4, <1>6, <1>7, <1>8, <1>9, <1>10, <1>11 DEF DeliveryNext

(* No row gets into a group, and a row that a confirmation has not written *)
(* is completed by its stream.                                             *)
LEMMA DeliveryStepRows ==
  ASSUME DInv, Grows, [DeliveryNext]_allVars, NEW r \in Rows
  PROVE  row'[r].group = None /\ Whole(r)'
<1>. USE DEF DInv
<1>0. /\ row \in [Rows -> RowType] /\ past \in [Rows -> SUBSET Event]
      /\ row[r].group = None /\ Whole(r)
  BY DEF IInv, TypeOK
<1>1. ASSUME row'[r].group = row[r].group, row'[r].status # "COMPLETED"
      PROVE  row'[r].group = None /\ Whole(r)'
  BY <1>0, <1>1 DEF Whole
<1>2. ASSUME row'[r].group = row[r].group, row[r].status = "COMPLETED"
      PROVE  row'[r].group = None /\ Whole(r)'
  <2>1. Exists(r) /\ past[r] \subseteq past'[r]
    BY <1>2 DEF Exists, Grows
  <2>. QED BY <1>0, <1>2, <2>1, KeptStays DEF Whole, Kept
<1>3. CASE row'[r] = row[r]
  BY <1>1, <1>2, <1>3
<1>4. ASSUME NEW q \in Singles, CliInitiate(q) PROVE row'[r].group = None /\ Whole(r)'
  BY <1>0, <1>3, <1>4 DEF CliInitiate, InitiateTransfer, Whole
<1>5. ASSUME NEW s \in Streams, NEW q \in Rows, MarkInProgress(s, q) \/ RecordProgress(s, q)
      PROVE  row'[r].group = None /\ Whole(r)'
  <2>1. CASE q # r \/ row' = row
    BY <1>0, <1>3, <1>5, <2>1 DEF MarkInProgress, RecordProgress, SetStatus, WriteLost
  <2>2. CASE q = r /\ row' = [row EXCEPT ![r].status = "IN_PROGRESS"]
    <3>1. row'[r].group = row[r].group /\ row'[r].status # "COMPLETED"
      BY <1>0, <2>2 DEF RowType
    <3>. QED BY <1>1, <3>1
  <2>3. CASE q = r /\ row' = [row EXCEPT ![r].done = stream[s].received]
    <3>1. row'[r].group = row[r].group /\ row'[r].status = row[r].status
      BY <1>0, <2>3 DEF RowType
    <3>. QED BY <1>1, <1>2, <3>1
  <2>. QED BY <1>5, <2>1, <2>2, <2>3 DEF MarkInProgress, RecordProgress, SetStatus, WriteLost
<1>6. ASSUME NEW s \in Streams, NEW q \in Rows, MarkCompleted(s, q)
      PROVE  row'[r].group = None /\ Whole(r)'
  <2>1. CASE q # r
    BY <1>0, <1>3, <1>6, <2>1 DEF MarkCompleted, WriteLost
  <2>2. CASE q = r
    <3>1. /\ stream[s].storage = r /\ Kept(r, stream[s].received)
          /\ stream[s].received >= TotalChunks /\ Exists(r) /\ stream[s] \in StreamType
      BY <1>6, <2>2 DEF MarkCompleted, UploadInv, IInv, StreamInv, TypeOK
    <3>2. Kept(r, TotalChunks)
      BY <3>1, TransferConstants DEF Kept, StreamType, Progress
    <3>3. row'[r].group = None
      <4>1. CASE row' = row
        BY <1>0, <4>1
      <4>2. CASE row' = [row EXCEPT ![r] = [@ EXCEPT !.status = "COMPLETED", !.done = TotalChunks]]
        BY <1>0, <4>2 DEF RowType
      <4>. QED BY <1>6, <2>2, <4>1, <4>2 DEF MarkCompleted, WriteLost
    <3>. QED BY <3>1, <3>2, <3>3, KeptStays DEF Whole, Kept
  <2>. QED BY <2>1, <2>2
<1>7. ASSUME NEW c \in Calls, WriteStatus(c) \/ WriteCancelled(c)
      PROVE  row'[r].group = None /\ Whole(r)'
  <2>1. call[c].status # "COMPLETED"
    BY <1>7 DEF WriteStatus, WriteCancelled, IInv, CallInv
  <2>2. row' = [row EXCEPT ![call[c].row].status = call[c].status]
    BY <1>7 DEF WriteStatus, WriteCancelled, SetStatus
  <2>3. CASE call[c].row # r
    BY <1>0, <1>3, <2>2, <2>3
  <2>4. CASE call[c].row = r
    <3>1. row'[r].group = row[r].group /\ row'[r].status # "COMPLETED"
      BY <1>0, <2>1, <2>2, <2>4 DEF RowType
    <3>. QED BY <1>1, <3>1
  <2>. QED BY <2>3, <2>4
<1>8. ASSUME NEW c \in Calls, WriteConfirmed(c)
      PROVE  row'[r].group = None /\ Whole(r)'
  <2>1. CASE call[c].row # r
    BY <1>0, <1>3, <1>8, <2>1 DEF WriteConfirmed
  <2>2. CASE call[c].row = r
    BY <1>0, <1>8, <2>2 DEF WriteConfirmed, Whole
  <2>. QED BY <2>1, <2>2
<1>9. CASE UNCHANGED row
  BY <1>3, <1>9
<1>. QED
  BY <1>4, <1>5, <1>6, <1>7, <1>8, <1>9
  DEF DeliveryNext, CliPost, OpenTransfer, Open, CliStops, ServeUpload, SaveChunk,
      GatewayCloses, EndOfStream, UploadCompletes, AnswerCompleted, UploadFails, AbortStream,
      LoadChunk, DownloadFails, ReceiveChunks, Others, StartCall, PauseTransfer, ResumeTransfer,
      CancelTransfer, RespondToTransfer, ConfirmP2PTransfer, Decide, ServeCall, WriteFails,
      DeleteChunks, DeliveryRestart, Restart, allVars, vars

(* A stream the step leaves alone, or of which it changes only what is     *)
(* left to write.                                                          *)
LEMMA UploadFrame ==
  ASSUME DInv, Grows, NEW s \in Streams, stream[s].phase # "idle",
         stream'[s].kind = stream[s].kind, stream'[s].storage = stream[s].storage,
         stream'[s].rows = stream[s].rows, stream'[s].chunk = stream[s].chunk,
         stream'[s].received = stream[s].received, stream'[s].total = stream[s].total,
         stream[s].phase = "accepting" => stream'[s].phase = "accepting"
  PROVE  UploadInv(s)'
<1>. DEFINE r == stream[s].storage
<1>1. UploadInv(s) /\ r \in Rows /\ Exists(r)
  BY DEF DInv, UploadInv, IInv, StreamInv, Rows
<1>2. Kept(r, stream[s].chunk) => ("wiped" \notin past'[r] => 0..(stream[s].chunk - 1) \subseteq store'[r])
  BY <1>1, KeptStays
<1>3. Kept(r, stream[s].received) => ("wiped" \notin past'[r] => 0..(stream[s].received - 1) \subseteq store'[r])
  BY <1>1, KeptStays
<1>. QED BY <1>1, <1>2, <1>3 DEF UploadInv, Kept

LEMMA DeliveryStepStreams ==
  ASSUME DInv, Grows, [DeliveryNext]_allVars, NEW s \in Streams
  PROVE  UploadInv(s)'
<1>0. stream \in [Streams -> StreamType] /\ (\A r \in Rows : StorageOf(r) = r)
  BY DEF DInv, IInv, TypeOK, StorageOf
<1>1. CASE stream'[s].phase = "idle"
  BY <1>1 DEF UploadInv
<1>2. CASE stream'[s] = stream[s]
  BY <1>1, <1>2, UploadFrame
<1>3. ASSUME NEW r \in Singles, NEW t \in Streams, CliPost(r, t) PROVE UploadInv(s)'
  <2>1. CASE t # s
    BY <1>0, <1>2, <1>3, <2>1 DEF CliPost, OpenTransfer, Open
  <2>2. CASE t = s
    <3>1. r \in Rows /\ Exists(r) /\ Kept(r, cli[r].next)
      BY <1>3 DEF CliPost, DInv, CliInv, Rows
    <3>2. stream'[s] = [kind |-> "upload", phase |-> "accepting", storage |-> r, rows |-> {r},
                        todo |-> {r}, chunk |-> cli[r].next, received |-> 0,
                        total |-> TotalChunks]
      BY <1>0, <1>3, <2>2, <3>1 DEF CliPost, OpenTransfer, Open
    <3>3. "wiped" \notin past'[r] => 0..(cli[r].next - 1) \subseteq store'[r]
      BY <3>1, KeptStays
    <3>. QED BY <3>2, <3>3 DEF UploadInv, Kept
  <2>. QED BY <2>1, <2>2
<1>4. ASSUME NEW t \in Streams, SaveChunk(t) PROVE UploadInv(s)'
  <2>1. CASE t # s
    BY <1>0, <1>2, <1>4, <2>1 DEF SaveChunk
  <2>2. CASE t = s
    <3>. DEFINE r == stream[s].storage
                i == stream[s].chunk
    <3>1. stream[s].kind = "upload" /\ r \in Singles /\ r \in Rows /\ stream[s].rows = {r}
          /\ stream[s].total = TotalChunks /\ Exists(r) /\ Kept(r, i) /\ i \in Nat
      BY <1>0, <1>4, <2>2
      DEF SaveChunk, DInv, UploadInv, IInv, StreamInv, StreamType, Indices, Rows
    <3>2. stream'[s] = [stream[s] EXCEPT !.phase = "recording", !.todo = {r}, !.received = i + 1]
      BY <1>0, <1>4, <2>2, <3>1 DEF SaveChunk
    <3>3. i \in store'[r]
      BY <1>4, <2>2, <3>1 DEF SaveChunk, DInv, IInv, TypeOK, Storage
    <3>4. "wiped" \notin past'[r] => 0..(i - 1) \subseteq store'[r]
      BY <3>1, KeptStays
    <3>5. "wiped" \notin past'[r] => 0..((i + 1) - 1) \subseteq store'[r]
      BY <3>1, <3>3, <3>4
    <3>6. /\ stream'[s].kind = "upload" /\ stream'[s].storage = r /\ stream'[s].rows = {r}
          /\ stream'[s].chunk = i /\ stream'[s].received = i + 1
          /\ stream'[s].total = TotalChunks
      BY <1>0, <3>1, <3>2 DEF StreamType
    <3>. HIDE DEF r, i
    <3>. QED BY <3>1, <3>4, <3>5, <3>6 DEF UploadInv, Kept
  <2>. QED BY <2>1, <2>2
<1>5. ASSUME NEW t \in Streams, NEW r \in Rows,
             MarkInProgress(t, r) \/ RecordProgress(t, r) \/ MarkCompleted(t, r)
      PROVE  UploadInv(s)'
  <2>1. stream' = [stream EXCEPT ![t].todo = @ \ {r}] /\ stream[t].phase # "idle"
    BY <1>5 DEF MarkInProgress, RecordProgress, MarkCompleted
  <2>2. CASE t # s
    BY <1>0, <1>2, <2>1, <2>2
  <2>3. CASE t = s
    BY <1>0, <2>1, <2>3, UploadFrame DEF StreamType
  <2>. QED BY <2>2, <2>3
<1>6. ASSUME NEW t \in Streams, EndOfStream(t) PROVE UploadInv(s)'
  <2>1. CASE t # s
    BY <1>0, <1>2, <1>6, <2>1 DEF EndOfStream
  <2>2. CASE t = s /\ stream[s].received >= stream[s].total
    <3>1. stream'[s] = [stream[s] EXCEPT !.phase = "completing", !.todo = stream[s].rows]
          /\ stream[s].phase = "recording"
      BY <1>0, <1>6, <2>2 DEF EndOfStream
    <3>. QED BY <1>0, <3>1, UploadFrame DEF StreamType
  <2>3. CASE t = s /\ ~(stream[s].received >= stream[s].total)
    BY <1>0, <1>1, <1>6, <2>3 DEF EndOfStream, IdleStream
  <2>. QED BY <2>1, <2>2, <2>3
<1>7. ASSUME NEW t \in Streams, AnswerCompleted(t) \/ AbortStream(t) PROVE UploadInv(s)'
  BY <1>0, <1>1, <1>2, <1>7 DEF AnswerCompleted, AbortStream, IdleStream
<1>8. CASE DeliveryRestart
  BY <1>1, <1>8 DEF DeliveryRestart, Restart, IdleStream
<1>9. CASE UNCHANGED stream
  BY <1>2, <1>9
<1>. QED
  BY <1>3, <1>4, <1>5, <1>6, <1>7, <1>8, <1>9
  DEF DeliveryNext, CliInitiate, InitiateTransfer, CliStops, ServeUpload, GatewayCloses,
      UploadCompletes, UploadFails, LoadChunk, DownloadFails, ReceiveChunks, Others, StartCall,
      PauseTransfer, ResumeTransfer, CancelTransfer, RespondToTransfer, ConfirmP2PTransfer,
      Decide, ServeCall, WriteStatus, WriteCancelled, WriteConfirmed, WriteFails,
      DeleteChunks, allVars, vars

(* A command the step leaves alone, as it does the stream it waits for.    *)
LEMMA CliFrame ==
  ASSUME DInv, Grows, NEW r \in Singles, cli'[r] = cli[r],
         cli[r].stream # None =>
           /\ stream'[cli[r].stream].phase # "idle"
           /\ stream'[cli[r].stream].storage = stream[cli[r].stream].storage
           /\ stream'[cli[r].stream].chunk = stream[cli[r].stream].chunk
  PROVE  CliInv(r)'
<1>1. r \in Rows /\ CliInv(r) /\ (Exists(r) => Exists(r)')
  BY DEF DInv, Rows, Grows
<1>2. cli[r].phase # "idle" =>
        ("wiped" \notin past'[r] => 0..(cli[r].next - 1) \subseteq store'[r])
  BY <1>1, KeptStays DEF CliInv
<1>. QED BY <1>1, <1>2 DEF CliInv, Kept

(* A command whose stream has ended takes its answer, or stops.            *)
LEMMA NotifyClis ==
  ASSUME DInv, Grows, NEW t \in Streams, NEW ok \in BOOLEAN, Notify(t, ok),
         stream[t].phase # "idle", ok => stream[t].phase # "accepting",
         \A s \in Streams \ {t} : stream'[s] = stream[s],
         NEW r \in Singles
  PROVE  CliInv(r)'
<1>0. /\ CliInv(r) /\ UploadInv(t) /\ r \in Rows /\ t # None
      /\ cli[r] \in [phase : {"idle", "ready", "waiting", "sent", "stopped"},
                     next : 0..TotalChunks, stream : Streams \cup {None},
                        total : {0, TotalChunks}]
  BY DeliveryConstants DEF DInv, DeliveryTypeOK, Rows
<1>1. CASE cli[r].stream # t
  <2>1. cli'[r] = cli[r]
    BY <1>1 DEF Notify
  <2>. QED BY <1>0, <1>1, <2>1, CliFrame DEF CliInv
<1>2. CASE cli[r].stream = t
  <2>. DEFINE n == cli[r].next + 1
  <2>1. /\ stream[t].storage = r /\ stream[t].chunk = cli[r].next /\ Exists(r)
        /\ cli[r].next < cli[r].total /\ Kept(r, cli[r].next)
    BY <1>0, <1>2 DEF CliInv
  <2>2. Exists(r)'
    BY <1>0, <2>1 DEF Grows
  <2>3. CASE ok
    <3>1. /\ cli'[r].phase = (IF n = cli[r].total THEN "sent" ELSE "ready")
          /\ cli'[r].next = n /\ cli'[r].stream = None /\ cli'[r].total = cli[r].total
      <4>1. cli'[r] = [cli[r] EXCEPT !.phase = IF n = cli[r].total THEN "sent" ELSE "ready",
                                     !.next = n, !.stream = None]
        BY <1>2, <2>3 DEF Notify
      <4>. QED BY <1>0, <4>1
    <3>2. Kept(r, n)
      BY <1>0, <2>1, <2>3 DEF UploadInv
    <3>3. "wiped" \notin past'[r] => 0..(n - 1) \subseteq store'[r]
      BY <1>0, <2>1, <3>2, KeptStays
    <3>. HIDE DEF n
    <3>. QED BY <2>2, <3>1, <3>3 DEF CliInv, Kept
  <2>4. CASE ~ok
    <3>1. cli'[r] = [cli[r] EXCEPT !.phase = "stopped", !.stream = None]
      BY <1>2, <2>4 DEF Notify
    <3>2. /\ cli'[r].phase = "stopped" /\ cli'[r].stream = None
          /\ cli'[r].next = cli[r].next
      BY <1>0, <3>1
    <3>3. "wiped" \notin past'[r] => 0..(cli[r].next - 1) \subseteq store'[r]
      BY <1>0, <2>1, KeptStays
    <3>. QED BY <2>2, <3>2, <3>3 DEF CliInv, Kept
  <2>. QED BY <2>3, <2>4
<1>. QED BY <1>1, <1>2

LEMMA DeliveryStepClis ==
  ASSUME DInv, Grows, [DeliveryNext]_allVars, NEW r \in Singles
  PROVE  CliInv(r)'
<1>. DEFINE CliType == [phase : {"idle", "ready", "waiting", "sent", "stopped"},
                        next : 0..TotalChunks, stream : Streams \cup {None},
                        total : {0, TotalChunks}]
<1>0. /\ CliInv(r) /\ r \in Rows /\ cli \in [Singles -> CliType]
      /\ stream \in [Streams -> StreamType]
      /\ (Exists(r) => Exists(r)')
  BY DEF DInv, DeliveryTypeOK, IInv, TypeOK, Rows, Grows
<1>1. ASSUME NEW q \in Singles, CliInitiate(q) PROVE CliInv(r)'
  <2>1. CASE q # r
    BY <1>0, <1>1, <2>1, CliFrame DEF CliInitiate, InitiateTransfer, CliInv
  <2>2. CASE q = r
    <3>1. /\ cli'[r].next = 0 /\ cli'[r].stream = None
          /\ cli'[r].phase = "ready" \/ (cli'[r].phase = "sent" /\ cli'[r].total = 0)
      BY <1>0, <1>1, <2>2 DEF CliInitiate, CliInv
    <3>2. Exists(r)'
      BY <1>0, <1>1, <2>2 DEF CliInitiate, InitiateTransfer, Exists, DInv, IInv, TypeOK
    <3>. QED BY <3>1, <3>2 DEF CliInv, Kept
  <2>. QED BY <2>1, <2>2
<1>2. ASSUME NEW q \in Singles, NEW t \in Streams, CliPost(q, t) PROVE CliInv(r)'
  <2>1. /\ stream[t].phase = "idle" /\ \A s \in Streams \ {t} : stream'[s] = stream[s]
        /\ cli' = [cli EXCEPT ![q].phase = "waiting", ![q].stream = t]
    BY <1>0, <1>2 DEF CliPost, OpenTransfer, Open
  <2>2. CASE q # r
    <3>1. cli'[r] = cli[r]
      BY <1>0, <2>1, <2>2
    <3>2. cli[r].stream # None => cli[r].stream \in Streams \ {t}
      BY <1>0, <2>1 DEF CliInv
    <3>. QED BY <1>0, <2>1, <3>1, <3>2, CliFrame DEF CliInv
  <2>3. CASE q = r
    <3>1. /\ cli'[r].phase = "waiting" /\ cli'[r].next = cli[r].next
          /\ cli'[r].stream = t /\ cli'[r].total = cli[r].total
      BY <1>0, <2>1, <2>3
    <3>2. /\ stream'[t].phase = "accepting" /\ stream'[t].storage = r
          /\ stream'[t].chunk = cli[r].next
      <4>1. StorageOf(r) = r
        BY <1>0 DEF DInv, StorageOf
      <4>. QED BY <1>0, <1>2, <2>3, <4>1 DEF CliPost, OpenTransfer, Open
    <3>3. cli[r].phase = "ready" /\ cli[r].next < cli[r].total
      BY <1>2, <2>3 DEF CliPost
    <3>4. "wiped" \notin past'[r] => 0..(cli[r].next - 1) \subseteq store'[r]
      BY <1>0, <3>3, KeptStays DEF CliInv
    <3>. QED BY <1>0, <3>1, <3>2, <3>3, <3>4 DEF CliInv, Kept
  <2>. QED BY <2>2, <2>3
<1>3. ASSUME NEW q \in Singles, CliStops(q) PROVE CliInv(r)'
  <2>1. CASE q # r
    BY <1>0, <1>3, <2>1, CliFrame DEF CliStops, vars, CliInv
  <2>2. CASE q = r
    <3>1. /\ cli'[r].phase = "stopped" /\ cli'[r].next = cli[r].next /\ cli'[r].stream = None
          /\ cli[r].phase # "idle"
      BY <1>0, <1>3, <2>2 DEF CliStops
    <3>2. "wiped" \notin past'[r] => 0..(cli[r].next - 1) \subseteq store'[r]
      BY <1>0, <3>1, KeptStays DEF CliInv
    <3>. QED BY <1>0, <3>1, <3>2 DEF CliInv, Kept
  <2>. QED BY <2>1, <2>2
<1>4. ASSUME NEW t \in Streams, GatewayCloses(t) PROVE CliInv(r)'
  <2>1. CASE stream'[t].phase = "idle"
    BY <1>0, <1>4, <2>1, NotifyClis DEF GatewayCloses, EndOfStream
  <2>2. CASE stream'[t].phase # "idle"
    <3>1. /\ cli' = cli /\ \A s \in Streams \ {t} : stream'[s] = stream[s]
          /\ stream'[t] = [stream[t] EXCEPT !.phase = "completing", !.todo = stream[t].rows]
      BY <1>0, <1>4, <2>2 DEF GatewayCloses, EndOfStream, IdleStream
    <3>2. stream'[t].storage = stream[t].storage /\ stream'[t].chunk = stream[t].chunk
      BY <1>0, <3>1 DEF StreamType
    <3>3. /\ cli'[r] = cli[r]
          /\ cli[r].stream # None =>
               /\ cli[r].stream \in Streams
               /\ stream[cli[r].stream].phase # "idle"
      BY <1>0, <3>1 DEF CliInv
    <3>4. CASE cli[r].stream = t
      BY <2>2, <3>2, <3>3, <3>4, CliFrame
    <3>5. CASE cli[r].stream # t
      <4>1. cli[r].stream # None => stream'[cli[r].stream] = stream[cli[r].stream]
        BY <3>1, <3>3, <3>5
      <4>. QED BY <3>3, <4>1, CliFrame
    <3>. QED BY <3>4, <3>5
  <2>. QED BY <2>1, <2>2
<1>5. ASSUME NEW t \in Streams, UploadCompletes(t) PROVE CliInv(r)'
  BY <1>0, <1>5, NotifyClis DEF UploadCompletes, AnswerCompleted
<1>6. ASSUME NEW t \in Streams, UploadFails(t) PROVE CliInv(r)'
  BY <1>0, <1>6, NotifyClis DEF UploadFails, AbortStream, Receiving
<1>7. ASSUME NEW t \in Streams, ServeUpload(t) PROVE CliInv(r)'
  <2>1. /\ cli' = cli /\ stream[t].phase # "idle"
        /\ \A s \in Streams : /\ stream[s].phase # "idle" => stream'[s].phase # "idle"
                              /\ stream'[s].storage = stream[s].storage
                              /\ stream'[s].chunk = stream[s].chunk
    <3>1. cli' = cli /\ stream[t].phase # "idle"
      BY <1>7 DEF ServeUpload, SaveChunk, MarkInProgress, RecordProgress, MarkCompleted
    <3>2. CASE SaveChunk(t)
      <4>1. stream' = [stream EXCEPT ![t].phase = "recording", ![t].todo = stream[t].rows,
                                     ![t].received = stream[t].chunk + 1]
        BY <3>2 DEF SaveChunk
      <4>. QED BY <1>0, <3>1, <4>1 DEF StreamType
    <3>3. ASSUME NEW q \in Rows,
                 MarkInProgress(t, q) \/ RecordProgress(t, q) \/ MarkCompleted(t, q)
          PROVE  \A s \in Streams : /\ stream'[s].phase = stream[s].phase
                                    /\ stream'[s].storage = stream[s].storage
                                    /\ stream'[s].chunk = stream[s].chunk
      <4>1. stream' = [stream EXCEPT ![t].todo = @ \ {q}]
        BY <3>3 DEF MarkInProgress, RecordProgress, MarkCompleted
      <4>. QED BY <1>0, <4>1 DEF StreamType
    <3>. QED BY <1>7, <3>1, <3>2, <3>3 DEF ServeUpload
  <2>. QED BY <1>0, <2>1, CliFrame DEF CliInv
<1>8. CASE DeliveryRestart
  <2>1. CASE cli[r].phase # "waiting"
    BY <1>0, <1>8, <2>1, CliFrame DEF DeliveryRestart, CliInv
  <2>2. CASE cli[r].phase = "waiting"
    <3>1. cli'[r].phase = "stopped" /\ cli'[r].next = cli[r].next /\ cli'[r].stream = None
      BY <1>0, <1>8, <2>2 DEF DeliveryRestart
    <3>2. "wiped" \notin past'[r] => 0..(cli[r].next - 1) \subseteq store'[r]
      BY <1>0, <2>2, KeptStays DEF CliInv
    <3>. QED BY <1>0, <2>2, <3>1, <3>2 DEF CliInv, Kept
  <2>. QED BY <2>1, <2>2
<1>9. CASE UNCHANGED <<cli, stream>>
  BY <1>0, <1>9, CliFrame DEF CliInv
<1>. QED
  BY <1>1, <1>2, <1>3, <1>4, <1>5, <1>6, <1>7, <1>8, <1>9
  DEF DeliveryNext, LoadChunk, DownloadFails, ReceiveChunks, Others, StartCall,
      PauseTransfer, ResumeTransfer, CancelTransfer, RespondToTransfer, ConfirmP2PTransfer,
      Decide, ServeCall, WriteStatus, WriteCancelled, WriteConfirmed, WriteFails,
      DeleteChunks, allVars, vars

(* A download of a trusted row meets a missing chunk only if it was wiped. *)
LEMMA DeliveryStepDownloads ==
  ASSUME DInv, Grows, [DeliveryNext]_allVars, NEW d \in Downloads
  PROVE  DownloadInv(d)'
<1>. DEFINE r == download[d].row
<1>0. /\ download \in [Downloads -> DownloadType \cup {NoDownload}]
      /\ DownloadInv(d) /\ \A q \in Rows : StorageOf(q) = q
  BY DEF DInv, DeliveryTypeOK, StorageOf
<1>1. CASE download'[d] = download[d] /\ download[d].phase # "idle"
  <2>1. download[d] \in DownloadType /\ r \in Rows /\ Exists(r)
    BY <1>0, <1>1 DEF NoDownload, DownloadType, DownloadInv
  <2>2. row'[r].status # "ABSENT" /\ past[r] \subseteq past'[r]
    BY <2>1 DEF Grows, Exists
  <2>3. download[d].trusted =>
          ("wiped" \notin past'[r] => 0..(TotalChunks - 1) \subseteq store'[r])
    BY <1>0, <1>1, <2>1, KeptStays DEF DownloadInv
  <2>4. "wiped" \notin past'[r] => 0..(download[d].next - 1) \subseteq store'[r]
    BY <1>0, <1>1, <2>1, KeptStays DEF DownloadInv
  <2>. QED BY <1>0, <1>1, <2>2, <2>3, <2>4 DEF DownloadInv, Exists, Kept
<1>2. CASE download'[d].phase = "idle"
  BY <1>2 DEF DownloadInv
<1>3. CASE download'[d] = download[d]
  BY <1>1, <1>2, <1>3
<1>4. ASSUME NEW e \in Downloads, NEW q \in Rows, ReceiveChunks(e, q) PROVE DownloadInv(d)'
  <2>1. CASE e # d
    BY <1>0, <1>3, <1>4, <2>1 DEF ReceiveChunks
  <2>2. CASE e = d
    <3>1. /\ download'[d] = [phase |-> "reading", row |-> q, next |-> 0, trusted |-> Trusted(q)]
          /\ Exists(q) /\ UNCHANGED vars
      BY <1>0, <1>4, <2>2 DEF ReceiveChunks
    <3>2. Trusted(q) => Kept(q, TotalChunks)
      BY DEF Trusted, DInv, Whole
    <3>. QED BY <3>1, <3>2, TransferConstants DEF DownloadInv, Exists, Kept, vars
  <2>. QED BY <2>1, <2>2
<1>5. ASSUME NEW e \in Downloads, LoadChunk(e) PROVE DownloadInv(d)'
  <2>1. CASE e # d
    BY <1>0, <1>3, <1>5, <2>1 DEF LoadChunk
  <2>2. CASE e = d
    <3>1. /\ download[d] \in DownloadType /\ download[d].next < TotalChunks
          /\ r \in Rows /\ Exists(r) /\ UNCHANGED vars
      BY <1>0, <1>5, <2>2 DEF LoadChunk, NoDownload, DownloadType, DownloadInv
    <3>2. CASE download[d].next \notin store[r]
      <4>1. download'[d] = [download[d] EXCEPT !.phase = "missing"]
        BY <1>0, <1>5, <2>2, <3>1, <3>2 DEF LoadChunk
      <4>2. /\ download'[d].phase = "missing" /\ download'[d].row = r
            /\ download'[d].trusted = download[d].trusted
            /\ download'[d].next = download[d].next
        BY <3>1, <4>1 DEF DownloadType
      <4>3. download[d].trusted => "wiped" \in past[r]
        <5>1. download[d].next \in 0..(TotalChunks - 1)
          BY <3>1, TransferConstants DEF DownloadType
        <5>2. download[d].trusted => Kept(r, TotalChunks)
          BY <1>0, <1>5, <2>2 DEF LoadChunk, DownloadInv
        <5>. QED BY <3>2, <5>1, <5>2 DEF Kept
      <4>. QED BY <1>0, <1>5, <2>2, <3>1, <4>2, <4>3 DEF LoadChunk, DownloadInv, Exists, Kept, vars
    <3>3. CASE download[d].next \in store[r]
      <4>. DEFINE n == download[d].next
      <4>1. download'[d] = [download[d] EXCEPT !.next = n + 1,
                              !.phase = IF n + 1 = TotalChunks THEN "ok" ELSE "reading"]
        BY <1>0, <1>5, <2>2, <3>1, <3>3 DEF LoadChunk
      <4>2. /\ download'[d].phase = (IF n + 1 = TotalChunks THEN "ok" ELSE "reading")
            /\ download'[d].row = r /\ download'[d].next = n + 1 /\ n \in 0..TotalChunks
            /\ download'[d].trusted = download[d].trusted
        BY <3>1, <4>1 DEF DownloadType
      <4>. HIDE DEF n
      <4>3. download'[d].phase = "reading" => download'[d].next < TotalChunks
        BY <3>1, <4>2, TransferConstants DEF n
      <4>4. Kept(r, n) /\ n \in store[r]
        BY <1>0, <1>5, <2>2, <3>3 DEF LoadChunk, DownloadInv, n
      <4>5. Kept(r, n + 1)
        BY <4>2, <4>4, TransferConstants DEF Kept
      <4>6. download'[d].phase = "ok" => download'[d].next = TotalChunks
        BY <4>2
      <4>. QED BY <1>0, <1>5, <2>2, <3>1, <4>2, <4>3, <4>5, <4>6
               DEF LoadChunk, DownloadInv, Exists, Kept, vars
    <3>. QED BY <3>2, <3>3
  <2>. QED BY <2>1, <2>2
<1>6. CASE DeliveryRestart
  BY <1>2, <1>6 DEF DeliveryRestart, NoDownload
<1>7. ASSUME NEW e \in Downloads, DownloadFails(e) PROVE DownloadInv(d)'
  <2>1. CASE e # d
    BY <1>0, <1>3, <1>7, <2>1 DEF DownloadFails
  <2>2. CASE e = d
    <3>1. /\ download'[d].phase = "failed" /\ download'[d].row = r
          /\ download'[d].next = download[d].next
          /\ download'[d].trusted = download[d].trusted
          /\ r \in Rows /\ UNCHANGED vars /\ download[d].phase = "reading"
      BY <1>0, <1>7, <2>2 DEF DownloadFails, NoDownload, DownloadType
    <3>. QED BY <1>0, <3>1 DEF DownloadInv, Exists, Kept, vars
  <2>. QED BY <2>1, <2>2
<1>. QED
  BY <1>3, <1>4, <1>5, <1>6, <1>7
  DEF DeliveryNext, CliInitiate, CliPost, CliStops, ServeUpload, GatewayCloses,
      UploadCompletes, UploadFails, Others, allVars

LEMMA DeliveryStepInv ==
  ASSUME DInv, [DeliveryNext]_allVars
  PROVE  DInv'
<1>1. IInv /\ DeliveryTypeOK
  BY DEF DInv
<1>2. [Next]_vars
  BY <1>1, DeliveryIsTransfer
<1>3. IInv' /\ Grows
  BY <1>1, <1>2, StepIInv, StepGrows
<1>4. DeliveryTypeOK'
  BY DeliveryStepType
<1>5. \A r \in Rows : row'[r].group = None /\ Whole(r)'
  BY <1>3, DeliveryStepRows
<1>6. \A s \in Streams : UploadInv(s)'
  BY <1>3, DeliveryStepStreams
<1>7. \A r \in Singles : CliInv(r)'
  BY <1>3, DeliveryStepClis
<1>8. \A d \in Downloads : DownloadInv(d)'
  BY <1>3, DeliveryStepDownloads
<1>. QED BY <1>3, <1>4, <1>5, <1>6, <1>7, <1>8 DEF DInv

(* However the clients, the receivers' answers, lost writes and restarts   *)
(* interleave, the invariant of the delivery holds.                        *)
THEOREM DeliveryInvariant == DeliverySpec => []DInv
<1>. QED BY DeliveryInitInv, DeliveryStepInv, PTL DEF DeliverySpec

(* The variables of the commands and downloads keep their types.           *)
THEOREM DeliveryTypesCorrect == DeliverySpec => []DeliveryTypeOK
<1>1. DInv => DeliveryTypeOK
  BY DEF DInv
<1>. QED BY <1>1, DeliveryInvariant, PTL

(* A send command that printed "file sent" (cmdSend) has every chunk of    *)
(* the count it read in the chunk store, unless CancelTransfer deleted     *)
(* them: all of the file, unless the answer with the count was misread.    *)
THEOREM SentFilesAreStored == DeliverySpec => []SentMeansStored
<1>1. DInv => SentMeansStored
  BY DEF DInv, CliInv, Kept, SentMeansStored
<1>. QED BY <1>1, DeliveryInvariant, PTL

(* With the clients of this repository, which post the chunks in order, a  *)
(* row SendChunk completed has all its chunks: "Complete if all chunks     *)
(* received" holds here, though not for every client of the service.       *)
THEOREM OrderedUploadsComplete == DeliverySpec => []CompletedHasAllChunks
<1>1. DInv => CompletedHasAllChunks
  BY DEF DInv, Whole, Kept, StorageOf, CompletedHasAllChunks
<1>. QED BY <1>1, DeliveryInvariant, PTL

(* ReceiveChunks, which trusts the row it read, never meets a missing      *)
(* chunk of a row completed by uploads, unless it is cancelled under it.   *)
THEOREM TrustedDownloadsAreWhole == DeliverySpec => []TrustedDownloadsMissNothing
<1>1. DInv => TrustedDownloadsMissNothing
  BY DEF DInv, DownloadInv, TrustedDownloadsMissNothing
<1>. QED BY <1>1, DeliveryInvariant, PTL

-----------------------------------------------------------------------------
(* Delivery implements the file drop *)

(* What a part of the users' view depends on.                              *)
LEMMA ViewDepends ==
  /\ UNCHANGED store => UNCHANGED WholeFiles
  /\ UNCHANGED past => UNCHANGED WipedFiles
  /\ UNCHANGED cli => UNCHANGED SentFiles
  /\ UNCHANGED <<row, past>> => UNCHANGED CompletedFiles
  /\ UNCHANGED download => UNCHANGED Fetched
BY DEF WholeFiles, HasAll, WipedFiles, SentFiles, Told, CompletedFiles, Fetched

(* A row that is written with another status, or by a confirmation, is not *)
(* completed; one completed by its stream is.                              *)
LEMMA RowWritten ==
  ASSUME TypeOK, NEW q \in Rows, \A r \in Rows \ {q} : row'[r] = row[r] /\ past'[r] = past[r],
         past'[q] \subseteq past[q] \cup {"released", "confirmed"}, past[q] \subseteq past'[q]
  PROVE  /\ UNCHANGED WipedFiles
         /\ row'[q].status # "COMPLETED" \/ "confirmed" \in past'[q] =>
              CompletedFiles' = CompletedFiles \ {q}
         /\ row'[q].status = "COMPLETED" /\ "confirmed" \notin past'[q] =>
              CompletedFiles' = CompletedFiles \cup {q}
<1>1. \A r \in Rows : "wiped" \in past'[r] <=> "wiped" \in past[r]
  OBVIOUS
<1>2. WipedFiles' = WipedFiles
  BY <1>1 DEF WipedFiles
<1>3. ASSUME row'[q].status # "COMPLETED" \/ "confirmed" \in past'[q]
      PROVE  CompletedFiles' = CompletedFiles \ {q}
  BY <1>3 DEF CompletedFiles
<1>4. ASSUME row'[q].status = "COMPLETED" /\ "confirmed" \notin past'[q]
      PROVE  CompletedFiles' = CompletedFiles \cup {q}
  BY <1>4 DEF CompletedFiles
<1>. QED BY <1>2, <1>3, <1>4

(* Of one directory filled, its file alone may become whole.               *)
LEMMA OneTurnsWhole ==
  ASSUME NEW x \in Rows, \A r \in Rows \ {x} : HasAll(r)' <=> HasAll(r),
         HasAll(x) => HasAll(x)'
  PROVE  WholeFiles' = WholeFiles \/ WholeFiles' = WholeFiles \cup {x}
<1>1. /\ WholeFiles = {r \in Rows : HasAll(r)}
      /\ WholeFiles' = {r \in Rows : HasAll(r)'}
  BY DEF WholeFiles
<1>2. CASE HasAll(x)
  <2>1. \A r \in Rows : HasAll(r)' <=> HasAll(r)
    BY <1>2
  <2>. QED BY <1>1, <2>1
<1>3. CASE ~HasAll(x) /\ HasAll(x)'
  <2>1. \A r \in Rows : HasAll(r)' <=> HasAll(r) \/ r = x
    BY <1>3
  <2>. QED BY <1>1, <2>1
<1>4. CASE ~HasAll(x) /\ ~HasAll(x)'
  <2>1. \A r \in Rows : HasAll(r)' <=> HasAll(r)
    BY <1>4
  <2>. QED BY <1>1, <2>1
<1>. QED BY <1>2, <1>3, <1>4

(* The handlers of a stream: a chunk may make its file whole, a write may  *)
(* complete it or take that back.                                          *)
LEMMA ServeDrops ==
  ASSUME DInv, DInv', NEW s \in Streams, ServeUpload(s)
  PROVE  Drop!DropNext \/ UNCHANGED Drop!dropVars
<1>. USE DEF ServeUpload
<1>0. UNCHANGED <<SentFiles, Fetched>> /\ TypeOK /\ TypeOK'
  BY ViewDepends DEF DInv, IInv
<1>1. CASE SaveChunk(s)
  <2>1. PICK x \in Rows : /\ store' = [store EXCEPT ![x] = @ \cup {stream[s].chunk}]
                          /\ UNCHANGED <<row, past>>
    BY <1>1 DEF SaveChunk, DInv, UploadInv, Rows
  <2>2. /\ \A r \in Rows \ {x} : HasAll(r)' <=> HasAll(r)
        /\ HasAll(x) => HasAll(x)'
    <3>1. store \in [Storage -> SUBSET Indices] /\ Rows \subseteq Storage
      BY <1>0 DEF TypeOK, Storage
    <3>2. /\ \A r \in Rows \ {x} : store'[r] = store[r]
          /\ store[x] \subseteq store'[x]
      BY <2>1, <3>1
    <3>. QED BY <3>2 DEF HasAll
  <2>3. WholeFiles' = WholeFiles \/ WholeFiles' = WholeFiles \cup {x}
    BY <2>1, <2>2, OneTurnsWhole
  <2>4. UNCHANGED <<WipedFiles, CompletedFiles>>
    BY <2>1, ViewDepends
  <2>. QED BY <1>0, <2>1, <2>3, <2>4 DEF Drop!DropNext, Drop!Fill, Drop!dropVars
<1>2. ASSUME NEW r \in Rows, MarkInProgress(s, r)
      PROVE  Drop!Reopen(r) \/ UNCHANGED Drop!dropVars
  <2>1. UNCHANGED WholeFiles
    BY <1>2, ViewDepends DEF MarkInProgress
  <2>2. CASE SetStatus(r, "IN_PROGRESS")
    <3>1. /\ \A q \in Rows \ {r} : row'[q] = row[q] /\ past'[q] = past[q]
          /\ row'[r].status = "IN_PROGRESS"
          /\ past'[r] = past[r] \cup {"released"}
      BY <1>0, <2>2 DEF SetStatus, TypeOK, RowType
    <3>. QED BY <1>0, <2>1, <3>1, RowWritten DEF Drop!Reopen
  <2>3. CASE WriteLost
    BY <1>0, <2>1, <2>3, ViewDepends DEF WriteLost, Drop!dropVars
  <2>. QED BY <1>2, <2>2, <2>3 DEF MarkInProgress
<1>3. ASSUME NEW r \in Rows, RecordProgress(s, r)
      PROVE  UNCHANGED Drop!dropVars
  <2>1. UNCHANGED <<WholeFiles, WipedFiles>> /\ past' = past
    BY <1>3, ViewDepends DEF RecordProgress
  <2>2. \A q \in Rows : row'[q].status = row[q].status
    BY <1>0, <1>3 DEF RecordProgress, TypeOK, RowType
  <2>3. UNCHANGED CompletedFiles
    BY <2>1, <2>2 DEF CompletedFiles
  <2>. QED BY <1>0, <2>1, <2>3 DEF Drop!dropVars
<1>4. ASSUME NEW r \in Rows, MarkCompleted(s, r)
      PROVE  Drop!Complete(r) \/ Drop!Reopen(r) \/ UNCHANGED Drop!dropVars
  <2>1. UNCHANGED WholeFiles /\ UNCHANGED store
    BY <1>4, ViewDepends DEF MarkCompleted
  <2>2. CASE WriteLost
    BY <1>0, <2>1, <2>2, ViewDepends DEF WriteLost, Drop!dropVars
  <2>3. CASE ~WriteLost
    <3>1. /\ \A q \in Rows \ {r} : row'[q] = row[q] /\ past'[q] = past[q]
          /\ row'[r].status = "COMPLETED"
          /\ past'[r] = past[r] \cup {"released"}
      <4>1. /\ row' = [row EXCEPT ![r] = [@ EXCEPT !.status = "COMPLETED", !.done = TotalChunks]]
            /\ past' = [past EXCEPT ![r] = @ \cup {"released"}]
        BY <1>4, <2>3 DEF MarkCompleted
      <4>2. row[r] \in RowType /\ row'[r] = [row[r] EXCEPT !.status = "COMPLETED", !.done = TotalChunks]
        BY <1>0, <4>1 DEF TypeOK
      <4>3. row'[r].status = "COMPLETED"
        BY <4>2 DEF RowType
      <4>. QED BY <1>0, <4>1, <4>3 DEF TypeOK
    <3>2. UNCHANGED WipedFiles
      BY <1>0, <3>1, RowWritten
    <3>3. CASE "confirmed" \in past'[r]
      BY <1>0, <2>1, <3>1, <3>2, <3>3, RowWritten DEF Drop!Reopen
    <3>4. CASE "confirmed" \notin past'[r]
      <4>1. r \in WholeFiles' \cup WipedFiles'
        BY <3>1, <3>4 DEF DInv, Whole, Kept, WholeFiles, WipedFiles, HasAll
      <4>. QED BY <1>0, <2>1, <3>1, <3>2, <3>4, <4>1, RowWritten DEF Drop!Complete
    <3>. QED BY <3>3, <3>4
  <2>. QED BY <2>2, <2>3
<1>. QED BY <1>1, <1>2, <1>3, <1>4 DEF Drop!DropNext

(* Of the commands that take an answer, only the one the stream served can *)
(* be told that its file is sent, and it is whole or wiped.                *)
LEMMA NotifyDrops ==
  ASSUME DInv, DInv', NEW s \in Streams, NEW ok \in BOOLEAN, Notify(s, ok),
         stream[s].phase # "idle", UNCHANGED <<row, store, past, download>>
  PROVE  Drop!DropNext \/ UNCHANGED Drop!dropVars
<1>0. UNCHANGED <<WholeFiles, WipedFiles, CompletedFiles, Fetched>>
  BY ViewDepends
<1>1. PICK x \in Singles : x = stream[s].storage
  BY DEF DInv, UploadInv
<1>2. ASSUME NEW r \in Singles, r # x \/ cli[r].phase = "sent" PROVE cli'[r] = cli[r]
  <2>1. CliInv(r) /\ s # None
    BY DeliveryConstants DEF DInv
  <2>2. cli[r].stream # s
    BY <1>1, <1>2, <2>1 DEF CliInv
  <2>. QED BY <2>2 DEF Notify
<1>3. Told(x) => Told(x)' /\ cli'[x] = cli[x]
  BY <1>2 DEF Told
<1>4. \/ SentFiles' = SentFiles
      \/ SentFiles' = SentFiles \cup {x} /\ Told(x)'
  <2>0. \A r \in Singles \ {x} : Told(r)' <=> Told(r)
    BY <1>2 DEF Told
  <2>1. CASE Told(x)'
    BY <1>1, <2>0, <2>1 DEF SentFiles
  <2>2. CASE ~Told(x)'
    <3>1. \A r \in Singles : Told(r)' <=> Told(r)
      BY <1>3, <2>0, <2>2
    <3>. QED BY <3>1 DEF SentFiles
  <2>. QED BY <2>1, <2>2
<1>5. Told(x)' => x \in WholeFiles \cup WipedFiles
  <2>1. Told(x)' => Kept(x, TotalChunks)'
    BY DEF DInv, CliInv, Told, Kept
  <2>. QED BY <2>1 DEF Kept, WholeFiles, WipedFiles, HasAll, Rows
<1>. QED
  BY <1>0, <1>1, <1>4, <1>5 DEF Drop!DropNext, Drop!Report, Drop!dropVars, Rows

(* The write of a unary handler never completes a file, and a deletion     *)
(* wipes one.                                                              *)
LEMMA CallDrops ==
  ASSUME DInv, NEW c \in Calls, ServeCall(c), UNCHANGED <<cli, download>>
  PROVE  Drop!DropNext \/ UNCHANGED Drop!dropVars
<1>0. UNCHANGED <<SentFiles, Fetched>> /\ TypeOK /\ CallInv(c)
  BY ViewDepends DEF DInv, IInv
<1>1. /\ call[c] \in CallType
  BY <1>0 DEF ServeCall, WriteStatus, WriteCancelled, WriteConfirmed, WriteFails, DeleteChunks,
              TypeOK, IdleCall
<1>2. PICK q \in Rows : q = call[c].row
  BY <1>1 DEF CallType
<1>3. row[q] \in RowType /\ past[q] \subseteq Event
  BY <1>0 DEF TypeOK
<1>4. ASSUME WriteStatus(c) \/ WriteCancelled(c)
      PROVE  Drop!Reopen(q)
  <2>1. call[c].status # "COMPLETED" /\ SetStatus(q, call[c].status) /\ store' = store
    BY <1>0, <1>2, <1>4 DEF WriteStatus, WriteCancelled, CallInv
  <2>2. /\ \A r \in Rows \ {q} : row'[r] = row[r] /\ past'[r] = past[r]
        /\ past'[q] \subseteq past[q] \cup {"released", "confirmed"} /\ past[q] \subseteq past'[q]
    BY <1>0, <2>1 DEF SetStatus, TypeOK
  <2>3. row'[q].status # "COMPLETED"
    BY <1>0, <1>3, <2>1 DEF SetStatus, TypeOK, RowType
  <2>4. UNCHANGED WholeFiles
    BY <2>1, ViewDepends
  <2>. QED BY <1>0, <2>2, <2>3, <2>4, RowWritten DEF Drop!Reopen
<1>5. ASSUME WriteConfirmed(c)
      PROVE  Drop!Reopen(q)
  <2>1. /\ \A r \in Rows \ {q} : row'[r] = row[r] /\ past'[r] = past[r]
        /\ past'[q] \subseteq past[q] \cup {"released", "confirmed"} /\ past[q] \subseteq past'[q]
        /\ "confirmed" \in past'[q] /\ store' = store
    BY <1>0, <1>2, <1>5 DEF WriteConfirmed, TypeOK
  <2>2. UNCHANGED WholeFiles
    BY <2>1, ViewDepends
  <2>. QED BY <1>0, <2>1, <2>2, RowWritten DEF Drop!Reopen
<1>6. ASSUME WriteFails(c)
      PROVE  UNCHANGED Drop!dropVars
  BY <1>0, <1>6, ViewDepends DEF WriteFails, Drop!dropVars
<1>7. ASSUME DeleteChunks(c)
      PROVE  Drop!Wipe(q)
  <2>1. /\ \A r \in Rows \ {q} : store'[r] = store[r] /\ past'[r] = past[r]
        /\ store'[q] \subseteq store[q]
        /\ past'[q] = past[q] \cup {"wiped"} /\ row' = row
    <3>1. StorageOf(q) = q
      BY DEF DInv, StorageOf
    <3>2. PICK kept \in SUBSET store[q] : store' = [store EXCEPT ![q] = kept]
      BY <1>2, <1>7 DEF DeleteChunks
    <3>3. past' = [past EXCEPT ![q] = @ \cup {"wiped"}]
      BY <1>2, <1>7, <3>1 DEF DeleteChunks
    <3>. QED BY <1>0, <1>7, <3>2, <3>3 DEF DeleteChunks, TypeOK, Storage
  <2>2. WipedFiles' = WipedFiles \cup {q}
    BY <2>1 DEF WipedFiles
  <2>3. UNCHANGED CompletedFiles
    BY <2>1 DEF CompletedFiles
  <2>4. WholeFiles' = WholeFiles \/ WholeFiles' = WholeFiles \ {q}
    <3>1. (\A r \in Rows \ {q} : HasAll(r)' <=> HasAll(r)) /\ (HasAll(q)' => HasAll(q))
      BY <2>1 DEF HasAll
    <3>2. /\ WholeFiles = {r \in Rows : HasAll(r)}
          /\ WholeFiles' = {r \in Rows : HasAll(r)'}
      BY DEF WholeFiles
    <3>3. CASE HasAll(q)'
      <4>1. \A r \in Rows : HasAll(r)' <=> HasAll(r)
        BY <3>1, <3>3
      <4>. QED BY <3>2, <4>1
    <3>4. CASE ~HasAll(q)'
      <4>1. \A r \in Rows : HasAll(r)' <=> HasAll(r) /\ r # q
        BY <3>1, <3>4
      <4>. QED BY <3>2, <4>1
    <3>. QED BY <3>3, <3>4
  <2>. QED BY <1>0, <2>2, <2>3, <2>4 DEF Drop!Wipe
<1>. QED BY <1>4, <1>5, <1>6, <1>7 DEF ServeCall, Drop!DropNext

(* A download ends well when it has read all chunks, misses one that is    *)
(* not there, and is cut off by any other error.                           *)
LEMMA DownloadDrops ==
  ASSUME DInv, NEW d \in Downloads,
         LoadChunk(d) \/ DownloadFails(d) \/ \E r \in Rows : ReceiveChunks(d, r)
  PROVE  Drop!DropNext \/ UNCHANGED Drop!dropVars
<1>0. /\ download \in [Downloads -> DownloadType \cup {NoDownload}] /\ DownloadInv(d)
      /\ \A q \in Rows : StorageOf(q) = q
  BY DEF DInv, DeliveryTypeOK, StorageOf
<1>1. UNCHANGED <<vars, cli>>
  BY DEF LoadChunk, DownloadFails, ReceiveChunks
<1>2. UNCHANGED <<WholeFiles, WipedFiles, SentFiles, CompletedFiles>>
  BY <1>1, ViewDepends DEF vars
<1>3. ASSUME NEW r \in Rows, ReceiveChunks(d, r) PROVE Drop!Begin(d, r)
  <2>1. /\ download'[d].phase = "reading" /\ download'[d].row = r
        /\ \A e \in Downloads \ {d} : download'[e] = download[e]
        /\ download[d].phase # "reading"
    BY <1>0, <1>3 DEF ReceiveChunks
  <2>2. Fetched' = [Fetched EXCEPT ![d] = [phase |-> "reading", file |-> r]]
    BY <2>1 DEF Fetched
  <2>3. Fetched[d].phase # "reading"
    BY <2>1 DEF Fetched
  <2>. QED BY <1>2, <2>2, <2>3 DEF Drop!Begin, Drop!Goes, Drop!FetchOf
<1>4. ASSUME LoadChunk(d)
      PROVE  \/ \E r \in Rows : Drop!EndWell(d, r) \/ Drop!MissSome(d, r)
             \/ UNCHANGED Drop!dropVars
  <2>1. /\ download[d] \in DownloadType /\ download[d].phase = "reading"
        /\ download[d].next < TotalChunks /\ Kept(download[d].row, download[d].next)
    BY <1>0, <1>4 DEF LoadChunk, DownloadInv, NoDownload
  <2>2. PICK r \in Rows, n \in 0..(TotalChunks - 1) : r = download[d].row /\ n = download[d].next
    BY <2>1, TransferConstants DEF DownloadType
  <2>3. Fetched[d] = [phase |-> "reading", file |-> r]
    BY <2>1, <2>2 DEF Fetched
  <2>4. \A e \in Downloads \ {d} : download'[e] = download[e]
    BY <1>0, <1>4 DEF LoadChunk
  <2>5. CASE n \notin store[r]
    <3>1. download'[d] = [download[d] EXCEPT !.phase = "missing"]
      BY <1>0, <1>4, <2>2, <2>5 DEF LoadChunk
    <3>2. download'[d].phase = "missing" /\ download'[d].row = r
      BY <2>1, <2>2, <3>1 DEF DownloadType
    <3>3. Fetched' = [Fetched EXCEPT ![d] = [phase |-> "missing", file |-> r]]
      BY <2>4, <3>2 DEF Fetched
    <3>4. r \notin WholeFiles
      BY <2>5 DEF WholeFiles, HasAll
    <3>. QED BY <1>2, <2>3, <3>3, <3>4 DEF Drop!MissSome, Drop!Goes, Drop!FetchOf
  <2>6. CASE n \in store[r]
    <3>1. download'[d] = [download[d] EXCEPT !.next = n + 1,
                            !.phase = IF n + 1 = TotalChunks THEN "ok" ELSE "reading"]
      BY <1>0, <1>4, <2>2, <2>6 DEF LoadChunk
    <3>2. /\ download'[d].phase = (IF n + 1 = TotalChunks THEN "ok" ELSE "reading")
          /\ download'[d].row = r
      BY <2>1, <2>2, <3>1 DEF DownloadType
    <3>3. CASE n + 1 = TotalChunks
      <4>1. Fetched' = [Fetched EXCEPT ![d] = [phase |-> "ok", file |-> r]]
        BY <2>4, <3>2, <3>3 DEF Fetched
      <4>2. r \in WholeFiles \cup WipedFiles
        BY <2>1, <2>2, <2>6, <3>3, TransferConstants DEF Kept, WholeFiles, WipedFiles, HasAll
      <4>. QED BY <1>2, <2>3, <4>1, <4>2 DEF Drop!EndWell, Drop!Goes, Drop!FetchOf
    <3>4. CASE n + 1 # TotalChunks
      <4>1. Fetched' = Fetched
        BY <2>1, <2>2, <2>4, <3>2, <3>4 DEF Fetched
      <4>. QED BY <1>2, <4>1 DEF Drop!dropVars
    <3>. QED BY <3>3, <3>4
  <2>. QED BY <2>5, <2>6
<1>5. ASSUME DownloadFails(d)
      PROVE  \E r \in Rows : Drop!CutOff(d, r)
  <2>1. PICK r \in Rows : /\ download[d].row = r /\ download[d].phase = "reading"
                         /\ download[d] \in DownloadType
    BY <1>0, <1>5 DEF DownloadFails, NoDownload, DownloadType
  <2>2. /\ download'[d].phase = "failed" /\ download'[d].row = r
        /\ \A e \in Downloads \ {d} : download'[e] = download[e]
    BY <1>0, <1>5, <2>1 DEF DownloadFails, DownloadType
  <2>3. Fetched[d] = [phase |-> "reading", file |-> r]
    BY <2>1 DEF Fetched
  <2>4. Fetched' = [Fetched EXCEPT ![d] = [phase |-> "failed", file |-> r]]
    BY <2>2 DEF Fetched
  <2>. QED BY <1>2, <2>3, <2>4 DEF Drop!CutOff, Drop!Goes, Drop!FetchOf
<1>. QED BY <1>3, <1>4, <1>5 DEF Drop!DropNext

(* Each step of a client, a handler or a call is one the users see, or one *)
(* they do not.                                                            *)
LEMMA DeliveryDrops ==
  ASSUME DInv, DInv', [DeliveryNext]_allVars
  PROVE  [Drop!DropNext]_(Drop!dropVars)
<1>1. ASSUME NEW r \in Singles, CliInitiate(r) PROVE UNCHANGED Drop!dropVars
  <2>1. /\ UNCHANGED <<store, past, download>>
        /\ row' = [row EXCEPT ![r] = [status |-> "AWAITING_APPROVAL", done |-> 0, group |-> None]]
        /\ row[r].status = "ABSENT"
        /\ cli[r].phase = "idle"
        /\ \A q \in Singles \ {r} : cli'[q] = cli[q]
        /\ cli'[r].phase = "ready" \/ cli'[r].total = 0
    BY <1>1 DEF CliInitiate, InitiateTransfer, Exists, DInv, DeliveryTypeOK
  <2>2. \A q \in Rows : row'[q].status = "COMPLETED" <=> row[q].status = "COMPLETED"
    BY <2>1 DEF DInv, IInv, TypeOK, Rows
  <2>3. \A q \in Singles : Told(q)' <=> Told(q)
    BY <2>1, TransferConstants DEF Told
  <2>4. UNCHANGED <<CompletedFiles, SentFiles>>
    BY <2>1, <2>2, <2>3 DEF CompletedFiles, SentFiles
  <2>. QED BY <2>1, <2>4, ViewDepends DEF Drop!dropVars
<1>2. ASSUME NEW r \in Singles, CliStops(r) \/ \E s \in Streams : CliPost(r, s)
      PROVE  UNCHANGED Drop!dropVars
  <2>1. /\ UNCHANGED <<row, store, past, download>>
        /\ cli[r].phase \in {"ready", "waiting"} /\ cli'[r].phase \in {"waiting", "stopped"}
        /\ \A q \in Singles \ {r} : cli'[q] = cli[q]
    BY <1>2 DEF CliStops, CliPost, OpenTransfer, Open, vars, DInv, DeliveryTypeOK
  <2>2. \A q \in Singles : Told(q)' <=> Told(q)
    BY <2>1 DEF Told
  <2>3. UNCHANGED SentFiles
    BY <2>2 DEF SentFiles
  <2>. QED BY <2>1, <2>3, ViewDepends DEF Drop!dropVars
<1>3. ASSUME NEW s \in Streams, GatewayCloses(s) \/ UploadCompletes(s) \/ UploadFails(s)
      PROVE  Drop!DropNext \/ UNCHANGED Drop!dropVars
  <2>1. UNCHANGED <<row, store, past, download>> /\ stream[s].phase # "idle"
    BY <1>3 DEF GatewayCloses, UploadCompletes, UploadFails, EndOfStream, AnswerCompleted,
                AbortStream, Receiving
  <2>2. (\E ok \in BOOLEAN : Notify(s, ok)) \/ UNCHANGED cli
    BY <1>3 DEF GatewayCloses, UploadCompletes, UploadFails
  <2>3. CASE UNCHANGED cli
    BY <2>1, <2>3, ViewDepends DEF Drop!dropVars
  <2>. QED BY <2>1, <2>2, <2>3, NotifyDrops
<1>4. CASE Others
  <2>1. ASSUME NEW c \in Calls, StartCall(c), UNCHANGED <<cli, download>>
        PROVE  UNCHANGED Drop!dropVars
    <3>1. UNCHANGED <<row, store, past>>
      BY <2>1 DEF StartCall, PauseTransfer, ResumeTransfer, CancelTransfer, RespondToTransfer,
                  ConfirmP2PTransfer, Decide
    <3>. QED BY <2>1, <3>1, ViewDepends DEF Drop!dropVars
  <2>. QED BY <1>4, <2>1, CallDrops DEF Others
<1>5. CASE DeliveryRestart
  <2>1. UNCHANGED <<row, store, past>>
    BY <1>5 DEF DeliveryRestart, Restart
  <2>2. \A r \in Singles : Told(r)' <=> Told(r)
    BY <1>5 DEF DeliveryRestart, DInv, DeliveryTypeOK, Told
  <2>3. UNCHANGED SentFiles
    BY <2>2 DEF SentFiles
  <2>4. Fetched' = [d \in Downloads |-> [phase |-> "idle"]]
    BY <1>5 DEF DeliveryRestart, Fetched, NoDownload
  <2>. QED
    BY <2>1, <2>3, <2>4, ViewDepends DEF Drop!DropNext, Drop!Crash, Drop!NoFetch
<1>6. CASE UNCHANGED allVars
  BY <1>6, ViewDepends DEF allVars, vars, Drop!dropVars
<1>. QED
  BY <1>1, <1>2, <1>3, <1>4, <1>5, <1>6, ServeDrops, DownloadDrops DEF DeliveryNext

(* From "vinctum send" to the last answer of ReceiveChunks the service is  *)
(* a file drop, for any number of chunks, transfers, handlers, calls and   *)
(* downloads (handler.go:178-530): a file completed by uploads, or sent by *)
(* a command that read its count, is whole or was wiped; a download ends   *)
(* well only on such a file, and misses a chunk of no whole one.  Any may  *)
(* be cut off by another error.                                            *)
THEOREM DeliveryImplementsDrop == DeliverySpec => FilesAreDropped
<1>1. DeliveryInit => Drop!DropInit
  <2>. SUFFICES ASSUME DeliveryInit PROVE Drop!DropInit
    OBVIOUS
  <2>1. \A r \in Rows : ~HasAll(r) /\ past[r] = {} /\ row[r].status = "ABSENT"
    <3>1. 0 \in 0..(TotalChunks - 1)
      BY TransferConstants
    <3>2. \A r \in Rows : store[r] = {} /\ past[r] = {} /\ row[r].status = "ABSENT"
      BY DEF DeliveryInit, Init, Storage, NoRow
    <3>. QED BY <3>1, <3>2 DEF HasAll
  <2>2. \A r \in Singles : cli[r].phase = "idle"
    BY DEF DeliveryInit
  <2>3. Fetched = [d \in Downloads |-> [phase |-> "idle"]]
    BY DEF DeliveryInit, Fetched, NoDownload
  <2>. QED
    BY <2>1, <2>2, <2>3
    DEF Drop!DropInit, Drop!NoFetch, WholeFiles, WipedFiles, SentFiles, Told, CompletedFiles
<1>2. DInv /\ DInv' /\ [DeliveryNext]_allVars => [Drop!DropNext]_(Drop!dropVars)
  BY DeliveryDrops
<1>. QED BY <1>1, <1>2, DeliveryInvariant, PTL DEF DeliverySpec, FilesAreDropped, Drop!DropSpec

(* The clients and what they call are the transfer service: what holds of  *)
(* every behaviour of the service holds of theirs.                         *)
THEOREM DeliveryImplementsTransfer == DeliverySpec => Spec
<1>1. DeliveryInit => Init
  BY DEF DeliveryInit
<1>2. DeliveryTypeOK /\ [DeliveryNext]_allVars => [Next]_vars
  BY DeliveryIsTransfer
<1>. QED BY <1>1, <1>2, DeliveryTypesCorrect, PTL DEF DeliverySpec, Spec

(* So do the service's guarantees: under the clients' calls no transfer    *)
(* holds a chunk before its approval, and no row runs ahead of its chunks. *)
THEOREM ClientsKeepTheService ==
  DeliverySpec => [](UnapprovedHoldsNothing /\ ProgressIsBacked) /\ GroupChunksKept
<1>. QED
  BY DeliveryImplementsTransfer, ApprovalComesFirst, RowsAreBacked, GroupsKeepTheirChunks, PTL
=============================================================================
