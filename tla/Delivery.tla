------------------------------ MODULE Delivery ------------------------------
(***************************************************************************)
(* A file's way through the transfer service when the clients of this      *)
(* repository use it: "vinctum send" initiates a transfer and posts chunk  *)
(* after chunk to the gateway, each post waiting for its answer and the    *)
(* first error ending the command; the gateway turns a post into a         *)
(* SendChunk stream of exactly one message; "vinctum receive" downloads    *)
(* through ReceiveChunks.  Receivers' answers, pauses, cancellations, P2P  *)
(* confirmations, lost database writes and restarts happen meanwhile.      *)
(***************************************************************************)
EXTENDS Transfer

CONSTANT Downloads   \* ReceiveChunks handlers that may run at the same time

ASSUME DeliveryConstants == None \notin Streams

VARIABLES
  cli,       \* the send command of each transfer
  download   \* what each ReceiveChunks handler holds, and how it ended

allVars == <<vars, cli, download>>

NoDownload == [phase |-> "idle"]

(* trusted: the row was COMPLETED by uploads and not wiped when it started. *)
(* "missing": it met a chunk that is not there; "failed": it met any other  *)
(* error.  (The handler answers Internal either way; the model keeps why.)  *)
DownloadType == [phase : {"reading", "ok", "missing", "failed"}, row : Rows,
                 next : 0..TotalChunks, trusted : BOOLEAN]

DeliveryTypeOK ==
  /\ TypeOK
  /\ cli \in [Singles -> [phase : {"idle", "ready", "waiting", "sent", "stopped"},
                          next : 0..TotalChunks, stream : Streams \cup {None},
                          total : {0, TotalChunks}]]
  /\ download \in [Downloads -> DownloadType \cup {NoDownload}]

DeliveryInit ==
  /\ Init
  /\ cli = [r \in Singles |-> [phase |-> "idle", next |-> 0, stream |-> None, total |-> 0]]
  /\ download = [d \in Downloads |-> NoDownload]

-----------------------------------------------------------------------------
(* cmdSend and handleUploadChunk *)

(* POST /api/v1/transfers, without auto_approve.  What goes wrong with its *)
(* answer is dropped: a body that breaks off or is no JSON (doJSON), and a *)
(* total that %v prints as 1e+06 (Atoi), make a file of 0 chunks, of which *)
(* none is left to post.                                                   *)
CliInitiate(r) ==
  /\ cli[r].phase = "idle"
  /\ InitiateTransfer(r, FALSE)
  /\ \E total \in {0, TotalChunks} :
       cli' = [cli EXCEPT ![r].phase = IF total = 0 THEN "sent" ELSE "ready",
                          ![r].total = total]
  /\ UNCHANGED download

(* POST /api/v1/chunks/{id}: one stream, one message. *)
CliPost(r, s) ==
  /\ cli[r].phase = "ready" /\ cli[r].next < cli[r].total
  /\ OpenTransfer(s, r, cli[r].next)
  /\ cli' = [cli EXCEPT ![r].phase = "waiting", ![r].stream = s]
  /\ UNCHANGED download

CliGoesOnAnyway(r) ==
  LET n == cli[r].next IN
  /\ cli[r].phase \in {"ready", "waiting"}
  /\ cli' = [cli EXCEPT ![r] = [@ EXCEPT !.phase = IF n + 1 < cli[r].total THEN "ready" ELSE "stopped",
                                         !.next = n + 1, !.stream = None]]
  /\ UNCHANGED <<vars, download>>

(* The post fails on the way, is refused, or its answer never comes: the   *)
(* command prints the error and returns, whatever the handler still does.  *)
CliStops(r) ==
  /\ cli[r].phase \in {"ready", "waiting"}
  /\ cli' = [cli EXCEPT ![r].phase = "stopped", ![r].stream = None]
  /\ UNCHANGED <<vars, download>>

(* cli after the handler s has ended: with its answer, or with an error. *)
Notify(s, ok) ==
  cli' = [r \in Singles |->
    IF cli[r].stream # s THEN cli[r]
    ELSE LET n == cli[r].next + 1 IN
         IF ok THEN [cli[r] EXCEPT !.phase = IF n = cli[r].total THEN "sent" ELSE "ready",
                                   !.next = n, !.stream = None]
         ELSE [cli[r] EXCEPT !.phase = "stopped", !.stream = None]]

(* CloseAndRecv: after its one message the gateway only closes the stream. *)
GatewayCloses(s) ==
  /\ EndOfStream(s)
  /\ IF stream'[s].phase = "idle" THEN Notify(s, TRUE) ELSE UNCHANGED cli
  /\ UNCHANGED download

UploadCompletes(s) == AnswerCompleted(s) /\ Notify(s, TRUE) /\ UNCHANGED download

UploadFails(s) == AbortStream(s) /\ Notify(s, FALSE) /\ UNCHANGED download

ServeUpload(s) ==
  /\ \/ SaveChunk(s)
     \/ \E r \in Rows : MarkInProgress(s, r) \/ RecordProgress(s, r) \/ MarkCompleted(s, r)
  /\ UNCHANGED <<cli, download>>

-----------------------------------------------------------------------------
(* ReceiveChunks *)

Trusted(r) == row[r].status = "COMPLETED" /\ past[r] \cap {"confirmed", "wiped"} = {}

(* The row is read once, for the directory and the total; neither its      *)
(* status nor its receiver is looked at.                                   *)
ReceiveChunks(d, r) ==
  /\ download[d].phase # "reading"
  /\ Exists(r)
  /\ download' = [download EXCEPT ![d] = [phase |-> "reading", row |-> r, next |-> 0,
                                          trusted |-> Trusted(r)]]
  /\ UNCHANGED <<vars, cli>>

LoadChunk_OneTooMany(d) ==
  LET n == download[d].next IN
  /\ download[d].phase = "reading"
  /\ download' = [download EXCEPT ![d] =
       IF n \notin store[StorageOf(download[d].row)] THEN [@ EXCEPT !.phase = "missing"]
       ELSE IF n = TotalChunks THEN [@ EXCEPT !.phase = "ok"]
       ELSE [@ EXCEPT !.next = n + 1]]
  /\ UNCHANGED <<vars, cli>>

(* LoadChunk and Send of the next index; a missing file ends the download  *)
(* with an error, the last index ends it well ...                          *)
LoadChunk(d) ==
  LET n == download[d].next IN
  /\ download[d].phase = "reading"
  /\ download' = [download EXCEPT ![d] =
       IF n \notin store[StorageOf(download[d].row)] THEN [@ EXCEPT !.phase = "missing"]
       ELSE [@ EXCEPT !.next = n + 1,
                      !.phase = IF n + 1 = TotalChunks THEN "ok" ELSE "reading"]]
  /\ UNCHANGED <<vars, cli>>

(* ... and it ends with an error at any index when the file is there but    *)
(* cannot be read, or when Send fails because the receiver is gone.        *)
DownloadFails(d) ==
  /\ download[d].phase = "reading"
  /\ download' = [download EXCEPT ![d].phase = "failed"]
  /\ UNCHANGED <<vars, cli>>

-----------------------------------------------------------------------------

DeliveryRestart ==
  /\ Restart
  /\ cli' = [r \in Singles |-> IF cli[r].phase = "waiting"
                               THEN [cli[r] EXCEPT !.phase = "stopped", !.stream = None]
                               ELSE cli[r]]
  /\ download' = [d \in Downloads |-> NoDownload]

Others == (\E c \in Calls : StartCall(c) \/ ServeCall(c)) /\ UNCHANGED <<cli, download>>

DeliveryNext ==
  \/ \E r \in Singles : \/ CliInitiate(r)
                        \/ \E s \in Streams : CliPost(r, s)
                        \/ CliStops(r)
  \/ \E s \in Streams : \/ ServeUpload(s)
                        \/ GatewayCloses(s)
                        \/ UploadCompletes(s)
                        \/ UploadFails(s)
  \/ \E d \in Downloads : \/ LoadChunk(d)
                          \/ DownloadFails(d)
                          \/ \E r \in Rows : ReceiveChunks(d, r)
  \/ Others
  \/ DeliveryRestart

DeliverySpec == DeliveryInit /\ [][DeliveryNext]_allVars

-----------------------------------------------------------------------------
(* Properties *)

(* When the send command prints "file sent", every chunk of the count it   *)
(* read is on disk unless a cancellation deleted the directory -- even if  *)
(* database writes of the handlers were lost, the row was paused or        *)
(* confirmed in between, or the service was restarted.  (A command that    *)
(* could not read the count prints the same over an empty directory.)      *)
SentMeansStored ==
  \A r \in Singles : cli[r].phase = "sent" /\ "wiped" \notin past[r] =>
    0..(cli[r].total - 1) \subseteq store[r]

(* A transfer that was COMPLETED by uploads has all a receiver reads: a    *)
(* download that starts on such a row never meets a missing chunk, unless  *)
(* the row is cancelled under it.  (ReceiveChunks trusts the row, not the  *)
(* store; it may still fail on a file that is there.)                      *)
TrustedDownloadsMissNothing ==
  \A d \in Downloads : download[d].phase = "missing" /\ download[d].trusted =>
    "wiped" \in past[download[d].row]

-----------------------------------------------------------------------------
(* What the users rely on *)

HasAll(r) == 0..(TotalChunks - 1) \subseteq store[r]

WholeFiles == {r \in Rows : HasAll(r)}
WipedFiles == {r \in Rows : "wiped" \in past[r]}
(* A command that misread the answer says "file sent" too, and is none of  *)
(* these: its user is told of a file that is not there.                    *)
Told(r)   == cli[r].phase = "sent" /\ cli[r].total = TotalChunks
SentFiles == {r \in Singles : Told(r)}

CompletedFiles == {r \in Rows : row[r].status = "COMPLETED" /\ "confirmed" \notin past[r]}

Fetched == [d \in Downloads |->
              IF download[d].phase = "idle" THEN [phase |-> "idle"]
              ELSE [phase |-> download[d].phase, file |-> download[d].row]]

Drop == INSTANCE FileDrop WITH
  Files <- Rows, Fetches <- Downloads,
  whole <- WholeFiles, wiped <- WipedFiles, sent <- SentFiles, completed <- CompletedFiles,
  fetch <- Fetched

(* Chunks, rows, handlers and calls make a file drop, from "vinctum send"  *)
(* to the last answer of ReceiveChunks, through stale writes, lost writes, *)
(* cancellations, failing reads and restarts: what was sent with its count *)
(* read right, or completed by uploads, was whole; a download ends well on *)
(* a whole file only, and misses a chunk of no whole one (handler.go:178-  *)
(* 530).  What the receiver sees of a failed download is not part of it:   *)
(* "vinctum receive" takes the gateway's error line for a last chunk.      *)
FilesAreDropped == Drop!DropSpec
=============================================================================
