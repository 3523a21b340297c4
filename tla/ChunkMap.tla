----------------------------- MODULE ChunkMap ------------------------------
(***************************************************************************)
(* What the handlers rely on in a chunk store: a map from transfer and     *)
(* index to whole chunks.  A save that is answered has its chunk in the    *)
(* map, a deletion that is answered has emptied the transfer, and a load   *)
(* or a list answers what the map holds.  An operation that is not         *)
(* answered, or answered with an error, may have been done in part, chunk  *)
(* by chunk.                                                               *)
(***************************************************************************)
CONSTANTS Dirs, Indices, Data, Absent, Nothing

VARIABLES
  chunks,  \* chunks[d][i]: the chunk, or Absent
  reply    \* the last answer that was no error

mapVars == <<chunks, reply>>

MapInit ==
  /\ chunks = [d \in Dirs |-> [i \in Indices |-> Absent]]
  /\ reply = Nothing

Put(d, i, v) == chunks' = [chunks EXCEPT ![d][i] = v] /\ UNCHANGED reply

Remove(d, i) == Put(d, i, Absent)

AnswerSave(d, i, v) ==
  /\ chunks[d][i] = v
  /\ reply' = [op |-> "save", dir |-> d, index |-> i, data |-> v]
  /\ UNCHANGED chunks

AnswerDelete(d) ==
  /\ \A i \in Indices : chunks[d][i] = Absent
  /\ reply' = [op |-> "delete", dir |-> d]
  /\ UNCHANGED chunks

AnswerLoad(d, i) ==
  /\ chunks[d][i] # Absent
  /\ reply' = [op |-> "load", dir |-> d, index |-> i, data |-> chunks[d][i]]
  /\ UNCHANGED chunks

AnswerList(d) ==
  /\ reply' = [op |-> "list", dir |-> d,
               found |-> {i \in Indices : chunks[d][i] # Absent}]
  /\ UNCHANGED chunks

MapNext ==
  \E d \in Dirs :
    \/ \E i \in Indices :
         \/ Remove(d, i)
         \/ AnswerLoad(d, i)
         \/ \E v \in Data : Put(d, i, v) \/ AnswerSave(d, i, v)
    \/ AnswerDelete(d)
    \/ AnswerList(d)

MapSpec == MapInit /\ [][MapNext]_mapVars
=============================================================================
