----------------------------- MODULE FileStore -----------------------------
(***************************************************************************)
(* The chunk store on the file system: SaveChunk writes a temporary file   *)
(* and renames it, DeleteTransfer removes a directory entry by entry.      *)
(* Both hold the write lock, loads and lists the read lock, so at most one *)
(* writer is at work and nobody reads meanwhile.  Any call of the file     *)
(* system may fail, and the process may die at any point and start again   *)
(* on the files it left.  A rename is taken to be atomic and what was      *)
(* written to outlive the process (not the machine: nothing is synced).    *)
(***************************************************************************)
CONSTANTS
  Dirs,     \* transfer directories
  Indices,  \* chunk indices
  Data,     \* contents of chunks
  Torn,     \* contents of a file written in part
  Absent,   \* no such file
  Nothing,  \* no answer so far
  Idle      \* nobody holds the write lock

ASSUME StoreConstants ==
  /\ Torn \notin Data
  /\ Absent \notin Data
  /\ Absent # Torn
  /\ Idle \notin [op : {"save"}, dir : Dirs, index : Indices, data : Data,
                  phase : {"begun", "writing", "written", "renamed"}]
  /\ Idle \notin [op : {"delete"}, dir : Dirs]

VARIABLES
  file,    \* file[d][i]: contents of <base>/d/i.chunk
  temp,    \* temp[d][i]: contents of <base>/d/i.chunk.tmp
  writer,  \* the call that holds the write lock
  result   \* the last answer that was no error

storeVars == <<file, temp, writer, result>>

Saver == [op : {"save"}, dir : Dirs, index : Indices, data : Data,
          phase : {"begun", "writing", "written", "renamed"}]
Deleter == [op : {"delete"}, dir : Dirs]

StoreTypeOK ==
  /\ file \in [Dirs -> [Indices -> Data \cup {Absent, Torn}]]
  /\ temp \in [Dirs -> [Indices -> Data \cup {Absent, Torn}]]
  /\ writer \in Saver \cup Deleter \cup {Idle}

StoreInit ==
  /\ file = [d \in Dirs |-> [i \in Indices |-> Absent]]
  /\ temp = [d \in Dirs |-> [i \in Indices |-> Absent]]
  /\ writer = Idle
  /\ result = Nothing

Saving(phases) == writer \in Saver /\ writer.phase \in phases
Deleting == writer \in Deleter

-----------------------------------------------------------------------------
(* SaveChunk *)

BeginSave(d, i, v) ==
  /\ writer = Idle
  /\ writer' = [op |-> "save", dir |-> d, index |-> i, data |-> v, phase |-> "begun"]
  /\ UNCHANGED <<file, temp, result>>

(* WriteFile truncates, then writes. *)
Write_InPlace ==
  /\ \/ /\ Saving({"begun"})
        /\ file' = [file EXCEPT ![writer.dir][writer.index] = Torn]
        /\ temp' = [temp EXCEPT ![writer.dir][writer.index] = Torn]
        /\ writer' = [writer EXCEPT !.phase = "writing"]
     \/ /\ Saving({"writing"})
        /\ file' = [file EXCEPT ![writer.dir][writer.index] = writer.data]
        /\ temp' = [temp EXCEPT ![writer.dir][writer.index] = writer.data]
        /\ writer' = [writer EXCEPT !.phase = "written"]
  /\ UNCHANGED result

Write ==
  /\ \/ /\ Saving({"begun"})
        /\ temp' = [temp EXCEPT ![writer.dir][writer.index] = Torn]
        /\ writer' = [writer EXCEPT !.phase = "writing"]
     \/ /\ Saving({"writing"})
        /\ temp' = [temp EXCEPT ![writer.dir][writer.index] = writer.data]
        /\ writer' = [writer EXCEPT !.phase = "written"]
  /\ UNCHANGED <<file, result>>

Rename ==
  /\ Saving({"written"})
  /\ file' = [file EXCEPT ![writer.dir][writer.index] = temp[writer.dir][writer.index]]
  /\ temp' = [temp EXCEPT ![writer.dir][writer.index] = Absent]
  /\ writer' = [writer EXCEPT !.phase = "renamed"]
  /\ UNCHANGED result

(* MkdirAll or WriteFile failed, or Rename and then Remove: what was *)
(* written stays.                                                    *)
WriteFails ==
  /\ Saving({"begun", "writing", "written"})
  /\ writer' = Idle
  /\ UNCHANGED <<file, temp, result>>

(* Rename failed and the temporary file is removed. *)
RenameFails ==
  /\ Saving({"written"})
  /\ temp' = [temp EXCEPT ![writer.dir][writer.index] = Absent]
  /\ writer' = Idle
  /\ UNCHANGED <<file, result>>

ReturnSaved ==
  /\ Saving({"renamed"})
  /\ result' = [op |-> "save", dir |-> writer.dir, index |-> writer.index,
                data |-> writer.data]
  /\ writer' = Idle
  /\ UNCHANGED <<file, temp>>

-----------------------------------------------------------------------------
(* DeleteTransfer *)

BeginDelete(d) ==
  /\ writer = Idle
  /\ writer' = [op |-> "delete", dir |-> d]
  /\ UNCHANGED <<file, temp, result>>

RemoveEntry(i) ==
  /\ Deleting
  /\ \/ /\ file[writer.dir][i] # Absent
        /\ file' = [file EXCEPT ![writer.dir][i] = Absent]
        /\ UNCHANGED temp
     \/ /\ temp[writer.dir][i] # Absent
        /\ temp' = [temp EXCEPT ![writer.dir][i] = Absent]
        /\ UNCHANGED file
  /\ UNCHANGED <<writer, result>>

DeleteFails ==
  /\ Deleting
  /\ writer' = Idle
  /\ UNCHANGED <<file, temp, result>>

ReturnDeleted_Early ==
  /\ Deleting
  /\ result' = [op |-> "delete", dir |-> writer.dir]
  /\ writer' = Idle
  /\ UNCHANGED <<file, temp>>

ReturnDeleted ==
  /\ Deleting
  /\ \A i \in Indices : file[writer.dir][i] = Absent /\ temp[writer.dir][i] = Absent
  /\ result' = [op |-> "delete", dir |-> writer.dir]
  /\ writer' = Idle
  /\ UNCHANGED <<file, temp>>

-----------------------------------------------------------------------------
(* Readers, and the process *)

LoadChunk(d, i) ==
  /\ writer = Idle
  /\ file[d][i] # Absent
  /\ result' = [op |-> "load", dir |-> d, index |-> i, data |-> file[d][i]]
  /\ UNCHANGED <<file, temp, writer>>

(* Names that end in .tmp are passed over. *)
ListChunks(d) ==
  /\ writer = Idle
  /\ result' = [op |-> "list", dir |-> d,
                found |-> {i \in Indices : file[d][i] # Absent}]
  /\ UNCHANGED <<file, temp, writer>>

(* The process dies and is started again. *)
Restart ==
  /\ writer # Idle
  /\ writer' = Idle
  /\ UNCHANGED <<file, temp, result>>

StoreNext ==
  \/ \E d \in Dirs, i \in Indices : LoadChunk(d, i) \/ \E v \in Data : BeginSave(d, i, v)
  \/ \E d \in Dirs : BeginDelete(d) \/ ListChunks(d)
  \/ \E i \in Indices : RemoveEntry(i)
  \/ Write \/ WriteFails \/ Rename \/ RenameFails \/ ReturnSaved
  \/ DeleteFails \/ ReturnDeleted
  \/ Restart

StoreSpec == StoreInit /\ [][StoreNext]_storeVars

-----------------------------------------------------------------------------
(* Properties *)

Map == INSTANCE ChunkMap WITH chunks <- file, reply <- result

(* Whatever fails and wherever the process dies, the files that loads and  *)
(* lists see are a map of whole chunks, and an answer says what the map    *)
(* holds: no torn file, no temporary file, no deletion answered too early  *)
(* (store.go:49-125).                                                      *)
FilesAreChunkMap == Map!MapSpec
=============================================================================
