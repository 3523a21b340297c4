--------------------------- MODULE StorageProofs ---------------------------
(***************************************************************************)
(* Proofs about what is kept on disk: for any directories, indices and     *)
(* contents the files of the chunk store implement the map of whole chunks *)
(* the handlers rely on, and for any services and files of migrations the  *)
(* schema grows in order.                                                  *)
(***************************************************************************)
EXTENDS FileStore, Migrator, TLAPS

(* Only temporary files are torn; a save that has written its chunk finds  *)
(* it in the temporary file, one that has renamed it in the chunk's file.  *)
SaverInv ==
  /\ file \in [Dirs -> [Indices -> Data \cup {Absent}]]
  /\ Saving({"written"}) => temp[writer.dir][writer.index] = writer.data
  /\ Saving({"renamed"}) => file[writer.dir][writer.index] = writer.data

StoreInv == StoreTypeOK /\ SaverInv

-----------------------------------------------------------------------------

LEMMA StoreInitInv == StoreInit => StoreInv
BY StoreConstants DEF StoreInit, StoreInv, StoreTypeOK, SaverInv, Saving, Saver

LEMMA StoreStepInv ==
  ASSUME StoreInv, [StoreNext]_storeVars
  PROVE  StoreInv'
<1>. USE StoreConstants DEF StoreInv, StoreTypeOK, SaverInv
<1>1. ASSUME NEW d \in Dirs, NEW i \in Indices, LoadChunk(d, i) PROVE StoreInv'
  BY <1>1 DEF LoadChunk, Saving
<1>2. ASSUME NEW d \in Dirs, NEW i \in Indices, NEW v \in Data, BeginSave(d, i, v)
      PROVE  StoreInv'
  BY <1>2 DEF BeginSave, Saving, Saver
<1>3. ASSUME NEW d \in Dirs, BeginDelete(d) PROVE StoreInv'
  BY <1>3 DEF BeginDelete, Saving, Saver, Deleter
<1>4. ASSUME NEW d \in Dirs, ListChunks(d) PROVE StoreInv'
  BY <1>4 DEF ListChunks, Saving
<1>5. ASSUME NEW i \in Indices, RemoveEntry(i) PROVE StoreInv'
  <2>1. writer \in Deleter /\ writer' = writer /\ writer.dir \in Dirs
    BY <1>5 DEF RemoveEntry, Deleting, Deleter
  <2>2. ~Saving({"written"})' /\ ~Saving({"renamed"})'
    BY <2>1 DEF Saving, Saver, Deleter
  <2>3. /\ file' \in [Dirs -> [Indices -> Data \cup {Absent}]]
        /\ file' \in [Dirs -> [Indices -> Data \cup {Absent, Torn}]]
        /\ temp' \in [Dirs -> [Indices -> Data \cup {Absent, Torn}]]
    <3>1. CASE /\ file' = [file EXCEPT ![writer.dir][i] = Absent]
               /\ temp' = temp
      BY <2>1, <3>1
    <3>2. CASE /\ temp' = [temp EXCEPT ![writer.dir][i] = Absent]
               /\ file' = file
      BY <2>1, <3>2
    <3>. QED BY <1>5, <3>1, <3>2 DEF RemoveEntry
  <2>. QED BY <2>1, <2>2, <2>3
<1>6. CASE Write
  <2>1. /\ writer \in Saver /\ writer.dir \in Dirs /\ writer.index \in Indices
        /\ writer.data \in Data /\ file' = file
    BY <1>6 DEF Write, Saving, Saver
  <2>2. CASE Saving({"begun"}) /\ writer.phase = "begun"
    <3>1. /\ writer' = [writer EXCEPT !.phase = "writing"]
          /\ temp' = [temp EXCEPT ![writer.dir][writer.index] = Torn]
      BY <1>6, <2>2 DEF Write, Saving
    <3>2. writer' \in Saver /\ writer'.phase = "writing"
      BY <2>1, <3>1 DEF Saver
    <3>3. temp' \in [Dirs -> [Indices -> Data \cup {Absent, Torn}]]
      BY <2>1, <3>1
    <3>4. ~Saving({"written"})' /\ ~Saving({"renamed"})'
      BY <3>2 DEF Saving
    <3>. QED BY <2>1, <3>2, <3>3, <3>4
  <2>3. CASE Saving({"writing"}) /\ writer.phase = "writing"
    <3>1. /\ writer' = [writer EXCEPT !.phase = "written"]
          /\ temp' = [temp EXCEPT ![writer.dir][writer.index] = writer.data]
      BY <1>6, <2>3 DEF Write, Saving
    <3>2. /\ writer' \in Saver /\ writer'.phase = "written" /\ writer'.dir = writer.dir
          /\ writer'.index = writer.index /\ writer'.data = writer.data
      BY <2>1, <3>1 DEF Saver
    <3>3. /\ temp' \in [Dirs -> [Indices -> Data \cup {Absent, Torn}]]
          /\ temp'[writer.dir][writer.index] = writer.data
      BY <2>1, <3>1
    <3>4. ~Saving({"renamed"})'
      BY <3>2 DEF Saving
    <3>. QED BY <2>1, <3>2, <3>3, <3>4
  <2>. QED BY <1>6, <2>2, <2>3 DEF Write, Saving
<1>7. CASE WriteFails
  BY <1>7 DEF WriteFails, Saving, Saver
<1>8. CASE Rename
  <2>1. /\ writer \in Saver /\ writer.dir \in Dirs /\ writer.index \in Indices
        /\ writer.data \in Data
    BY <1>8 DEF Rename, Saving, Saver
  <2>2. temp[writer.dir][writer.index] = writer.data
    BY <1>8 DEF Rename
  <2>3. /\ writer' \in Saver /\ writer'.phase = "renamed" /\ writer'.dir = writer.dir
        /\ writer'.index = writer.index /\ writer'.data = writer.data
    BY <1>8, <2>1 DEF Rename, Saver
  <2>4. /\ file' \in [Dirs -> [Indices -> Data \cup {Absent}]]
        /\ file' \in [Dirs -> [Indices -> Data \cup {Absent, Torn}]]
        /\ temp' \in [Dirs -> [Indices -> Data \cup {Absent, Torn}]]
        /\ file'[writer.dir][writer.index] = writer.data
    BY <1>8, <2>1, <2>2 DEF Rename
  <2>5. ~Saving({"written"})'
    BY <2>3 DEF Saving
  <2>. QED BY <2>3, <2>4, <2>5
<1>9. CASE RenameFails
  BY <1>9 DEF RenameFails, Saving, Saver
<1>10. CASE ReturnSaved
  BY <1>10 DEF ReturnSaved, Saving, Saver
<1>11. CASE DeleteFails
  BY <1>11 DEF DeleteFails, Saving, Saver
<1>12. CASE ReturnDeleted
  BY <1>12 DEF ReturnDeleted, Saving, Saver
<1>13. CASE Restart
  BY <1>13 DEF Restart, Saving, Saver
<1>14. CASE UNCHANGED storeVars
  BY <1>14 DEF storeVars, Saving
<1>. QED
  BY <1>1, <1>2, <1>3, <1>4, <1>5, <1>6, <1>7, <1>8, <1>9, <1>10, <1>11, <1>12, <1>13, <1>14
  DEF StoreNext

(* The invariant holds in every reachable state. *)
THEOREM StoreInvariant == StoreSpec => []StoreInv
<1>1. StoreInit => StoreInv
  BY StoreInitInv
<1>2. StoreInv /\ [StoreNext]_storeVars => StoreInv'
  BY StoreStepInv
<1>. QED BY <1>1, <1>2, PTL DEF StoreSpec

(* Whatever the file system refuses and wherever the process dies, loads   *)
(* and lists see whole chunks only, and every answer is true of the map    *)
(* (store.go:49-125).                                                      *)
THEOREM FilesImplementChunkMap == StoreSpec => FilesAreChunkMap
<1>1. StoreInit => Map!MapInit
  BY DEF StoreInit, Map!MapInit
<1>2. ASSUME StoreInv, [StoreNext]_storeVars
      PROVE  [Map!MapNext]_(Map!mapVars)
  <2>. USE DEF StoreInv, StoreTypeOK, SaverInv
  <2>1. ASSUME NEW d \in Dirs, NEW i \in Indices, LoadChunk(d, i) PROVE Map!AnswerLoad(d, i)
    BY <2>1 DEF LoadChunk, Map!AnswerLoad
  <2>2. ASSUME NEW d \in Dirs, NEW i \in Indices, NEW v \in Data, BeginSave(d, i, v)
        PROVE  UNCHANGED Map!mapVars
    BY <2>2 DEF BeginSave, Map!mapVars
  <2>3. ASSUME NEW d \in Dirs, BeginDelete(d) PROVE UNCHANGED Map!mapVars
    BY <2>3 DEF BeginDelete, Map!mapVars
  <2>4. ASSUME NEW d \in Dirs, ListChunks(d) PROVE Map!AnswerList(d)
    BY <2>4 DEF ListChunks, Map!AnswerList
  <2>5. ASSUME NEW i \in Indices, RemoveEntry(i)
        PROVE  Map!MapNext \/ UNCHANGED Map!mapVars
    <3>1. writer.dir \in Dirs
      BY <2>5 DEF RemoveEntry, Deleting, Deleter
    <3>2. Map!Remove(writer.dir, i) \/ UNCHANGED Map!mapVars
      BY <2>5 DEF RemoveEntry, Map!Remove, Map!Put, Map!mapVars
    <3>. QED BY <3>1, <3>2 DEF Map!MapNext
  <2>6. ASSUME Write \/ WriteFails \/ RenameFails \/ DeleteFails \/ Restart
        PROVE  UNCHANGED Map!mapVars
    BY <2>6 DEF Write, WriteFails, RenameFails, DeleteFails, Restart, Map!mapVars
  <2>7. ASSUME Rename PROVE Map!MapNext
    <3>1. writer.dir \in Dirs /\ writer.index \in Indices /\ writer.data \in Data
      BY <2>7 DEF Rename, Saving, Saver
    <3>0. temp[writer.dir][writer.index] = writer.data
      BY <1>2, <2>7 DEF Rename
    <3>2. Map!Put(writer.dir, writer.index, writer.data)
      BY <2>7, <3>0 DEF Rename, Map!Put
    <3>. QED BY <3>1, <3>2 DEF Map!MapNext
  <2>8. ASSUME ReturnSaved PROVE Map!MapNext
    <3>1. writer.dir \in Dirs /\ writer.index \in Indices /\ writer.data \in Data
      BY <2>8 DEF ReturnSaved, Saving, Saver
    <3>0. file[writer.dir][writer.index] = writer.data
      BY <1>2, <2>8 DEF ReturnSaved
    <3>2. Map!AnswerSave(writer.dir, writer.index, writer.data)
      BY <2>8, <3>0 DEF ReturnSaved, Map!AnswerSave
    <3>. QED BY <3>1, <3>2 DEF Map!MapNext
  <2>9. ASSUME ReturnDeleted PROVE Map!MapNext
    <3>1. writer.dir \in Dirs
      BY <2>9 DEF ReturnDeleted, Deleting, Deleter
    <3>2. Map!AnswerDelete(writer.dir)
      BY <2>9 DEF ReturnDeleted, Map!AnswerDelete
    <3>. QED BY <3>1, <3>2 DEF Map!MapNext
  <2>10. CASE UNCHANGED storeVars
    BY <2>10 DEF storeVars, Map!mapVars
  <2>. QED
    BY <1>2, <2>1, <2>2, <2>3, <2>4, <2>5, <2>6, <2>7, <2>8, <2>9, <2>10
    DEF StoreNext, Map!MapNext
<1>. QED
  BY <1>1, <1>2, StoreInvariant, PTL DEF StoreSpec, FilesAreChunkMap, Map!MapSpec

-----------------------------------------------------------------------------
(* The schema migrations *)

(* Everything before file f is recorded. *)
RecordedUpTo(f) == \A g \in Files : g < f => g \in recorded

(* A service is past the files before its own, and has executed the one it *)
(* is about to record.                                                     *)
ServiceInv(s) ==
  /\ ~In(s, "down") => RecordedUpTo(service[s].file)
  /\ In(s, "record") => service[s].file \in applied
  /\ In(s, "up") => recorded = Files

MigratorInv ==
  /\ MigratorTypeOK
  /\ recorded \subseteq applied
  /\ \A f \in applied : RecordedUpTo(f)
  /\ \A s \in Services : ServiceInv(s)

LEMMA MigratorInitInv == MigratorInit => MigratorInv
BY MigratorConstants
DEF MigratorInit, MigratorInv, MigratorTypeOK, ServiceInv, RecordedUpTo, In, Down, Files

(* Whoever has recorded all files up to its own may go on. *)
LEMMA AdvanceKeeps ==
  ASSUME MigratorInv, NEW s \in Services, Advance(s, service[s].file),
         recorded \subseteq recorded', recorded' \subseteq Files, applied' = applied,
         RecordedUpTo(service[s].file), service[s].file \in recorded'
  PROVE  /\ service' \in [Services -> [phase : {"down", "check", "execute", "record", "up"},
                                       file : Files]]
         /\ \A r \in Services : ServiceInv(r)'
<1> DEFINE f == service[s].file
<1> USE MigratorConstants DEF Files
<1>1. f \in Files
  BY DEF MigratorInv, MigratorTypeOK
<1>2. CASE f < FileCount
  <2>1. service' = [service EXCEPT ![s] = [phase |-> "check", file |-> f + 1]]
    BY <1>2 DEF Advance, Go
  <2>2. f + 1 \in Files
    BY <1>1, <1>2
  <2>3. \A g \in Files : g < f + 1 => g \in recorded'
    BY <1>1 DEF RecordedUpTo
  <2> QED BY <2>1, <2>2, <2>3 DEF MigratorInv, MigratorTypeOK, ServiceInv, RecordedUpTo, In
<1>3. CASE ~(f < FileCount)
  <2>1. service' = [service EXCEPT ![s] = [phase |-> "up", file |-> f]]
    BY <1>3 DEF Advance, Go
  <2>2. recorded' = Files
    <3>1. FileCount \in Nat /\ f = FileCount
      BY <1>1, <1>3
    <3>2. \A g \in Files : g = f \/ g < f
      BY <3>1
    <3> QED BY <3>2 DEF RecordedUpTo
  <2> QED BY <1>1, <2>1, <2>2 DEF MigratorInv, MigratorTypeOK, ServiceInv, RecordedUpTo, In
<1> QED BY <1>2, <1>3

LEMMA MigratorStepInv ==
  ASSUME MigratorInv, [MigratorNext]_migratorVars
  PROVE  MigratorInv'
<1> USE DEF MigratorInv
<1>0. \A s \in Services : service[s].file \in Files /\ service[s] =
        [phase |-> service[s].phase, file |-> service[s].file]
  BY DEF MigratorTypeOK
<1>1. ASSUME NEW s \in Services, StartService(s) PROVE MigratorInv'
  BY <1>1, MigratorConstants
  DEF StartService, MigratorTypeOK, ServiceInv, RecordedUpTo, In, Go, Files
<1>2. ASSUME NEW s \in Services, CheckRecorded(s) PROVE MigratorInv'
  <2>1. applied' = applied /\ recorded' = recorded /\ faults' = faults
        /\ In(s, "check") /\ RecordedUpTo(service[s].file)
    BY <1>2 DEF CheckRecorded, ServiceInv, In
  <2>2. CASE service[s].file \in recorded
    <3>1. Advance(s, service[s].file)
      BY <1>2, <2>2 DEF CheckRecorded
    <3>2. /\ service' \in [Services -> [phase : {"down", "check", "execute", "record", "up"},
                                        file : Files]]
          /\ \A r \in Services : ServiceInv(r)'
      BY <2>1, <2>2, <3>1, AdvanceKeeps DEF MigratorTypeOK
    <3> QED BY <2>1, <3>2 DEF MigratorTypeOK, RecordedUpTo
  <2>3. CASE service[s].file \notin recorded
    <3>1. service' = [service EXCEPT ![s] = [phase |-> "execute", file |-> service[s].file]]
      BY <1>2, <2>3 DEF CheckRecorded, Go
    <3> QED BY <1>0, <2>1, <3>1 DEF MigratorTypeOK, ServiceInv, RecordedUpTo, In
  <2> QED BY <2>2, <2>3
<1>3. ASSUME NEW s \in Services, Execute(s) PROVE MigratorInv'
  <2>1. recorded' = recorded /\ faults' = faults /\ RecordedUpTo(service[s].file)
    BY <1>3 DEF Execute, ServiceInv, In
  <2>2. CASE service' = [service EXCEPT ![s] = Down] /\ applied' = applied
    BY <2>1, <2>2, MigratorConstants
    DEF MigratorTypeOK, ServiceInv, RecordedUpTo, In, Down, Files
  <2>3. CASE /\ service' = [service EXCEPT ![s] =
                              [phase |-> "record", file |-> service[s].file]]
             /\ applied' = applied \cup {service[s].file}
    BY <1>0, <2>1, <2>3 DEF MigratorTypeOK, ServiceInv, RecordedUpTo, In
  <2> QED BY <1>3, <2>2, <2>3 DEF Execute, Go
<1>4. ASSUME NEW s \in Services, Record(s) PROVE MigratorInv'
  <2>1. applied' = applied /\ faults' = faults /\ RecordedUpTo(service[s].file)
        /\ service[s].file \in applied
    BY <1>4 DEF Record, ServiceInv, In
  <2>2. CASE service' = [service EXCEPT ![s] = Down] /\ recorded' = recorded
    BY <2>1, <2>2, MigratorConstants
    DEF MigratorTypeOK, ServiceInv, RecordedUpTo, In, Down, Files
  <2>3. CASE recorded' = recorded \cup {service[s].file} /\ Advance(s, service[s].file)
    <3>1. recorded' \subseteq Files /\ recorded' \subseteq applied'
          /\ recorded \subseteq recorded'
      BY <1>0, <2>1, <2>3 DEF MigratorTypeOK
    <3>2. /\ service' \in [Services -> [phase : {"down", "check", "execute", "record", "up"},
                                        file : Files]]
          /\ \A r \in Services : ServiceInv(r)'
      BY <2>1, <2>3, <3>1, AdvanceKeeps
    <3>3. \A f \in applied' : RecordedUpTo(f)'
      BY <2>1, <3>1 DEF RecordedUpTo
    <3> QED BY <2>1, <3>1, <3>2, <3>3 DEF MigratorTypeOK
  <2> QED BY <1>4, <2>2, <2>3 DEF Record
<1>5. ASSUME NEW s \in Services, Fault(s) PROVE MigratorInv'
  <2>1. service[s].file \in Files /\ RecordedUpTo(service[s].file)
    BY <1>0, <1>5 DEF Fault, ServiceInv
  <2>2. service' = [service EXCEPT ![s] = Down] /\ faults' \in 0..MaxFaults
    BY <1>5, MigratorConstants DEF Fault, MigratorTypeOK
  <2>3. MigratorTypeOK'
    <3>1. Down \in [phase : {"down", "check", "execute", "record", "up"}, file : Files]
      BY MigratorConstants DEF Down, Files
    <3> QED BY <1>5, <2>1, <2>2, <3>1 DEF Fault, MigratorTypeOK
  <2>4. recorded \subseteq recorded' /\ applied \subseteq applied'
        /\ recorded' \subseteq applied'
    BY <1>5 DEF Fault, ServiceInv
  <2>5. \A f \in applied' : RecordedUpTo(f)'
    BY <1>5, <2>1, <2>4 DEF Fault, RecordedUpTo
  <2>6. ASSUME NEW r \in Services PROVE ServiceInv(r)'
    <3>1. CASE r = s
      BY <2>2, <3>1 DEF ServiceInv, In, Down, MigratorTypeOK
    <3>2. CASE r # s
      <4>1. service'[r] = service[r]
        BY <2>2, <3>2 DEF MigratorTypeOK
      <4> QED BY <2>3, <2>4, <4>1 DEF ServiceInv, In, RecordedUpTo, MigratorTypeOK
    <3> QED BY <3>1, <3>2
  <2> QED BY <2>3, <2>4, <2>5, <2>6
<1>6. CASE UNCHANGED migratorVars
  BY <1>6 DEF migratorVars, MigratorTypeOK, ServiceInv, RecordedUpTo, In
<1> QED BY <1>1, <1>2, <1>3, <1>4, <1>5, <1>6 DEF MigratorNext, MigratorStep

(* The inductive invariant: a service has recorded every file before the   *)
(* one it is at, itself or through another.                                *)
THEOREM MigratorInvariant == MigratorSpec => []MigratorInv
BY MigratorInitInv, MigratorStepInv, PTL DEF MigratorSpec

(* SchemaInOrder (migrator.go:31-57), for any services, files and faults. *)
THEOREM SchemaGrowsInOrder == MigratorSpec => []SchemaInOrder
<1>1. MigratorInv => SchemaInOrder
  BY DEF MigratorInv, SchemaInOrder, ServiceInv, RecordedUpTo
<1> QED BY <1>1, MigratorInvariant, PTL
=============================================================================
