------------------------------ MODULE Migrator ------------------------------
(***************************************************************************)
(* The schema migrations.  Every service runs the same files on the same   *)
(* database when it starts: for each file in turn it looks whether the     *)
(* file is recorded, executes it and records it, three statements without  *)
(* a transaction around them.  An error ends the process, and a process    *)
(* that has ended is started again.  A file is executed whole or not at    *)
(* all (one simple query is one implicit transaction).                     *)
(***************************************************************************)
EXTENDS Naturals

CONSTANTS
  Services,   \* processes that migrate: identity, routing, discovery, transfer
  FileCount,  \* files, numbered in the order of their names
  Plain,      \* files without IF NOT EXISTS: they fail the second time
  MaxFaults   \* crashes and failing statements (bound)

ASSUME MigratorConstants ==
  /\ FileCount \in Nat \ {0}
  /\ Plain \subseteq 1..FileCount
  /\ MaxFaults \in Nat

VARIABLES
  applied,   \* files whose statements are in the schema
  recorded,  \* table schema_migrations
  service,   \* where each service is
  faults     \* crashes and failing statements so far

migratorVars == <<applied, recorded, service, faults>>

Files == 1..FileCount

MigratorTypeOK ==
  /\ applied \subseteq Files
  /\ recorded \subseteq Files
  /\ service \in [Services -> [phase : {"down", "check", "execute", "record", "up"},
                               file : Files]]
  /\ faults \in 0..MaxFaults

Down == [phase |-> "down", file |-> 1]

MigratorInit ==
  /\ applied = {}
  /\ recorded = {}
  /\ service = [s \in Services |-> Down]
  /\ faults = 0

In(s, phase) == service[s].phase = phase
Go(s, phase, f) == service' = [service EXCEPT ![s] = [phase |-> phase, file |-> f]]

-----------------------------------------------------------------------------

(* The process starts and makes sure of the table. *)
StartService(s) ==
  /\ In(s, "down")
  /\ Go(s, "check", 1)
  /\ UNCHANGED <<applied, recorded, faults>>

Advance(s, f) == IF f < FileCount THEN Go(s, "check", f + 1) ELSE Go(s, "up", f)

CheckRecorded(s) ==
  /\ In(s, "check")
  /\ LET f == service[s].file IN
     IF f \in recorded THEN Advance(s, f) ELSE Go(s, "execute", f)
  /\ UNCHANGED <<applied, recorded, faults>>

Execute_NeverTwice(s) ==
  /\ In(s, "execute")
  /\ LET f == service[s].file IN
     IF f \in applied
     THEN /\ service' = [service EXCEPT ![s] = Down]
          /\ UNCHANGED applied
     ELSE /\ applied' = applied \cup {f}
          /\ Go(s, "record", f)
  /\ UNCHANGED <<recorded, faults>>

Execute(s) ==
  /\ In(s, "execute")
  /\ LET f == service[s].file IN
     IF f \in applied \cap Plain
     THEN /\ service' = [service EXCEPT ![s] = Down]
          /\ UNCHANGED applied
     ELSE /\ applied' = applied \cup {f}
          /\ Go(s, "record", f)
  /\ UNCHANGED <<recorded, faults>>

(* version is the primary key: who comes second gets an error. *)
Record(s) ==
  /\ In(s, "record")
  /\ LET f == service[s].file IN
     IF f \in recorded
     THEN /\ service' = [service EXCEPT ![s] = Down]
          /\ UNCHANGED recorded
     ELSE /\ recorded' = recorded \cup {f}
          /\ Advance(s, f)
  /\ UNCHANGED <<applied, faults>>

Fault_GoesOn(s) ==
  /\ In(s, "execute")
  /\ faults < MaxFaults
  /\ faults' = faults + 1
  /\ Go(s, "record", service[s].file)
  /\ UNCHANGED <<applied, recorded>>

(* The process dies, or a statement fails, its effect done or not. *)
Fault(s) ==
  /\ ~In(s, "down")
  /\ faults < MaxFaults
  /\ faults' = faults + 1
  /\ service' = [service EXCEPT ![s] = Down]
  /\ \/ UNCHANGED <<applied, recorded>>
     \/ /\ In(s, "execute")
        /\ service[s].file \notin applied
        /\ applied' = applied \cup {service[s].file}
        /\ UNCHANGED recorded
     \/ /\ In(s, "record")
        /\ recorded' = recorded \cup {service[s].file}
        /\ UNCHANGED applied

MigratorStep(s) == StartService(s) \/ CheckRecorded(s) \/ Execute(s) \/ Record(s)

MigratorNext == \E s \in Services : MigratorStep(s) \/ Fault(s)

(* Processes are restarted, and the database answers. *)
MigratorSpec ==
  /\ MigratorInit /\ [][MigratorNext]_migratorVars
  /\ \A s \in Services : WF_migratorVars(MigratorStep(s))

-----------------------------------------------------------------------------
(* Properties *)

(* However many services migrate at once and wherever they die: nothing is *)
(* recorded that is not in the schema, no file is executed before the ones *)
(* its statements build on are recorded, and a service that is up finds    *)
(* the whole schema (migrator.go:31-57).                                   *)
SchemaInOrder ==
  /\ recorded \subseteq applied
  /\ \A f \in applied, g \in Files : g < f => g \in recorded
  /\ \A s \in Services : In(s, "up") => recorded = Files

(* A file that fails the second time is in the schema, is not recorded and *)
(* nobody is about to record it: no service can ever start again.          *)
SchemaTorn ==
  \E f \in Plain : /\ f \in applied \ recorded
                   /\ \A s \in Services : ~(In(s, "record") /\ service[s].file = f)

(* That is the only thing that keeps services down: however they get in    *)
(* each other's way, losing the race for a file costs a service a restart, *)
(* no more (migrator.go:46-52).                                            *)
ServicesComeUp ==
  \A s \in Services : service[s].phase # "down" ~> In(s, "up") \/ SchemaTorn
=============================================================================
