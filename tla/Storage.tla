------------------------------ MODULE Storage ------------------------------
(***************************************************************************)
(* What a2ad leaves on disk when it is interrupted                         *)
(* (daemon/src/Database.cpp: open; TaskManager::materializeArtifact).      *)
(*                                                                         *)
(* Opening the database creates the tables that are missing, statement by  *)
(* statement, and then migrates a version 1 file in one transaction.       *)
(* Materializing an artifact creates, fills, syncs and closes a file.  The *)
(* process may die, or a call may fail, between any two of the steps.      *)
(***************************************************************************)
EXTENDS Naturals, Sequences

CONSTANTS
    TaskIds,    \* local ids of stored tasks
    Null        \* SQL's NULL, and no file

ASSUME NullAssumption == Null \notin TaskIds \cup {"part", "whole", "other"}

-----------------------------------------------------------------------------
(***************************************************************************)
(* The database: which tables it has, the columns that version 2 added to  *)
(* tasks, the remote_task_id of each stored task, the schema version.      *)
(***************************************************************************)

NewColumns == {"remote_task_id", "metadata"}
Tables == {"schema_version", "agents", "tasks"}

Stored == [tables : SUBSET Tables, columns : SUBSET NewColumns,
           remote : UNION {[ids -> TaskIds \cup {Null}] : ids \in SUBSET TaskIds}, version : 0..2]

\* CREATE TABLE IF NOT EXISTS: a new tasks table has every column.
Create(db, table) ==
    [db EXCEPT !.tables = @ \cup {table},
               !.columns = IF table = "tasks" /\ table \notin db.tables THEN NewColumns ELSE @]

Schema == <<"schema_version", "agents", "tasks">>

MigratedAlways(db) ==
    [db EXCEPT !.columns = NewColumns,
               !.remote = [t \in DOMAIN @ |-> IF @[t] = Null THEN t ELSE @[t]],
               !.version = 2]
\* The transaction: the missing columns; the ids of a version 1 file, whose tasks
\* all had that of the agent's task; the version.
Migrated(db) ==
    [db EXCEPT !.columns = NewColumns,
               !.remote = IF "remote_task_id" \in db.columns THEN @
                          ELSE [t \in DOMAIN @ |-> IF @[t] = Null THEN t ELSE @[t]],
               !.version = 2]

\* Each table of the schema is a step, the commit of the transaction is the last.
Steps == Len(Schema) + 1

StepApart(db, n) ==
    IF n = Steps THEN Migrated(db)
    ELSE [Create(db, Schema[n]) EXCEPT !.columns = IF n = Len(Schema) THEN NewColumns ELSE @]
\* The n-th step of open().
Step(db, n) == IF n = Steps THEN Migrated(db) ELSE Create(db, Schema[n])

-----------------------------------------------------------------------------
(***************************************************************************)
(* The file of an artifact: Null, or what it holds.  "part" is a proper    *)
(* prefix of the bytes, "other" anything else that was there before.       *)
(***************************************************************************)

File == {Null, "part", "whole", "other"}

\* Where materializeArtifact() may stop short: before it creates the file; when the
\* file was written badly, and unlinked; when it could not be unlinked either, or the
\* process died; when the process died before the event was written.
Early == {"content", "mismatch", "directory", "dies_before"}
Undone == {"write", "fsync", "close"}
Torn == {"kept", "dies_writing"}
Faults == {"none", "dies_after"} \cup Early \cup Undone \cup Torn

After(file, fault) == [file |-> file, ok |-> fault = "none"]

MaterializedOver(file, fault) ==
    After(CASE fault \in Early -> file [] fault \in Undone -> Null [] fault \in Torn -> "part"
            [] OTHER -> "whole", fault)
\* materializeArtifact(): O_EXCL refuses a file that exists.  Success and the event
\* come last and together.
Materialized(file, fault) ==
    IF file # Null THEN After(file, "exists")
    ELSE After(CASE fault \in Early \cup Undone -> Null [] fault \in Torn -> "part"
                 [] OTHER -> "whole", fault)
=============================================================================
