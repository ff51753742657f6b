----------------------------- MODULE Migrations -----------------------------
(***************************************************************************)
(* MigrationManager (src/src/features/store/migrations.py) as connect()    *)
(* uses it (src/src/features/store/store.py): processes that open the same *)
(* database, each statement of a migration committed on its own, and any   *)
(* of them killed or refused by SQLite between two statements.             *)
(* rollback_to has no caller in the program.                               *)
(***************************************************************************)
EXTENDS Naturals, Sequences

CONSTANTS
    Openers,            \* the processes
    CURRENT_VERSION,
    UpSql               \* version -> what its statements create, in order

ASSUME OpenersAssumption ==
    /\ CURRENT_VERSION \in Nat
    /\ UpSql \in [1..CURRENT_VERSION -> Seq(STRING)]

Versions == 1..CURRENT_VERSION

VARIABLES
    schema,     \* the tables and indexes that exist
    recorded,   \* schema_version
    opener      \* process -> where it is, the migration it is at, statements done

migrationVars == <<schema, recorded, opener>>

At(pc, version, done) == [pc |-> pc, version |-> version, done |-> done]
Closed == At("closed", 0, 0)

MigrationInit ==
    /\ schema = {} /\ recorded = {}
    /\ opener = [p \in Openers |-> Closed]

(* get_current_version, get_migrations_to_apply: the loop goes on from here   *)
(* without another look at the table.                                         *)
Following(v) == IF v = CURRENT_VERSION THEN At("open", v, 0) ELSE At("applying", v + 1, 0)
Applied(v) == v = 0 \/ v \in recorded
ReadVersion(p) ==
    /\ opener[p] = Closed
    /\ \E v \in 0..CURRENT_VERSION :
         /\ Applied(v) /\ \A w \in recorded : w <= v
         /\ opener' = [opener EXCEPT ![p] = Following(v)]
    /\ UNCHANGED <<schema, recorded>>

(* executescript commits what is open and then each statement; every one of   *)
(* them is CREATE ... IF NOT EXISTS.                                          *)
ExecuteStatement(p) ==
    /\ opener[p].pc = "applying"
    /\ opener[p].done < Len(UpSql[opener[p].version])
    /\ schema' = schema \cup {UpSql[opener[p].version][opener[p].done + 1]}
    /\ opener' = [opener EXCEPT ![p].done = @ + 1]
    /\ UNCHANGED recorded

(* Faulty variant: a script that stopped half-way counts as done.             *)
ScriptDoneAnyhow(p) == opener[p].done > 0

(* executescript has returned.                                                *)
ScriptDone(p) == opener[p].done = Len(UpSql[opener[p].version])

(* The INSERT, whose primary key refuses a version recorded since the reading.*)
RecordVersion(p) ==
    /\ opener[p].pc = "applying" /\ ScriptDone(p)
    /\ opener[p].version \notin recorded
    /\ recorded' = recorded \cup {opener[p].version}
    /\ opener' = [opener EXCEPT ![p] = Following(opener[p].version)]
    /\ UNCHANGED schema
Refused(p) ==
    /\ opener[p].pc = "applying" /\ ScriptDone(p)
    /\ opener[p].version \in recorded
    /\ opener' = [opener EXCEPT ![p] = Closed]
    /\ UNCHANGED <<schema, recorded>>

(* A statement raises, the process is killed, or it is done with the database.*)
Disconnect(p) ==
    /\ opener[p] # Closed
    /\ opener' = [opener EXCEPT ![p] = Closed]
    /\ UNCHANGED <<schema, recorded>>

MigrationNext ==
    \E p \in Openers :
        ReadVersion(p) \/ ExecuteStatement(p) \/ RecordVersion(p) \/ Refused(p) \/ Disconnect(p)
MigrationSpec == MigrationInit /\ [][MigrationNext]_migrationVars

-----------------------------------------------------------------------------
Creates(v) == {UpSql[v][i] : i \in 1..Len(UpSql[v])}

(* Whoever has the database open finds every table of every migration, though *)
(* no transaction holds a script and its version together (migrations.py:183  *)
(* says one does), and whichever process was killed where.                    *)
SchemaWhole ==
    \A p \in Openers : opener[p].pc = "open" => \A v \in Versions : Creates(v) \subseteq schema
=============================================================================
