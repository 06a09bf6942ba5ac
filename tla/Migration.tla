----------------------------- MODULE Migration -----------------------------
(***************************************************************************)
(* How a gateway sets up the database when it starts, gateway/app/db.py    *)
(* with Alembic's first migration: several gateways may start at the same  *)
(* time, each may end between any two of its transactions, and what the    *)
(* earlier ones have left is what the next one finds.                      *)
(*                                                                         *)
(* A look at the database and a transaction that changes it are steps of   *)
(* their own.  With PostgreSQL a migration is one transaction, and so is   *)
(* create_all; with SQLite each statement is (atomic).  The order in which *)
(* tables are created is left open, an index goes with its table, and the  *)
(* name space CHANNELWIRE_DB_SCHEMA is taken to be there.                  *)
(*                                                                         *)
(* An operator whose comment starts with DEFECT is a plausible mistake in  *)
(* the operator after it, which the specification does not use.            *)
(***************************************************************************)
EXTENDS Naturals

CONSTANTS
  Gateways,  \* places in which a gateway process may run
  Tables,    \* the tables of the model
  Users      \* the one that has got a column since the first release

ASSUME MigrationAssumption == Users \in Tables

VARIABLES
  atomic,  \* whether data definition is transactional
  db,      \* the database
  pc,      \* how far each gateway has got
  alembic, \* whether it has Alembic, and has not been told to do without
  todo     \* the tables that it is about to create

migrationVars == <<atomic, db, pc, alembic, todo>>

\* hash is the column password_hash, which old databases are without, and
\* versions the table alembic_version, with version as its row.
Databases ==
  [tables : SUBSET Tables, hash : BOOLEAN, versions : BOOLEAN,
   version : BOOLEAN]

Empty == [tables |-> {}, hash |-> FALSE, versions |-> FALSE, version |-> FALSE]
Unversioned(hash) == [Empty EXCEPT !.tables = Tables, !.hash = hash]
Migrated ==
  [tables |-> Tables, hash |-> TRUE, versions |-> TRUE, version |-> TRUE]

Places ==
  {"down", "inspect", "upgrade", "migrate", "check", "create", "column",
   "alter", "stamp", "serving"}

MigrationTypeOK ==
  /\ atomic \in BOOLEAN
  /\ db \in Databases
  /\ pc \in [Gateways -> Places]
  /\ alembic \in [Gateways -> BOOLEAN]
  /\ todo \in [Gateways -> SUBSET Tables]

MigrationInit ==
  /\ atomic \in BOOLEAN
  /\ db \in {Empty, Unversioned(FALSE), Unversioned(TRUE), Migrated}
  /\ pc = [g \in Gateways |-> "down"]
  /\ alembic = [g \in Gateways |-> FALSE]
  /\ todo = [g \in Gateways |-> {}]

Goto(g, next) == pc' = [pc EXCEPT ![g] = next]
Plan(g, tables) == todo' = [todo EXCEPT ![g] = tables]

\* An error in startup is the end of the process.
Fail(g) == Goto(g, "down") /\ UNCHANGED <<db, todo>>

\* startup, init_db: Alembic may be missing, or disabled.
Start(g) ==
  /\ \E present \in BOOLEAN :
       /\ alembic' = [alembic EXCEPT ![g] = present]
       /\ Goto(g, IF present THEN "inspect" ELSE "check")
  /\ UNCHANGED <<atomic, db, todo>>

\* DEFECT: the tables are looked for outside the schema they are in.
unversioned_elsewhere == FALSE

has_unversioned_schema == ~db.versions /\ Tables \subseteq db.tables

\* DEFECT: an unversioned database is stamped as it is.
InspectStamps(g) ==
  /\ pc[g] = "inspect"
  /\ Goto(g, IF has_unversioned_schema THEN "stamp" ELSE "upgrade")
  /\ UNCHANGED <<atomic, db, alembic, todo>>

\* migrate_db
Inspect(g) ==
  /\ pc[g] = "inspect"
  /\ Goto(g, IF has_unversioned_schema THEN "check" ELSE "upgrade")
  /\ UNCHANGED <<atomic, db, alembic, todo>>

\* command.upgrade looks for the version.
Upgrade(g) ==
  /\ pc[g] = "upgrade"
  /\ Goto(g, IF db.version THEN "serving" ELSE "migrate")
  /\ Plan(g, Tables)
  /\ UNCHANGED <<atomic, db, alembic>>

\* The tables t are created: it is an error if one is there.
CreateTables(g, t) ==
  /\ t \cap db.tables = {}
  /\ db' = [db EXCEPT !.tables = @ \cup t, !.hash = @ \/ Users \in t]
  /\ Plan(g, todo[g] \ t)
  /\ UNCHANGED pc

Collides(g, t) == t \cap db.tables # {} /\ Fail(g)

\* The tables that one statement, or the transaction, of g creates.
Together(g) ==
  IF atomic THEN {todo[g]} ELSE {{t} : t \in todo[g]}

\* The migration as one transaction.
MigrateAtOnce(g) ==
  \/ Collides(g, Tables)
  \/ /\ db.tables = {} /\ db' = Migrated
     /\ Goto(g, "serving") /\ UNCHANGED todo

\* The migration, statement by statement.
MigrateStep(g) ==
  \/ /\ ~db.versions
     /\ db' = [db EXCEPT !.versions = TRUE]
     /\ UNCHANGED <<pc, todo>>
  \/ /\ db.versions /\ todo[g] # {}
     /\ \E t \in Together(g) : CreateTables(g, t) \/ Collides(g, t)
  \/ /\ db.versions /\ todo[g] = {}
     /\ db' = [db EXCEPT !.version = TRUE]
     /\ Goto(g, "serving") /\ UNCHANGED todo

Migrate(g) ==
  /\ pc[g] = "migrate"
  /\ IF atomic THEN MigrateAtOnce(g) ELSE MigrateStep(g)
  /\ UNCHANGED <<atomic, alembic>>

\* create_schema_direct: create_all looks for the tables that are missing ...
Check(g) ==
  /\ pc[g] = "check"
  /\ Plan(g, Tables \ db.tables) /\ Goto(g, "create")
  /\ UNCHANGED <<atomic, db, alembic>>

\* ... and creates them.
Create(g) ==
  /\ pc[g] = "create"
  /\ \/ todo[g] = {} /\ Goto(g, "column") /\ UNCHANGED <<db, todo>>
     \/ /\ todo[g] # {}
        /\ \E t \in Together(g) : CreateTables(g, t) \/ Collides(g, t)
  /\ UNCHANGED <<atomic, alembic>>

\* command.stamp follows for who has Alembic.
Adopted(g) == IF alembic[g] THEN "stamp" ELSE "serving"

\* create_schema_direct looks whether users dates from before the passwords.
Column(g) ==
  /\ pc[g] = "column"
  /\ Goto(g, IF db.hash THEN Adopted(g) ELSE "alter")
  /\ UNCHANGED <<atomic, db, alembic, todo>>

\* ALTER TABLE: somebody else may have added the column meanwhile.
Alter(g) ==
  /\ pc[g] = "alter"
  /\ \/ db.hash /\ Fail(g)
     \/ /\ ~db.hash /\ db' = [db EXCEPT !.hash = TRUE]
        /\ Goto(g, Adopted(g)) /\ UNCHANGED todo
  /\ UNCHANGED <<atomic, alembic>>

\* command.stamp
Stamp(g) ==
  /\ pc[g] = "stamp"
  /\ \/ /\ ~atomic /\ ~db.versions
        /\ db' = [db EXCEPT !.versions = TRUE]
        /\ UNCHANGED pc
     \/ /\ atomic \/ db.versions
        /\ db' = [db EXCEPT !.versions = TRUE, !.version = TRUE]
        /\ Goto(g, "serving")
  /\ UNCHANGED <<atomic, alembic, todo>>

SetUp(g) ==
  \/ Inspect(g) \/ Upgrade(g) \/ Migrate(g) \/ Check(g) \/ Create(g)
  \/ Column(g) \/ Alter(g) \/ Stamp(g)

Complete == db.tables = Tables /\ db.hash

\* A gateway serves requests only from a complete schema, and a version says
\* that there is one: whoever has started at the same time, and wherever the
\* ones before have been interrupted.
ServedComplete ==
  (\E g \in Gateways : pc[g] = "serving") \/ db.version => Complete
=============================================================================
