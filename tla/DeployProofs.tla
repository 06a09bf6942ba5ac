---------------------------- MODULE DeployProofs ----------------------------
(***************************************************************************)
(* Proofs about Deploy, for any number of containers, any set of tables    *)
(* and any number of failures: the state has its shape, and nobody serves  *)
(* from an incomplete schema.                                              *)
(*                                                                         *)
(* ServedComplete is not inductive: why a gateway may serve, or write the  *)
(* version, depends on what it has seen and done on the way, while the     *)
(* others change the database under it.  Fits says what each place on the  *)
(* way knows; it is kept by the others because a database only grows.      *)
(***************************************************************************)
EXTENDS Deploy, TLAPS

IsComplete(d) == d.tables = Tables /\ d.hash

\* What a gateway at place, with tables to create, knows of the database d.
Fits(place, tables, d) ==
  /\ place \in {"migrate", "create"} => Tables \ tables \subseteq d.tables
  /\ place = "migrate" /\ Users \notin tables => d.hash
  /\ place \in {"column", "alter"} => d.tables = Tables
  /\ place \in {"stamp", "serving"} => IsComplete(d)

\* Nothing that e lacks is in d.
Grows(d, e) == d.tables \subseteq e.tables /\ (d.hash => e.hash)

Known ==
  /\ \A g \in Gateways : Fits(pc[g], todo[g], db)
  /\ db.version => IsComplete(db)

Sane == MigrationTypeOK /\ Known

Contained ==
  /\ shell \in [Gateways -> {"ended", "probing", "watching"}]
  /\ core \in [Gateways -> BOOLEAN]
  /\ failures \in 0..MaxFailures
  /\ \A c \in Gateways : core[c] => shell[c] = "watching"

IInv == Sane /\ Contained

\* What is known of a database stays true while others add to it.
LEMMA FitsGrown ==
  ASSUME NEW d \in Databases, NEW e \in Databases, Grows(d, e),
         NEW place, NEW tables, Fits(place, tables, d)
  PROVE  Fits(place, tables, e)
<1>1. e.tables \subseteq Tables
  BY DEF Databases
<1> QED
  BY <1>1 DEF Fits, Grows, IsComplete

\* A step of one gateway: it is enough that the database grows and that the
\* gateway itself knows what its new place asks for.
LEMMA StepIsSane ==
  ASSUME Sane, NEW g \in Gateways, NEW place \in Places,
         NEW tables \in SUBSET Tables,
         Goto(g, place), Plan(g, tables),
         atomic' = atomic, alembic' \in [Gateways -> BOOLEAN],
         db' \in Databases, Grows(db, db'),
         Fits(place, tables, db'), db'.version => IsComplete(db')
  PROVE  Sane'
<1>1. MigrationTypeOK'
  BY DEF Sane, MigrationTypeOK, Goto, Plan
<1>2. ASSUME NEW h \in Gateways
      PROVE  Fits(pc'[h], todo'[h], db')
  <2>1. CASE h = g
    BY <2>1 DEF Sane, MigrationTypeOK, Goto, Plan
  <2>2. CASE h # g
    <3>1. pc'[h] = pc[h] /\ todo'[h] = todo[h]
      BY <2>2 DEF Sane, MigrationTypeOK, Goto, Plan
    <3>2. Fits(pc[h], todo[h], db) /\ db \in Databases
      BY DEF Sane, Known, MigrationTypeOK
    <3> QED
      BY <3>1, <3>2, FitsGrown
  <2> QED
    BY <2>1, <2>2
<1> QED
  BY <1>1, <1>2 DEF Sane, Known

\* The plan may stay as it is.
LEMMA SamePlan ==
  ASSUME Sane, NEW g \in Gateways, UNCHANGED todo
  PROVE  Plan(g, todo[g]) /\ todo[g] \in SUBSET Tables
BY DEF Sane, MigrationTypeOK, Plan

\* The place may stay as it is.
LEMMA SamePlace ==
  ASSUME Sane, NEW g \in Gateways, UNCHANGED pc
  PROVE  Goto(g, pc[g]) /\ pc[g] \in Places
BY DEF Sane, MigrationTypeOK, Goto

\* A gateway that ends, or starts anew, knows nothing and may go anywhere
\* from where it need not know anything.
LEMMA MoveIsSane ==
  ASSUME Sane, NEW g \in Gateways, NEW place \in Places,
         Goto(g, place), alembic' \in [Gateways -> BOOLEAN],
         UNCHANGED <<atomic, db, todo>>, Fits(place, todo[g], db)
  PROVE  Sane'
<1>1. db' \in Databases /\ Grows(db, db') /\ (db'.version => IsComplete(db'))
  BY DEF Sane, Known, MigrationTypeOK, Grows
<1>2. Fits(place, todo[g], db')
  OBVIOUS
<1> QED
  BY <1>1, <1>2, SamePlan, StepIsSane

LEMMA EndIsSane ==
  ASSUME Sane, NEW g \in Gateways, Goto(g, "down"),
         UNCHANGED <<atomic, db, alembic, todo>>
  PROVE  Sane'
<1>1. Fits("down", todo[g], db) /\ "down" \in Places
  BY DEF Fits, Places
<1>2. alembic' \in [Gateways -> BOOLEAN]
  BY DEF Sane, MigrationTypeOK
<1> QED
  BY <1>1, <1>2, MoveIsSane

LEMMA StartIsSane ==
  ASSUME Sane, NEW g \in Gateways, Start(g)
  PROVE  Sane'
<1>1. PICK present \in BOOLEAN :
        /\ alembic' = [alembic EXCEPT ![g] = present]
        /\ Goto(g, IF present THEN "inspect" ELSE "check")
  BY DEF Start
<1> DEFINE place == IF present THEN "inspect" ELSE "check"
<1>2. alembic' \in [Gateways -> BOOLEAN]
  BY <1>1 DEF Sane, MigrationTypeOK
<1>3. place \in Places /\ Fits(place, todo[g], db)
  BY DEF Fits, Places
<1>4. UNCHANGED <<atomic, db, todo>>
  BY DEF Start
<1> QED
  BY <1>1, <1>2, <1>3, <1>4, MoveIsSane

LEMMA InspectIsSane ==
  ASSUME Sane, NEW g \in Gateways, Inspect(g)
  PROVE  Sane'
<1> DEFINE place == IF has_unversioned_schema THEN "check" ELSE "upgrade"
<1>1. place \in Places /\ Fits(place, todo[g], db)
  BY DEF Fits, Places
<1>2. alembic' \in [Gateways -> BOOLEAN]
  BY DEF Inspect, Sane, MigrationTypeOK
<1>3. Goto(g, place) /\ UNCHANGED <<atomic, db, todo>>
  BY DEF Inspect
<1> QED
  BY <1>1, <1>2, <1>3, MoveIsSane

\* The version says that the schema is complete.
LEMMA UpgradeIsSane ==
  ASSUME Sane, NEW g \in Gateways, Upgrade(g)
  PROVE  Sane'
<1> DEFINE place == IF db.version THEN "serving" ELSE "migrate"
<1>1. place \in Places /\ Fits(place, Tables, db)
  BY MigrationAssumption DEF Sane, Known, Fits, Places
<1>2. alembic' \in [Gateways -> BOOLEAN] /\ db' = db /\ atomic' = atomic
  BY DEF Upgrade, Sane, MigrationTypeOK
<1>3. db' \in Databases /\ Grows(db, db') /\ (db'.version => IsComplete(db'))
  BY <1>2 DEF Sane, Known, MigrationTypeOK, Grows
<1>4. Goto(g, place) /\ Plan(g, Tables)
  BY DEF Upgrade
<1>5. Fits(place, Tables, db')
  BY <1>1, <1>2
<1> HIDE DEF place
<1> QED
  BY <1>1, <1>2, <1>3, <1>4, <1>5, StepIsSane

\* An error ends the gateway and leaves the database alone.
LEMMA FailIsSane ==
  ASSUME Sane, NEW g \in Gateways, Fail(g), UNCHANGED <<atomic, alembic>>
  PROVE  Sane'
BY EndIsSane DEF Fail

\* Creating some of the tables that are to do leaves the others to do.
LEMMA CreateTablesIsSane ==
  ASSUME Sane, NEW g \in Gateways, pc[g] \in {"migrate", "create"},
         NEW t \in SUBSET todo[g], CreateTables(g, t),
         UNCHANGED <<atomic, alembic>>
  PROVE  Sane'
<1>1. /\ Goto(g, pc[g]) /\ pc[g] \in Places
      /\ todo[g] \in SUBSET Tables /\ db \in Databases
      /\ alembic' \in [Gateways -> BOOLEAN]
      /\ Fits(pc[g], todo[g], db)
  BY SamePlace DEF CreateTables, Sane, Known, MigrationTypeOK
<1>2. /\ db' = [db EXCEPT !.tables = db.tables \cup t,
                          !.hash = db.hash \/ Users \in t]
      /\ Plan(g, todo[g] \ t)
  BY DEF CreateTables
<1>3. db' \in Databases
  BY <1>1, <1>2 DEF Databases
<1>4. /\ db'.tables = db.tables \cup t
      /\ db'.hash = (db.hash \/ Users \in t)
      /\ db'.version = db.version
  BY <1>1, <1>2 DEF Databases
<1>5. Grows(db, db')
  BY <1>4 DEF Grows
<1>6. Fits(pc[g], todo[g] \ t, db')
  <2>1. Tables \ (todo[g] \ t) \subseteq db'.tables
    BY <1>1, <1>4 DEF Fits
  <2>2. pc[g] = "migrate" /\ Users \notin todo[g] \ t => db'.hash
    BY <1>1, <1>4 DEF Fits
  <2> QED
    BY <2>1, <2>2 DEF Fits
<1>7. db'.version => IsComplete(db')
  BY <1>1, <1>3, <1>4 DEF Sane, Known, IsComplete, Databases
<1> QED
  BY <1>1, <1>2, <1>3, <1>5, <1>6, <1>7, StepIsSane

LEMMA MigrateAtOnceIsSane ==
  ASSUME Sane, NEW g \in Gateways, MigrateAtOnce(g),
         UNCHANGED <<atomic, alembic>>
  PROVE  Sane'
<1>1. CASE Collides(g, Tables)
  BY <1>1, FailIsSane DEF Collides
<1>2. CASE db' = Migrated /\ Goto(g, "serving") /\ UNCHANGED todo
  <2>1. /\ "serving" \in Places /\ Migrated \in Databases
        /\ IsComplete(Migrated) /\ Fits("serving", todo[g], Migrated)
    BY DEF Places, Migrated, Databases, IsComplete, Fits
  <2>2. Grows(db, db')
    BY <1>2 DEF Sane, MigrationTypeOK, Databases, Grows, Migrated
  <2>3. alembic' \in [Gateways -> BOOLEAN]
    BY DEF Sane, MigrationTypeOK
  <2> QED
    BY <1>2, <2>1, <2>2, <2>3, SamePlan, StepIsSane
<1> QED
  BY <1>1, <1>2 DEF MigrateAtOnce

\* What is written besides the tables.
LEMMA WriteIsSane ==
  ASSUME Sane, NEW g \in Gateways, NEW place \in Places, Goto(g, place),
         UNCHANGED <<atomic, alembic, todo>>,
         db' \in Databases, Grows(db, db'),
         Fits(place, todo[g], db'), db'.version => IsComplete(db')
  PROVE  Sane'
<1>1. alembic' \in [Gateways -> BOOLEAN]
  BY DEF Sane, MigrationTypeOK
<1> QED
  BY <1>1, SamePlan, StepIsSane

\* The table of versions says nothing yet.
LEMMA VersionsIsSane ==
  ASSUME Sane, NEW g \in Gateways, db' = [db EXCEPT !.versions = TRUE],
         UNCHANGED <<atomic, alembic, todo, pc>>
  PROVE  Sane'
<1>1. /\ db \in Databases /\ Fits(pc[g], todo[g], db)
      /\ db.version => IsComplete(db)
  BY DEF Sane, Known, MigrationTypeOK
<1>2. /\ db' \in Databases /\ Grows(db, db')
      /\ db'.tables = db.tables /\ db'.hash = db.hash
      /\ db'.version = db.version
  BY <1>1 DEF Databases, Grows
<1>3. Fits(pc[g], todo[g], db') /\ (db'.version => IsComplete(db'))
  BY <1>1, <1>2 DEF Fits, IsComplete
<1> QED
  BY <1>2, <1>3, SamePlace, WriteIsSane

\* The version is written by one that knows the schema to be complete.
LEMMA VersionIsSane ==
  ASSUME Sane, NEW g \in Gateways, IsComplete(db),
         \/ db' = [db EXCEPT !.version = TRUE]
         \/ db' = [db EXCEPT !.versions = TRUE, !.version = TRUE],
         Goto(g, "serving"), UNCHANGED <<atomic, alembic, todo>>
  PROVE  Sane'
<1>1. db \in Databases
  BY DEF Sane, MigrationTypeOK
<1>2. /\ db' \in Databases
      /\ db'.tables = db.tables /\ db'.hash = db.hash
  BY <1>1 DEF Databases
<1>3. Grows(db, db') /\ IsComplete(db')
  BY <1>2 DEF Grows, IsComplete
<1>4. "serving" \in Places /\ Fits("serving", todo[g], db')
  BY <1>3 DEF Places, Fits
<1> QED
  BY <1>2, <1>3, <1>4, WriteIsSane

\* Once all tables are created the column is there too, because no migration
\* leaves out users.
LEMMA MigrateStepIsSane ==
  ASSUME Sane, NEW g \in Gateways, pc[g] = "migrate", ~atomic,
         MigrateStep(g), UNCHANGED <<atomic, alembic>>
  PROVE  Sane'
<1>1. CASE db' = [db EXCEPT !.versions = TRUE] /\ UNCHANGED <<pc, todo>>
  BY <1>1, VersionsIsSane
<1>2. CASE \E t \in Together(g) : CreateTables(g, t) \/ Collides(g, t)
  <2>1. PICK t \in Together(g) : CreateTables(g, t) \/ Collides(g, t)
    BY <1>2
  <2>2. t \in SUBSET todo[g]
    BY DEF Together
  <2> QED
    BY <2>1, <2>2, CreateTablesIsSane, FailIsSane DEF Collides
<1>3. CASE /\ todo[g] = {} /\ db' = [db EXCEPT !.version = TRUE]
           /\ Goto(g, "serving") /\ UNCHANGED todo
  <2>1. IsComplete(db)
    BY <1>3 DEF Sane, Known, MigrationTypeOK, Databases, Fits, IsComplete
  <2> QED
    BY <1>3, <2>1, VersionIsSane
<1> QED
  BY <1>1, <1>2, <1>3 DEF MigrateStep

LEMMA MigrateIsSane ==
  ASSUME Sane, NEW g \in Gateways, Migrate(g)
  PROVE  Sane'
BY MigrateAtOnceIsSane, MigrateStepIsSane DEF Migrate, Sane, MigrationTypeOK

LEMMA CheckIsSane ==
  ASSUME Sane, NEW g \in Gateways, Check(g)
  PROVE  Sane'
<1>1. /\ Goto(g, "create") /\ Plan(g, Tables \ db.tables)
      /\ db' = db /\ atomic' = atomic /\ alembic' = alembic
  BY DEF Check
<1>2. "create" \in Places /\ Fits("create", Tables \ db.tables, db')
  BY <1>1 DEF Places, Fits
<1>3. /\ db' \in Databases /\ alembic' \in [Gateways -> BOOLEAN]
      /\ Grows(db, db') /\ (db'.version => IsComplete(db'))
  BY <1>1 DEF Sane, Known, MigrationTypeOK, Grows
<1> QED
  BY <1>1, <1>2, <1>3, StepIsSane

LEMMA CreateIsSane ==
  ASSUME Sane, NEW g \in Gateways, Create(g)
  PROVE  Sane'
<1>1. pc[g] = "create" /\ atomic' = atomic /\ alembic' = alembic
  BY DEF Create
<1>2. CASE todo[g] = {} /\ Goto(g, "column") /\ UNCHANGED <<db, todo>>
  <2>1. "column" \in Places /\ Fits("column", todo[g], db)
    BY <1>1, <1>2 DEF Places, Fits, Sane, Known, MigrationTypeOK, Databases
  <2>2. alembic' \in [Gateways -> BOOLEAN]
    BY <1>1 DEF Sane, MigrationTypeOK
  <2> QED
    BY <1>1, <1>2, <2>1, <2>2, MoveIsSane
<1>3. CASE \E t \in Together(g) : CreateTables(g, t) \/ Collides(g, t)
  <2>1. PICK t \in Together(g) : CreateTables(g, t) \/ Collides(g, t)
    BY <1>3
  <2>2. t \in SUBSET todo[g]
    BY DEF Together
  <2> QED
    BY <1>1, <2>1, <2>2, CreateTablesIsSane, FailIsSane DEF Collides
<1> QED
  BY <1>2, <1>3 DEF Create

LEMMA ColumnIsSane ==
  ASSUME Sane, NEW g \in Gateways, Column(g)
  PROVE  Sane'
<1> DEFINE place == IF db.hash THEN Adopted(g) ELSE "alter"
<1>1. place \in Places /\ Fits(place, todo[g], db)
  BY DEF Adopted, Places, Fits, Column, Sane, Known, IsComplete
<1>2. alembic' \in [Gateways -> BOOLEAN]
  BY DEF Column, Sane, MigrationTypeOK
<1>3. Goto(g, place) /\ UNCHANGED <<atomic, db, todo>>
  BY DEF Column
<1> QED
  BY <1>1, <1>2, <1>3, MoveIsSane

LEMMA AlterIsSane ==
  ASSUME Sane, NEW g \in Gateways, Alter(g)
  PROVE  Sane'
<1>1. CASE Fail(g)
  BY <1>1, FailIsSane DEF Alter
<1>2. CASE /\ db' = [db EXCEPT !.hash = TRUE]
           /\ Goto(g, Adopted(g)) /\ UNCHANGED todo
  <2>1. db \in Databases /\ db.tables = Tables
    BY DEF Alter, Sane, Known, Fits, MigrationTypeOK
  <2>2. db' \in Databases /\ db'.tables = db.tables /\ db'.hash
    BY <1>2, <2>1 DEF Databases
  <2>3. Grows(db, db') /\ IsComplete(db')
    BY <2>1, <2>2 DEF Grows, IsComplete
  <2>4. Adopted(g) \in Places /\ Fits(Adopted(g), todo[g], db')
    BY <2>3 DEF Adopted, Places, Fits
  <2>5. atomic' = atomic /\ alembic' = alembic
    BY DEF Alter
  <2> HIDE DEF Adopted
  <2> QED
    BY <1>2, <2>2, <2>3, <2>4, <2>5, WriteIsSane
<1> QED
  BY <1>1, <1>2 DEF Alter

LEMMA StampIsSane ==
  ASSUME Sane, NEW g \in Gateways, Stamp(g)
  PROVE  Sane'
<1>1. IsComplete(db) /\ UNCHANGED <<atomic, alembic, todo>>
  BY DEF Stamp, Sane, Known, Fits
<1>2. CASE db' = [db EXCEPT !.versions = TRUE] /\ UNCHANGED pc
  BY <1>1, <1>2, VersionsIsSane
<1>3. CASE /\ db' = [db EXCEPT !.versions = TRUE, !.version = TRUE]
           /\ Goto(g, "serving")
  BY <1>1, <1>3, VersionIsSane
<1> QED
  BY <1>2, <1>3 DEF Stamp

LEMMA SetUpIsSane ==
  ASSUME Sane, NEW g \in Gateways, SetUp(g)
  PROVE  Sane'
BY InspectIsSane, UpgradeIsSane, MigrateIsSane, CheckIsSane, CreateIsSane,
   ColumnIsSane, AlterIsSane, StampIsSane
   DEF SetUp

-----------------------------------------------------------------------------
(* The containers *)

LEMMA InitIInv == Init => IInv
<1> SUFFICES ASSUME Init PROVE IInv
  OBVIOUS
<1>1. db \in Databases /\ (db.version => IsComplete(db))
  <2>1. CASE db = Empty
    BY <2>1 DEF Empty, Databases
  <2>2. CASE \E hash \in BOOLEAN : db = Unversioned(hash)
    <3>1. PICK hash \in BOOLEAN : db = Unversioned(hash)
      BY <2>2
    <3>2. db = [tables |-> Tables, hash |-> hash, versions |-> FALSE,
                version |-> FALSE]
      BY <3>1 DEF Unversioned, Empty
    <3> QED
      BY <3>2 DEF Databases
  <2>3. CASE db = Migrated
    BY <2>3 DEF Migrated, Databases, IsComplete
  <2> QED
    BY <2>1, <2>2, <2>3 DEF Init, MigrationInit
<1>2. MigrationTypeOK
  BY <1>1 DEF Init, MigrationInit, MigrationTypeOK, Places
<1>3. \A g \in Gateways : Fits(pc[g], todo[g], db)
  BY DEF Init, MigrationInit, Fits
<1>4. Contained
  BY DeployAssumption DEF Init, Contained
<1> QED
  BY <1>1, <1>2, <1>3, <1>4 DEF IInv, Sane, Known

LEMMA EndIInv ==
  ASSUME IInv, NEW c \in Gateways, End(c), failures' \in 0..MaxFailures
  PROVE  IInv'
<1>1. Sane'
  BY EndIsSane DEF IInv, End
<1>2. Contained'
  BY DEF IInv, Contained, End
<1> QED
  BY <1>1, <1>2 DEF IInv

LEMMA FailsInBounds ==
  ASSUME IInv, Fails
  PROVE  failures' \in 0..MaxFailures
BY DeployAssumption DEF IInv, Contained, Fails

LEMMA BeginIInv ==
  ASSUME IInv, NEW c \in Gateways, Begin(c)
  PROVE  IInv'
<1>1. Sane'
  BY StartIsSane DEF IInv, Begin
<1>2. Contained'
  BY DEF IInv, Contained, Begin
<1> QED
  BY <1>1, <1>2 DEF IInv

LEMMA GatewayIInv ==
  ASSUME IInv, NEW c \in Gateways, Gateway(c)
  PROVE  IInv'
<1>1. Sane'
  BY SetUpIsSane DEF IInv, Gateway
<1>2. Contained'
  BY DEF IInv, Contained, Gateway, containerVars
<1> QED
  BY <1>1, <1>2 DEF IInv

\* What the containers do without a gateway changes nothing of it.
LEMMA StayIsSane ==
  ASSUME Sane, UNCHANGED migrationVars
  PROVE  Sane'
BY DEF Sane, Known, MigrationTypeOK, migrationVars

LEMMA AnsweredIInv ==
  ASSUME IInv, NEW c \in Gateways, Answered(c)
  PROVE  IInv'
<1>1. Sane'
  BY StayIsSane DEF IInv, Answered
<1>2. Contained'
  BY DEF IInv, Contained, Answered
<1> QED
  BY <1>1, <1>2 DEF IInv

LEMMA DiesIInv ==
  ASSUME IInv, NEW c \in Gateways, Dies(c)
  PROVE  IInv'
<1>1. Sane'
  <2>1. CASE Goto(c, "down")
    BY <2>1, EndIsSane DEF IInv, Dies
  <2>2. CASE UNCHANGED pc
    BY <2>2, StayIsSane DEF IInv, Dies, migrationVars
  <2> QED
    BY <2>1, <2>2 DEF Dies
<1>2. Contained'
  <2>1. failures' \in 0..MaxFailures
    BY FailsInBounds DEF Dies
  <2> QED
    BY <2>1 DEF IInv, Contained, Dies
<1> QED
  BY <1>1, <1>2 DEF IInv

LEMMA TerminatedIInv ==
  ASSUME IInv, NEW c \in Gateways, Terminated(c)
  PROVE  IInv'
<1>1. Sane'
  BY EndIsSane DEF IInv, Terminated
<1>2. Contained'
  <2>1. failures' \in 0..MaxFailures
    BY FailsInBounds DEF Terminated
  <2> QED
    BY <2>1 DEF IInv, Contained, Terminated
<1> QED
  BY <1>1, <1>2 DEF IInv

LEMMA NextIInv ==
  ASSUME IInv, [Next]_vars
  PROVE  IInv'
<1>1. CASE UNCHANGED vars
  BY <1>1, StayIsSane DEF IInv, Contained, vars, containerVars
<1>2. CASE Next
  <2>1. PICK c \in Gateways :
          \/ Begin(c) \/ Gateway(c) \/ Answered(c) \/ DeadlinePasses(c)
          \/ StopBoth(c) \/ Dies(c) \/ Terminated(c) \/ Killed(c)
    BY <1>2 DEF Next
  <2>2. failures \in 0..MaxFailures
    BY DEF IInv, Contained
  <2>3. CASE DeadlinePasses(c)
    BY <2>2, <2>3, EndIInv DEF DeadlinePasses
  <2>4. CASE StopBoth(c)
    BY <2>2, <2>4, EndIInv DEF StopBoth
  <2>5. CASE Killed(c)
    BY <2>5, EndIInv, FailsInBounds DEF Killed
  <2> QED
    BY <2>1, <2>3, <2>4, <2>5, BeginIInv, GatewayIInv, AnsweredIInv, DiesIInv,
       TerminatedIInv
<1> QED
  BY <1>1, <1>2

LEMMA Invariant == Spec => []IInv
BY InitIInv, NextIInv, PTL DEF Spec

-----------------------------------------------------------------------------
(* What it comes to *)

\* The state has its shape, and no core runs on without start.sh.
THEOREM TypeCorrect == Spec => []TypeOK
<1>1. IInv => TypeOK
  BY DEF IInv, Sane, Contained, TypeOK
<1> QED
  BY <1>1, Invariant, PTL

\* Whoever has started at the same time, and wherever a start has been
\* interrupted: no gateway serves from an incomplete schema, and the version
\* is only ever written into a complete one.
THEOREM ServedIsComplete == Spec => []ServedComplete
<1>1. IInv => ServedComplete
  BY DEF IInv, Sane, Known, Fits, IsComplete, ServedComplete, Complete
<1> QED
  BY <1>1, Invariant, PTL
=============================================================================
