------------------------------- MODULE Deploy -------------------------------
(***************************************************************************)
(* Containers that run deploy/render/start.sh: a gateway, then the core,   *)
(* and the shell that looks after both.  The platform starts a container   *)
(* again when it has ended; while a new version is deployed there are two, *)
(* with one database.                                                      *)
(*                                                                         *)
(* An operator whose comment starts with DEFECT is a plausible mistake in  *)
(* the operator after it, which the specification does not use.            *)
(***************************************************************************)
EXTENDS Migration

CONSTANT MaxFailures  \* bound on failures of any kind

ASSUME DeployAssumption == MaxFailures \in Nat

VARIABLES
  shell,    \* what start.sh is doing
  core,     \* whether channelwire-server is running
  failures  \* how many there have been

containerVars == <<shell, core, failures>>
vars == <<migrationVars, containerVars>>

\* The state has its shape, and a core runs only while start.sh looks after it.
TypeOK ==
  /\ MigrationTypeOK
  /\ shell \in [Gateways -> {"ended", "probing", "watching"}]
  /\ core \in [Gateways -> BOOLEAN]
  /\ failures \in 0..MaxFailures
  /\ \A c \in Gateways : core[c] => shell[c] = "watching"

Init ==
  /\ MigrationInit
  /\ shell = [c \in Gateways |-> "ended"]
  /\ core = [c \in Gateways |-> FALSE]
  /\ failures = 0

\* The platform starts the container, and start.sh the gateway.
Begin(c) ==
  /\ shell[c] = "ended"
  /\ shell' = [shell EXCEPT ![c] = "probing"]
  /\ Start(c)
  /\ UNCHANGED <<core, failures>>

\* The gateway goes on with its start.
Gateway(c) == SetUp(c) /\ UNCHANGED containerVars

\* The probe has got an answer: the core is started.
Answered(c) ==
  /\ shell[c] = "probing" /\ pc[c] = "serving"
  /\ shell' = [shell EXCEPT ![c] = "watching"]
  /\ core' = [core EXCEPT ![c] = TRUE]
  /\ UNCHANGED <<migrationVars, failures>>

\* DEFECT: only the gateway is killed.
EndOfGateway(c) ==
  /\ shell' = [shell EXCEPT ![c] = "ended"]
  /\ Goto(c, "down")
  /\ UNCHANGED <<atomic, db, alembic, todo, core>>

\* The shell is gone, and with it the container and what runs in it.
End(c) ==
  /\ shell' = [shell EXCEPT ![c] = "ended"]
  /\ core' = [core EXCEPT ![c] = FALSE]
  /\ Goto(c, "down")
  /\ UNCHANGED <<atomic, db, alembic, todo>>

\* The probe does not look whether the gateway is still there.
DeadlinePasses(c) ==
  /\ shell[c] = "probing" /\ pc[c] = "down"
  /\ End(c) /\ UNCHANGED failures

\* DEFECT: only the gateway is looked at.
HalfDownGateway(c) == shell[c] = "watching" /\ pc[c] = "down"

\* kill -0 finds one of the two no more.
HalfDown(c) == shell[c] = "watching" /\ (pc[c] = "down" \/ ~core[c])

\* The end of the loop: both are killed and waited for.
StopBoth(c) == HalfDown(c) /\ End(c) /\ UNCHANGED failures

Fails == failures < MaxFailures /\ failures' = failures + 1

\* A gateway, or a core, dies.
Dies(c) ==
  /\ Fails
  /\ \/ pc[c] # "down" /\ Goto(c, "down") /\ UNCHANGED core
     \/ core[c] /\ core' = [core EXCEPT ![c] = FALSE] /\ UNCHANGED pc
  /\ UNCHANGED <<atomic, db, alembic, todo, shell>>

\* SIGTERM: the trap kills both, and the loop goes on to notice.
Terminated(c) ==
  /\ Fails /\ shell[c] = "watching"
  /\ Goto(c, "down") /\ core' = [core EXCEPT ![c] = FALSE]
  /\ UNCHANGED <<atomic, db, alembic, todo, shell>>

\* The container is killed, or the start has taken longer than the deadline.
Killed(c) == Fails /\ shell[c] # "ended" /\ End(c)

Next ==
  \E c \in Gateways :
    \/ Begin(c) \/ Gateway(c) \/ Answered(c) \/ DeadlinePasses(c)
    \/ StopBoth(c) \/ Dies(c) \/ Terminated(c) \/ Killed(c)

\* The platform starts what has ended, and processes go on.
Fairness ==
  \A c \in Gateways :
    /\ WF_vars(Begin(c)) /\ WF_vars(Gateway(c)) /\ WF_vars(Answered(c))
    /\ WF_vars(DeadlinePasses(c)) /\ WF_vars(StopBoth(c))

Spec == Init /\ [][Next]_vars /\ Fairness

Up(c) == shell[c] = "watching" /\ pc[c] = "serving" /\ core[c]

\* A container in which one of the two has died comes to its end, so that the
\* platform can start it again.
HalfDownEnds ==
  \A c \in Gateways :
    shell[c] = "watching" /\ (pc[c] = "down" \/ ~core[c]) ~> shell[c] = "ended"

\* Whatever the start that was interrupted has left in the database, every
\* container gets to serve in the end if data definition is transactional.
Recovers ==
  \A c \in Gateways : <>[](~atomic \/ Up(c))
=============================================================================
