----------------------------- MODULE Deployment -----------------------------
(***************************************************************************)
(* scripts/deploy-production.sh: a server is brought from one image of the *)
(* program to another.  An image carries the migrations up to its level;   *)
(* the server has the level of its schema, whether a migration failed, the *)
(* image that runs, whether it answers its probe, and the image recorded   *)
(* in current-image.  The pipeline lets one deployment run at a time; a    *)
(* deployment stops at the first command that fails, or is cut off.        *)
(*                                                                         *)
(* A run gives what the commands meet: the image asked for, the level the  *)
(* migrations reach, whether the probes of the new image and of the old    *)
(* one answer in time, and how many of the three steps are taken: no step  *)
(* when an argument, a file, the pull or the configuration is refused.     *)
(***************************************************************************)
EXTENDS Integers, Sequences

NoImage == [id |-> 0, level |-> 0]
Images == [id: Nat, level: Nat]
States == [schema: Nat, failed: BOOLEAN, running: Images, recorded: Images, answers: BOOLEAN]
Runs == [image: Images, reached: Nat, healthy: BOOLEAN, restored: BOOLEAN, steps: 0 .. 3]

\* the image that runs and the one to go back to find the schema they were built for, or a later one
FindsSchema(server) == /\ server.running.level <= server.schema
                       /\ server.recorded.level <= server.schema

\* npm run db:deploy: the pending migrations, in order; none after one that failed
Migrated(server, run) ==
  IF run.steps < 1 \/ server.failed \/ run.image.level <= server.schema THEN server
  ELSE [server EXCEPT !.schema = IF run.reached > @ THEN run.reached ELSE @,
                      !.failed = run.reached < run.image.level]

\* compose up --wait
Started(server, image, answers) == [server EXCEPT !.running = image, !.answers = answers]

\* the probe failed: the recorded image is started again, when there is one
RolledBack(server, run) ==
  IF server.recorded = NoImage THEN server
  ELSE Started(server, server.recorded, run.restored)

\* Fault: the container is replaced before the migrations
DeployedUnmigrated(server, run) ==
  LET started == Started(server, run.image, run.healthy)
      migrated == Migrated(started, run) IN
  IF run.steps < 1 THEN server
  ELSE IF run.steps < 3 \/ migrated.failed THEN migrated
  ELSE IF run.healthy THEN [migrated EXCEPT !.recorded = run.image]
  ELSE RolledBack(migrated, run)

Deployed(server, run) ==
  LET migrated == Migrated(server, run)
      started == Started(migrated, run.image, run.healthy) IN
  IF run.steps < 2 \/ migrated.failed THEN migrated
  ELSE IF run.steps < 3 THEN started
  ELSE IF run.healthy THEN [started EXCEPT !.recorded = run.image]
  ELSE RolledBack(started, run)

\* a series of deployments
Servers(server, runs) ==
  LET after[i \in 0 .. Len(runs)] == IF i = 0 THEN server ELSE Deployed(after[i - 1], runs[i])
  IN [i \in 0 .. Len(runs) |-> after[i]]
=============================================================================
