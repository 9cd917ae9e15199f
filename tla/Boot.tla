-------------------------------- MODULE Boot --------------------------------
(***************************************************************************)
(* Several processes start at the same time: each migrates the database or *)
(* insists that somebody has, and fills the tables a fresh installation    *)
(* needs (main.lifespan, db.py, seed.py, alembic/).  Builds of two         *)
(* revisions may be about, and any process may die anywhere.               *)
(*                                                                         *)
(* An upgrade is one transaction under an advisory lock, but for the early *)
(* migrations that build indexes concurrently: these end the transaction,  *)
(* and the lock with it, half way.  b8adfad43818, the first of the three,  *)
(* stands for all.                                                         *)
(*                                                                         *)
(* A group of rows that are always inserted together is one value.         *)
(***************************************************************************)
EXTENDS Integers, Sequences

CONSTANT Processes

VARIABLES revision,  \* alembic_version: 0 before the concurrent indexes, 1 past them
                     \* and before the fiat currencies, and those of the builds
          columns,   \* the columns these indexes are on, committed
          rows,      \* the groups of rows of each table
          lock,      \* the process that holds the advisory lock
          proc,      \* the processes
          curated,   \* observer: an admin added or deleted rows
          rerun      \* observer: an upgrade began on one that is half committed

database == <<revision, columns, rows>>
vars == <<database, lock, proc, curated, rerun>>

Builds == 2..3
Nobody == "nobody"

(* run_migrations_on_startup, or not; the migrate service of the compose   *)
(* file starts nothing else.                                               *)
Roles == {"migrates", "verifies", "service"}

Tables == <<"categories", "settings", "currencies">>

(* What a seeder inserts into a table that is empty, and in any case.      *)
First == [categories |-> {"all"}, settings |-> {"row"}, currencies |-> {"crypto"}]
Always == [categories |-> {}, settings |-> {}, currencies |-> {"fiat"}]

Empty == [t \in {"categories", "settings", "currencies"} |-> {}]

(* A fresh database, or an installation of some revision.                  *)
Init ==
  /\ \/ revision = 0 /\ rows = Empty
     \/ revision \in 0..3 /\ rows = [First EXCEPT !.currencies =
                                       IF revision < 2 THEN @ ELSE @ \cup {"fiat"}]
  /\ columns = (revision > 0) /\ lock = Nobody /\ curated = FALSE /\ rerun = FALSE
  /\ proc \in [Processes -> [stage : {"off"}, role : Roles, build : Builds,
                             saw : {0}, table : {1}, empty : {FALSE}]]

Enter(p, stage) == proc' = [proc EXCEPT ![p].stage = stage]

(* A production server refuses to boot without Redis, or with one of the   *)
(* development switches on.                                                *)
Start(p, sound) ==
  /\ proc[p].stage = "off"
  /\ Enter(p, CASE ~sound /\ proc[p].role # "service" -> "refused"
               [] proc[p].role = "verifies"           -> "verify"
               [] OTHER                               -> "migrate")
  /\ UNCHANGED <<database, lock, curated, rerun>>

(* Mutant: the upgrade begins without the lock.                            *)
NoLock(p) == UNCHANGED lock

(* pg_advisory_xact_lock: the transaction keeps it to its end.             *)
TakeLock(p) == lock = Nobody /\ lock' = p

(* alembic reads the revision under the lock.                              *)
BeginUpgrade(p) ==
  /\ proc[p].stage = "migrate" /\ TakeLock(p)
  /\ proc' = [proc EXCEPT ![p].stage = "upgrade", ![p].saw = revision]
  /\ rerun' = (rerun \/ (columns /\ revision = 0))
  /\ UNCHANGED <<database, curated>>

Unlock(p) == lock' = IF lock = p THEN Nobody ELSE lock

(* autocommit_block: the columns are committed, the revision not yet, and  *)
(* the lock is gone.  The indexes are built if they are not there, but the *)
(* columns cannot be added twice.                                          *)
BuildIndexes(p) ==
  /\ proc[p].stage = "upgrade" /\ proc[p].saw = 0 /\ Unlock(p)
  /\ Enter(p, IF columns THEN "crashed" ELSE "index")
  /\ columns' = TRUE
  /\ UNCHANGED <<revision, rows, curated, rerun>>

(* CREATE INDEX CONCURRENTLY waits for the transactions that are under     *)
(* way, one of which may wait for the table.                               *)
Deadlock(p) ==
  /\ proc[p].stage = "index"
  /\ \E q \in Processes \ {p} : proc[q].stage = "upgrade" /\ proc[q].saw = 0
  /\ Enter(p, "crashed")
  /\ UNCHANGED <<database, lock, curated, rerun>>

AfterUpgrade(p) == IF proc[p].role = "service" THEN "done" ELSE "select"

(* The rest of the migrations, the fiat currencies unless they are there,  *)
(* and the revision.  A revision the build does not know is refused; steps *)
(* taken by another process meanwhile make the upgrade fail.               *)
EndUpgrade(p) ==
  LET crosses == proc[p].saw < 2
  IN /\ proc[p].stage = IF proc[p].saw = 0 THEN "index" ELSE "upgrade"
     /\ Unlock(p)
     /\ IF proc[p].saw > proc[p].build
        THEN Enter(p, "refused") /\ UNCHANGED database
        ELSE IF proc[p].saw # revision
        THEN Enter(p, "crashed") /\ UNCHANGED database
        ELSE /\ revision' = proc[p].build /\ Enter(p, AfterUpgrade(p))
             /\ rows' = IF crosses THEN [rows EXCEPT !.currencies = @ \cup {"fiat"}] ELSE rows
             /\ UNCHANGED columns
     /\ UNCHANGED <<curated, rerun>>

(* verify_migrations_at_head *)
Verify(p) ==
  /\ proc[p].stage = "verify"
  /\ Enter(p, IF revision = proc[p].build THEN "select" ELSE "refused")
  /\ UNCHANGED <<database, lock, curated, rerun>>

Table(p) == Tables[proc[p].table]

(* The next table, or the server opens.                                    *)
Onwards(q) == IF q.table = Len(Tables) THEN [q EXCEPT !.stage = "serving"]
              ELSE [q EXCEPT !.stage = "select", !.table = @ + 1]

(* The early exit: nothing is inserted into a table that has a row, the    *)
(* fiat currencies apart.                                                  *)
Select(p) ==
  LET empty == rows[Table(p)] = {}
  IN /\ proc[p].stage = "select"
     /\ proc' = [proc EXCEPT ![p] =
          IF empty \/ Always[Table(p)] # {} THEN [@ EXCEPT !.stage = "insert", !.empty = empty]
                                           ELSE Onwards(@)]
     /\ UNCHANGED <<database, lock, curated, rerun>>

(* Mutant: the rows are added without it.                                  *)
ConflictsRaised(t, new) == rows[t] \cap new # {}

(* ON CONFLICT DO NOTHING *)
Conflicts(t, new) == FALSE

Insert(p) ==
  LET t == Table(p)
      new == Always[t] \cup (IF proc[p].empty THEN First[t] ELSE {})
  IN /\ proc[p].stage = "insert"
     /\ IF Conflicts(t, new)
        THEN Enter(p, "crashed") /\ UNCHANGED rows
        ELSE /\ rows' = [rows EXCEPT ![t] = @ \cup new]
             /\ proc' = [proc EXCEPT ![p] = Onwards(@)]
     /\ UNCHANGED <<revision, columns, lock, curated, rerun>>

(* A transaction that is under way is rolled back; what an earlier one     *)
(* committed stays.                                                        *)
Dies(p) ==
  /\ proc[p].stage \notin {"off", "done", "refused", "crashed"} /\ Unlock(p)
  /\ proc' = [proc EXCEPT ![p].stage = "off", ![p].table = 1,
                          ![p].saw = 0, ![p].empty = FALSE]
  /\ UNCHANGED <<database, curated, rerun>>

(* An admin, through a server.                                             *)
Curate(t, changed) ==
  /\ \E p \in Processes : proc[p].stage = "serving"
  /\ rows' = [rows EXCEPT ![t] = changed] /\ curated' = TRUE
  /\ UNCHANGED <<revision, columns, lock, proc, rerun>>

UpsertCategory(c) == Curate("categories", rows.categories \cup {c})

UpsertCurrency(c) == Curate("currencies", rows.currencies \cup {c})

(* Refused while a service, a deal or a balance refers to the row, which   *)
(* is left open.                                                           *)
DeleteCategory(c) == c \in rows.categories /\ Curate("categories", rows.categories \ {c})

DeleteCurrency(c) == c \in rows.currencies /\ Curate("currencies", rows.currencies \ {c})

Next ==
  \/ \E p \in Processes, sound \in BOOLEAN : Start(p, sound)
  \/ \E p \in Processes : BeginUpgrade(p) \/ BuildIndexes(p) \/ Deadlock(p)
  \/ \E p \in Processes : EndUpgrade(p) \/ Verify(p)
  \/ \E p \in Processes : Select(p) \/ Insert(p) \/ Dies(p)
  \/ \E c \in First.categories : UpsertCategory(c) \/ DeleteCategory(c)
  \/ \E c \in First.currencies \cup Always.currencies : UpsertCurrency(c) \/ DeleteCurrency(c)

Spec == Init /\ [][Next]_vars

TypeOK ==
  /\ revision \in 0..3 /\ columns \in BOOLEAN /\ lock \in Processes \cup {Nobody}
  /\ curated \in BOOLEAN /\ rerun \in BOOLEAN
  /\ \A t \in DOMAIN rows : rows[t] \subseteq First[t] \cup Always[t]
  /\ proc \in [Processes ->
       [stage : {"off", "migrate", "upgrade", "index", "verify", "select", "insert",
                 "serving", "done", "refused", "crashed"},
        role : Roles, build : Builds, saw : 0..3, table : 1..3, empty : BOOLEAN]]

(* Processes that boot, migrate and seed at the same time do not bring     *)
(* each other down, whatever builds they are and wherever others died, as  *)
(* long as no upgrade begins on one that is half committed, which only a   *)
(* database from before the concurrent indexes can meet; and whoever       *)
(* serves found the settings, in any case (seed_settings: "the loser ...   *)
(* propagated up as a startup crash"; alembic/env.py: "serialize").        *)
BootsSurvive ==
  \A p \in Processes :
    /\ proc[p].stage = "crashed" => rerun
    /\ proc[p].stage = "serving" => rows.settings # {}

Upgrading == {p \in Processes : proc[p].stage \in {"upgrade", "index"}}

(* Upgrades are serialised (alembic/env.py: "Holding the advisory lock for *)
(* the duration of the upgrade is the smallest change that closes the      *)
(* window").                                                               *)
UpgradesSerialized == \A p, q \in Upgrading : p = q

(* A process that upgrades alone does not crash, be it for an upgrade that *)
(* was cut off before (b8adfad43818: "keep the migration idempotent under  *)
(* retries").                                                              *)
RetriesIdempotent ==
  [][\A p \in Processes : Upgrading = {p} => proc'[p].stage # "crashed"]_vars

(* A server that opens on a fresh installation offers the currencies of    *)
(* the seeder (seed.py, CURRENCIES), whoever created the tables.           *)
CurrenciesSeeded ==
  ~curated => \A p \in Processes : proc[p].stage = "serving" => "crypto" \in rows.currencies
=============================================================================
