------------------------------ MODULE Migrations ------------------------------
(***************************************************************************)
(* Opening the profile database and bringing its schema up to date         *)
(* (migrations.py, and the part of profile_storage.py that opens it).      *)
(*                                                                         *)
(* Processes of different kantrip versions share one database file: a      *)
(* version is known by the length of its chain of migrations.  Whoever     *)
(* changes the schema holds the maintenance lock; whoever only reads does  *)
(* not, and reads statement by statement outside any transaction.          *)
(***************************************************************************)
EXTENDS Naturals

CONSTANTS Procs,
          Latest,       \* process -> last sequence of its bundled chain
          MaxSequence,  \* the last sequence any version knows
          NoHistory,    \* there is no schema_migrations table
          Other,        \* tables no chain creates
          NoProc

ASSUME ChainAssumption ==
  /\ MaxSequence \in Nat
  /\ Latest \in [Procs -> 1..MaxSequence]
ASSUME NullAssumption ==
  NoHistory \notin 0..MaxSequence /\ Other \notin 0..MaxSequence /\ NoProc \notin Procs

\* What is in a database: user_version, how many migrations its history
\* records, whether those are the ones of the chain (names, checksums), and
\* which migrations its tables are the result of.
Databases == [version : 0..MaxSequence, history : 0..MaxSequence \cup {NoHistory},
              sound : BOOLEAN, tables : 0..MaxSequence \cup {Other}]
Empty == [version |-> 0, history |-> NoHistory, sound |-> TRUE, tables |-> 0]
At(n) == [version |-> n, history |-> n, sound |-> TRUE, tables |-> n]

\* write: writable_connection of add, edit, remove.  repair: doctor --repair.
\* read: load_profiles.  look: doctor, which never migrates.
Commands == {"write", "repair", "read", "look"}
Places == {"idle", "find", "version", "tables", "rows", "wait", "create", "inspect",
           "backup", "begin", "apply", "verify", "commit", "use", "load"}
Outcomes == {"none", "missing", "rejected", "pending", "busy", "failed", "done"}

VARIABLES
  exists,   \* does the file exist?
  db,       \* its committed contents
  backups,  \* contents of the finished backups
  lock,     \* holder of the maintenance lock
  place, command,
  seen,     \* process -> what an unlocked inspection has read so far
  draft,    \* process -> contents inside its transaction
  again,    \* process -> has it been through a migration already?
  outcome

vars == <<exists, db, backups, lock, place, command, seen, draft, again, outcome>>
diskVars == <<exists, db, backups>>

Init ==
  /\ exists \in BOOLEAN /\ db \in Databases
  /\ ~exists => db = Empty
  /\ backups = {} /\ lock = NoProc
  /\ place = [p \in Procs |-> "idle"]
  /\ command = [p \in Procs |-> "look"]
  /\ seen = [p \in Procs |-> Empty]
  /\ draft = [p \in Procs |-> Empty]
  /\ again = [p \in Procs |-> FALSE]
  /\ outcome = [p \in Procs |-> "none"]

-----------------------------------------------------------------------------
(* inspect_migrations: what a version with n migrations makes of contents d *)

WithoutHistory(d) == IF d.tables = 0 /\ d.version = 0 THEN "new" ELSE "rejected"

ValidRows(d, n) == d.sound /\ d.history <= n

\* The tables are compared with the schema of the last sequence, or with an
\* empty database; in between, the history is trusted.
TablesFit(d, n) ==
  /\ d.history = n => d.tables = n
  /\ d.history = 0 => d.tables = 0

Inspection(d, n) ==
  CASE d.history = NoHistory -> WithoutHistory(d)
    [] d.history # NoHistory /\ ~(ValidRows(d, n) /\ d.version = d.history /\ TablesFit(d, n))
       -> "rejected"
    [] d.history # NoHistory /\ ValidRows(d, n) /\ d.version = d.history /\ TablesFit(d, n)
       -> IF d.history = n THEN "current" ELSE "pending"

RequiresMigration(d, n) == Inspection(d, n) \in {"new", "pending"}

-----------------------------------------------------------------------------
Goes(p, from, to) == place[p] = from /\ place' = [place EXCEPT ![p] = to]

\* The command ends; a lock it holds is released, a transaction rolled back.
Ends(p, what) ==
  /\ place' = [place EXCEPT ![p] = "idle"]
  /\ outcome' = [outcome EXCEPT ![p] = what]
  /\ lock' = IF lock = p THEN NoProc ELSE lock
  /\ UNCHANGED <<command, seen, draft, again>>

Request(p, c) ==
  /\ Goes(p, "idle", IF c = "write" THEN "wait" ELSE "find")
  /\ command' = [command EXCEPT ![p] = c]
  /\ again' = [again EXCEPT ![p] = FALSE]
  /\ outcome' = [outcome EXCEPT ![p] = "none"]
  /\ UNCHANGED <<diskVars, lock, seen, draft>>

Missing(p) ==
  /\ place[p] = "find" /\ ~exists
  /\ Ends(p, "missing") /\ UNCHANGED diskVars

Find(p) ==
  /\ exists
  /\ Goes(p, "find", IF command[p] = "repair" THEN "wait" ELSE "version")
  /\ UNCHANGED <<diskVars, lock, command, seen, draft, again, outcome>>

-----------------------------------------------------------------------------
(* Reading without the lock: inspect_profile_database, load_profiles *)

Reads(p, field, value) ==
  /\ seen' = [seen EXCEPT ![p][field] = value]
  /\ UNCHANGED <<diskVars, lock, command, draft, again, outcome>>

ReadVersion(p) == Goes(p, "version", "tables") /\ Reads(p, "version", db.version)

\* The table names, which also say whether there is a history to read.
ReadTables(p) ==
  /\ Goes(p, "tables", "rows")
  /\ seen' = [seen EXCEPT ![p].tables = db.tables, ![p].history = db.history]
  /\ UNCHANGED <<diskVars, lock, command, draft, again, outcome>>

\* The rows of the history, read in a statement of their own.
Snapshot(p) ==
  IF seen[p].history = NoHistory THEN seen[p]
  ELSE [seen[p] EXCEPT !.history = db.history, !.sound = db.sound,
                       !.tables = IF db.history = Latest[p] THEN db.tables ELSE @]

Judge(p) == Inspection(Snapshot(p), Latest[p])

MayMigrate(p) == command[p] = "read" /\ ~again[p]

ReadRows(p) ==
  /\ seen' = [seen EXCEPT ![p] = Empty]
  /\ \/ /\ Judge(p) = "current"
        /\ Goes(p, "rows", "load")
     \/ /\ Judge(p) \in {"new", "pending"} /\ MayMigrate(p)
        /\ Goes(p, "rows", "wait")
  /\ UNCHANGED <<diskVars, lock, command, draft, again, outcome>>

ReadRejected(p) ==
  /\ place[p] = "rows"
  /\ \/ Judge(p) = "rejected" /\ Ends(p, "rejected")
     \/ Judge(p) \in {"new", "pending"} /\ ~MayMigrate(p) /\ Ends(p, "pending")
  /\ UNCHANGED diskVars

Load(p) ==
  /\ place[p] = "load"
  /\ Ends(p, "done") /\ UNCHANGED diskVars

-----------------------------------------------------------------------------
(* With the lock: writable_connection, migrate_profile_database *)

\* Mutant of TakeLock: nothing is locked.
EnterUnlocked(p) ==
  /\ Goes(p, "wait", IF command[p] = "write" THEN "create" ELSE "inspect")
  /\ UNCHANGED <<diskVars, lock, command, seen, draft, again, outcome>>
TakeLock(p) ==
  /\ lock = NoProc /\ lock' = p
  /\ Goes(p, "wait", IF command[p] = "write" THEN "create" ELSE "inspect")
  /\ UNCHANGED <<diskVars, command, seen, draft, again, outcome>>

\* Five seconds have passed.
LockBusy(p) ==
  /\ place[p] = "wait" /\ lock # NoProc
  /\ Ends(p, "busy") /\ UNCHANGED diskVars

\* O_CREAT | O_EXCL; an empty file is a new database.
Create(p) ==
  /\ Goes(p, "create", "inspect")
  /\ exists' = TRUE
  /\ UNCHANGED <<db, backups, lock, command, seen, draft, again, outcome>>

Rejects(p) ==
  /\ place[p] \in {"inspect", "begin"}
  /\ Inspection(db, Latest[p]) = "rejected"
  /\ Ends(p, "rejected") /\ UNCHANGED diskVars

\* Migrated: `read` opens the database anew, the others use the connection.
AfterMigration(p) == IF command[p] = "read" THEN "version" ELSE "use"

\* A reader holds the lock only for the migration.
Proceeds(p, from) ==
  /\ Goes(p, from, AfterMigration(p))
  /\ lock' = IF command[p] = "read" THEN NoProc ELSE lock
  /\ again' = [again EXCEPT ![p] = TRUE]

UpToDate(p) ==
  /\ Inspection(db, Latest[p]) = "current"
  /\ Proceeds(p, "inspect")
  /\ UNCHANGED <<diskVars, command, seen, draft, outcome>>

\* Mutant of NeedsMigration: the old contents are not saved first.
NeedsNoBackup(p) ==
  /\ RequiresMigration(db, Latest[p])
  /\ Goes(p, "inspect", "begin")
  /\ UNCHANGED <<diskVars, lock, command, seen, draft, again, outcome>>
NeedsMigration(p) ==
  /\ RequiresMigration(db, Latest[p])
  /\ Goes(p, "inspect", IF Inspection(db, Latest[p]) = "new" THEN "begin" ELSE "backup")
  /\ UNCHANGED <<diskVars, lock, command, seen, draft, again, outcome>>

\* _create_database_backup: a complete temporary copy gets its name at once.
Backup(p) ==
  /\ Goes(p, "backup", "begin")
  /\ backups' = backups \cup {db}
  /\ UNCHANGED <<exists, db, lock, command, seen, draft, again, outcome>>

\* apply_migrations: one transaction from BEGIN IMMEDIATE to COMMIT.
Begin(p) ==
  /\ RequiresMigration(db, Latest[p])
  /\ Goes(p, "begin", "apply")
  /\ draft' = [draft EXCEPT ![p] =
                 IF db.history = NoHistory THEN [db EXCEPT !.history = 0] ELSE db]
  /\ UNCHANGED <<diskVars, lock, command, seen, again, outcome>>

\* One migration and its history row.
Apply(p) ==
  /\ place[p] = "apply" /\ draft[p].history < Latest[p]
  /\ draft' = [draft EXCEPT
       ![p].history = @ + 1,
       ![p].tables  = IF @ = draft[p].history THEN draft[p].history + 1 ELSE Other]
  /\ UNCHANGED <<diskVars, lock, place, command, seen, again, outcome>>

SetVersion(p) ==
  /\ draft[p].history = Latest[p]
  /\ Goes(p, "apply", "verify")
  /\ draft' = [draft EXCEPT ![p].version = Latest[p]]
  /\ UNCHANGED <<diskVars, lock, command, seen, again, outcome>>

\* Mutant of Verify: the result is not inspected again.
TrustResult(p) ==
  /\ Goes(p, "verify", "commit")
  /\ UNCHANGED <<diskVars, lock, command, seen, draft, again, outcome>>
Verify(p) ==
  /\ Inspection(draft[p], Latest[p]) = "current"
  /\ Goes(p, "verify", "commit")
  /\ UNCHANGED <<diskVars, lock, command, seen, draft, again, outcome>>

Commit(p) ==
  /\ db' = draft[p]
  /\ Proceeds(p, "commit")
  /\ UNCHANGED <<exists, backups, command, seen, draft, outcome>>

\* A statement raises, or the result is not what the chain promises; a COMMIT
\* that raises may have been durable.
MigrationFails(p) ==
  /\ place[p] \in {"backup", "begin", "apply", "verify", "commit"}
  /\ db' \in IF place[p] = "commit" THEN {db, draft[p]} ELSE {db}
  /\ Ends(p, "failed")
  /\ UNCHANGED <<exists, backups>>

\* The body of the command, which works on a schema it knows.
Finish(p) ==
  /\ place[p] = "use"
  /\ Ends(p, "done") /\ UNCHANGED diskVars

\* The process is killed; SQLite rolls back and the kernel unlocks.
Crash(p) ==
  /\ place[p] # "idle"
  /\ Ends(p, "none") /\ UNCHANGED diskVars

Step(p) ==
  \/ Missing(p) \/ Find(p)
  \/ ReadVersion(p) \/ ReadTables(p) \/ ReadRows(p) \/ ReadRejected(p) \/ Load(p)
  \/ TakeLock(p) \/ LockBusy(p) \/ Create(p) \/ Rejects(p) \/ UpToDate(p)
  \/ NeedsMigration(p) \/ Backup(p) \/ Begin(p) \/ Apply(p) \/ SetVersion(p)
  \/ Verify(p) \/ Commit(p) \/ MigrationFails(p) \/ Finish(p)

Next == \E p \in Procs : (\E c \in Commands : Request(p, c)) \/ Step(p) \/ Crash(p)

Spec == Init /\ [][Next]_vars

-----------------------------------------------------------------------------
(* Properties *)

\* Every variable has its type.
TypeOK ==
  /\ exists \in BOOLEAN /\ db \in Databases /\ backups \subseteq Databases
  /\ lock \in Procs \cup {NoProc}
  /\ place \in [Procs -> Places] /\ command \in [Procs -> Commands]
  /\ seen \in [Procs -> Databases] /\ draft \in [Procs -> Databases]
  /\ again \in [Procs -> BOOLEAN] /\ outcome \in [Procs -> Outcomes]

\* A command that writes works on exactly the schema its version knows, for as
\* long as it works, whatever other versions do to the file.
WritesKnownSchema ==
  \A p \in Procs : place[p] = "use" => exists /\ db = At(Latest[p])

\* The contents change only as a whole, from contents that some version found
\* fit to be migrated to the exact end of that version's chain; contents that
\* are foreign, damaged, newer or half-done are never touched.
MigratesWhole ==
  [][db' # db =>
       \E p \in Procs :
         RequiresMigration(db, Latest[p]) /\ db' = At(Latest[p])]_vars

\* Contents worth keeping are in a finished backup before they are changed.
BackedUpFirst ==
  [][db' # db => db = Empty \/ db \in backups]_vars

===============================================================================
