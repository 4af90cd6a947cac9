--------------------------- MODULE MigrationsProofs ---------------------------
(***************************************************************************)
(* Proofs about Migrations: for any number of processes, any lengths of    *)
(* their chains and any contents the database starts with, it is migrated  *)
(* whole and after a backup, and a writer works on the schema it knows.    *)
(*                                                                         *)
(* The invariant ties every place behind the maintenance lock to its       *)
(* holder.  Only the holder changes the contents, so what it has found out *)
(* about them, and its transaction, stay true until it lets go.            *)
(***************************************************************************)
EXTENDS Migrations, TLAPS

\* The places between taking the lock and giving it back.
Locked == {"create", "inspect", "backup", "begin", "apply", "verify", "commit", "use"}
Open   == {"version", "tables", "rows", "load"}

\* A file without a history and without tables: there is nothing to back up.
Blank(d) == d.history = NoHistory /\ d.tables = 0 /\ d.version = 0

HolderInv == \A p \in Procs : place[p] \in Locked <=> lock = p

FoundInv ==
  \A p \in Procs :
    (\/ place[p] \in Open \cup (Locked \ {"create"})
     \/ place[p] = "wait" /\ command[p] # "write") => exists

\* What the holder knows of the committed contents.
PendingInv(p) ==
  /\ place[p] \in {"backup", "begin", "apply", "verify", "commit"} =>
       RequiresMigration(db, Latest[p])
  /\ place[p] \in {"begin", "apply", "verify", "commit"} => db \in backups \/ Blank(db)
  /\ place[p] = "use" => db = At(Latest[p])

\* What the holder knows of its transaction.
DraftInv(p) ==
  /\ place[p] \in {"apply", "verify", "commit"} =>
       draft[p].history \in 0..MaxSequence /\ draft[p].sound = db.sound
  /\ place[p] = "commit" => draft[p] = At(Latest[p])

MigrationInv ==
  /\ TypeOK /\ HolderInv /\ FoundInv
  /\ \A p \in Procs : PendingInv(p) /\ DraftInv(p)

-----------------------------------------------------------------------------
(* What an inspection tells *)

\* The only contents that are current are the exact end of the chain.
LEMMA CurrentIsEnd ==
  ASSUME NEW d \in Databases, NEW n \in 1..MaxSequence, Inspection(d, n) = "current"
  PROVE  d = At(n)
<1>1. d.history # NoHistory /\ ValidRows(d, n) /\ d.version = d.history /\ TablesFit(d, n)
  BY DEF Inspection, WithoutHistory
<1>2. d.history = n
  BY <1>1 DEF Inspection
<1>3. d.sound = TRUE /\ d.version = n /\ d.tables = n
  BY <1>1, <1>2 DEF ValidRows, TablesFit, Databases
<1>4. d = [version |-> d.version, history |-> d.history, sound |-> d.sound, tables |-> d.tables]
  BY DEF Databases
<1> QED
  BY <1>2, <1>3, <1>4 DEF At

\* Only a file without tables and history is new.
LEMMA NewIsBlank ==
  ASSUME NEW d, NEW n, Inspection(d, n) = "new"
  PROVE  Blank(d)
<1>1. d.history = NoHistory
  BY DEF Inspection
<1> QED
  BY <1>1 DEF Inspection, WithoutHistory, Blank

\* The end of a chain is a possible content of a database.
LEMMA EndIsDatabase ==
  ASSUME NEW n \in 0..MaxSequence
  PROVE  At(n) \in Databases
BY DEF At, Databases

\* A blank file with a sound history is the empty one.
LEMMA SoundBlankIsEmpty ==
  ASSUME NEW d \in Databases, Blank(d), d.sound = TRUE
  PROVE  d = Empty
<1>1. d = [version |-> d.version, history |-> d.history, sound |-> d.sound, tables |-> d.tables]
  BY DEF Databases
<1> QED
  BY <1>1 DEF Blank, Empty

\* Every chain ends at a known sequence.
LEMMA LatestKnown == ASSUME NEW p \in Procs PROVE Latest[p] \in 1..MaxSequence /\ MaxSequence \in Nat
BY ChainAssumption

-----------------------------------------------------------------------------
(* Types *)

\* Every step keeps the types.
LEMMA TypeStep == MigrationInv /\ [Next]_vars => TypeOK'
<1> SUFFICES ASSUME MigrationInv, [Next]_vars PROVE TypeOK'
  OBVIOUS
<1>0. TypeOK /\ \A p \in Procs : DraftInv(p)
  BY DEF MigrationInv
<1> USE DEF TypeOK
<1>1. CASE UNCHANGED vars
  BY <1>0, <1>1 DEF vars
<1>2. ASSUME NEW p \in Procs, NEW c \in Commands, Request(p, c) PROVE TypeOK'
  BY <1>0, <1>2 DEF Request, Goes, diskVars, Places, Outcomes
<1>3. ASSUME NEW p \in Procs, NEW what \in Outcomes, Ends(p, what) PROVE
        /\ place' \in [Procs -> Places] /\ outcome' \in [Procs -> Outcomes]
        /\ lock' \in Procs \cup {NoProc}
        /\ UNCHANGED <<command, seen, draft, again>>
  BY <1>0, <1>3 DEF Ends, Places
<1>4. ASSUME NEW p \in Procs,
             Missing(p) \/ ReadRejected(p) \/ Load(p) \/ LockBusy(p) \/ Rejects(p)
               \/ Finish(p) \/ Crash(p)
      PROVE  TypeOK'
  <2>1. \E what \in Outcomes : Ends(p, what)
    BY <1>4 DEF Missing, ReadRejected, Load, LockBusy, Rejects, Finish, Crash, Outcomes
  <2>2. UNCHANGED diskVars
    BY <1>4 DEF Missing, ReadRejected, Load, LockBusy, Rejects, Finish, Crash
  <2> QED
    BY <1>0, <2>1, <2>2, <1>3 DEF diskVars
<1>5. ASSUME NEW p \in Procs, MigrationFails(p) PROVE TypeOK'
  <2>1. Ends(p, "failed") /\ db' \in Databases /\ UNCHANGED <<exists, backups>>
    BY <1>0, <1>5 DEF MigrationFails
  <2> QED
    BY <1>0, <2>1, <1>3 DEF Outcomes
<1>6. ASSUME NEW p \in Procs, Find(p) \/ TakeLock(p) \/ Create(p) PROVE TypeOK'
  BY <1>0, <1>6 DEF Find, TakeLock, Create, Goes, diskVars, Places
<1>7. ASSUME NEW p \in Procs, ReadVersion(p) PROVE TypeOK'
  <2>1. seen' = [seen EXCEPT ![p] = [seen[p] EXCEPT !.version = db.version]]
    BY <1>0, <1>7 DEF ReadVersion, Reads
  <2>2. [seen[p] EXCEPT !.version = db.version] \in Databases
    BY <1>0 DEF Databases
  <2> QED
    BY <1>0, <1>7, <2>1, <2>2 DEF ReadVersion, Reads, Goes, diskVars, Places
<1>8. ASSUME NEW p \in Procs, ReadTables(p) PROVE TypeOK'
  <2>1. seen' = [seen EXCEPT ![p] = [seen[p] EXCEPT !.tables = db.tables, !.history = db.history]]
    BY <1>0, <1>8 DEF ReadTables
  <2>2. [seen[p] EXCEPT !.tables = db.tables, !.history = db.history] \in Databases
    BY <1>0 DEF Databases
  <2> QED
    BY <1>0, <1>8, <2>1, <2>2 DEF ReadTables, Goes, diskVars, Places
<1>9. ASSUME NEW p \in Procs, ReadRows(p) PROVE TypeOK'
  <2>1. Empty \in Databases
    BY ChainAssumption DEF Empty, Databases
  <2> QED
    BY <1>0, <1>9, <2>1 DEF ReadRows, Goes, diskVars, Places
<1>10. ASSUME NEW p \in Procs, UpToDate(p) PROVE TypeOK'
  BY <1>0, <1>10 DEF UpToDate, Proceeds, AfterMigration, Goes, diskVars, Places
<1>11. ASSUME NEW p \in Procs, NeedsMigration(p) \/ Verify(p) PROVE TypeOK'
  BY <1>0, <1>11 DEF NeedsMigration, Verify, Goes, diskVars, Places
<1>12. ASSUME NEW p \in Procs, Backup(p) PROVE TypeOK'
  BY <1>0, <1>12 DEF Backup, Goes, Places
<1>13. ASSUME NEW p \in Procs, Commit(p) PROVE TypeOK'
  BY <1>0, <1>13 DEF Commit, Proceeds, AfterMigration, Goes, Places
<1>14. ASSUME NEW p \in Procs, Begin(p) PROVE TypeOK'
  <2>1. [db EXCEPT !.history = 0] \in Databases
    BY <1>0, ChainAssumption DEF Databases
  <2> QED
    BY <1>0, <1>14, <2>1 DEF Begin, Goes, diskVars, Places
<1>15. ASSUME NEW p \in Procs, Apply(p) PROVE TypeOK'
  <2> DEFINE d == draft[p]
             tables == IF d.tables = d.history THEN d.history + 1 ELSE Other
  <2>1. draft' = [draft EXCEPT ![p] = [d EXCEPT !.history = d.history + 1, !.tables = tables]]
    BY <1>0, <1>15 DEF Apply
  <2>2. d.history + 1 \in 0..MaxSequence
    <3>1. d.history \in 0..MaxSequence /\ d.history < Latest[p]
      BY <1>0, <1>15 DEF Apply, DraftInv
    <3> QED
      BY <3>1, LatestKnown
  <2>3. [d EXCEPT !.history = d.history + 1, !.tables = tables] \in Databases
    BY <1>0, <2>2 DEF Databases
  <2> QED
    BY <1>0, <1>15, <2>1, <2>3 DEF Apply, diskVars
<1>16. ASSUME NEW p \in Procs, SetVersion(p) PROVE TypeOK'
  <2>1. draft' = [draft EXCEPT ![p] = [draft[p] EXCEPT !.version = Latest[p]]]
    BY <1>0, <1>16 DEF SetVersion
  <2>2. [draft[p] EXCEPT !.version = Latest[p]] \in Databases
    BY <1>0, LatestKnown DEF Databases
  <2> QED
    BY <1>0, <1>16, <2>1, <2>2 DEF SetVersion, Goes, diskVars, Places
<1> QED
  BY <1>1, <1>2, <1>4, <1>5, <1>6, <1>7, <1>8, <1>9, <1>10, <1>11, <1>12, <1>13, <1>14,
     <1>15, <1>16 DEF Next, Step

-----------------------------------------------------------------------------
(* The lock and the file *)

\* Every step keeps the places behind the lock with its holder.
LEMMA HolderStep == MigrationInv /\ [Next]_vars => HolderInv'
<1> SUFFICES ASSUME MigrationInv, [Next]_vars PROVE HolderInv'
  OBVIOUS
<1>0. TypeOK /\ HolderInv /\ NoProc \notin Procs
  BY NullAssumption DEF MigrationInv
<1>1. CASE UNCHANGED vars
  BY <1>0, <1>1 DEF vars, HolderInv
<1>2. ASSUME NEW p \in Procs, NEW c \in Commands, Request(p, c) PROVE HolderInv'
  BY <1>0, <1>2 DEF Request, Goes, HolderInv, Locked, TypeOK
<1>3. ASSUME NEW p \in Procs, NEW what \in Outcomes, Ends(p, what) PROVE HolderInv'
  BY <1>0, <1>3 DEF Ends, HolderInv, Locked, TypeOK
<1>4. ASSUME NEW p \in Procs,
             Missing(p) \/ ReadRejected(p) \/ Load(p) \/ LockBusy(p) \/ Rejects(p)
               \/ Finish(p) \/ Crash(p) \/ MigrationFails(p)
      PROVE  HolderInv'
  <2>1. \E what \in Outcomes : Ends(p, what)
    BY <1>4 DEF Missing, ReadRejected, Load, LockBusy, Rejects, Finish, Crash,
                MigrationFails, Outcomes
  <2> QED
    BY <2>1, <1>3
<1>5. ASSUME NEW p \in Procs, Find(p) \/ ReadVersion(p) \/ ReadTables(p) \/ ReadRows(p)
      PROVE  HolderInv'
  BY <1>0, <1>5 DEF Find, ReadVersion, ReadTables, ReadRows, Reads, Goes, HolderInv, Locked, TypeOK
<1>6. ASSUME NEW p \in Procs, TakeLock(p) PROVE HolderInv'
  BY <1>0, <1>6 DEF TakeLock, Goes, HolderInv, Locked, TypeOK
<1>7. ASSUME NEW p \in Procs,
             Create(p) \/ NeedsMigration(p) \/ Backup(p) \/ Begin(p) \/ SetVersion(p) \/ Verify(p)
      PROVE  HolderInv'
  BY <1>0, <1>7 DEF Create, NeedsMigration, Backup, Begin, SetVersion, Verify, Goes, HolderInv,
                    Locked, TypeOK
<1>8. ASSUME NEW p \in Procs, Apply(p) PROVE HolderInv'
  BY <1>0, <1>8 DEF Apply, HolderInv
<1>9. ASSUME NEW p \in Procs, UpToDate(p) \/ Commit(p) PROVE HolderInv'
  BY <1>0, <1>9 DEF UpToDate, Commit, Proceeds, AfterMigration, Goes, HolderInv, Locked, TypeOK
<1> QED
  BY <1>1, <1>2, <1>4, <1>5, <1>6, <1>7, <1>8, <1>9 DEF Next, Step

\* Every step keeps the file where it was found.
LEMMA FoundStep == MigrationInv /\ [Next]_vars => FoundInv'
<1> SUFFICES ASSUME MigrationInv, [Next]_vars PROVE FoundInv'
  OBVIOUS
<1>0. TypeOK /\ FoundInv
  BY DEF MigrationInv
<1>1. CASE UNCHANGED vars
  BY <1>0, <1>1 DEF vars, FoundInv
<1>2. ASSUME NEW p \in Procs, NEW c \in Commands, Request(p, c) PROVE FoundInv'
  BY <1>0, <1>2 DEF Request, Goes, FoundInv, Locked, Open, TypeOK, diskVars
<1>3. ASSUME NEW p \in Procs, NEW what \in Outcomes, Ends(p, what), exists' = exists
      PROVE  FoundInv'
  BY <1>0, <1>3 DEF Ends, FoundInv, Locked, Open, TypeOK
<1>4. ASSUME NEW p \in Procs,
             Missing(p) \/ ReadRejected(p) \/ Load(p) \/ LockBusy(p) \/ Rejects(p)
               \/ Finish(p) \/ Crash(p) \/ MigrationFails(p)
      PROVE  FoundInv'
  <2>1. exists' = exists /\ \E what \in Outcomes : Ends(p, what)
    BY <1>4 DEF Missing, ReadRejected, Load, LockBusy, Rejects, Finish, Crash,
                MigrationFails, Outcomes, diskVars
  <2> QED
    BY <2>1, <1>3
<1>5. ASSUME NEW p \in Procs, Find(p) \/ ReadVersion(p) \/ ReadTables(p)
      PROVE  FoundInv'
  BY <1>0, <1>5 DEF Find, ReadVersion, ReadTables, Reads, Goes, FoundInv, Locked, Open, TypeOK,
                    diskVars
<1>6. ASSUME NEW p \in Procs, ReadRows(p) \/ TakeLock(p) PROVE FoundInv'
  BY <1>0, <1>6 DEF ReadRows, TakeLock, Goes, FoundInv, Locked, Open, TypeOK, diskVars
<1>7. ASSUME NEW p \in Procs,
             NeedsMigration(p) \/ Backup(p) \/ Begin(p) \/ SetVersion(p) \/ Verify(p)
      PROVE  FoundInv'
  BY <1>0, <1>7 DEF NeedsMigration, Backup, Begin, SetVersion, Verify, Goes, FoundInv,
                    Locked, Open, TypeOK, diskVars
<1>8. ASSUME NEW p \in Procs, Create(p) \/ Apply(p) PROVE FoundInv'
  BY <1>0, <1>8 DEF Create, Apply, Goes, FoundInv, diskVars
<1>9. ASSUME NEW p \in Procs, UpToDate(p) \/ Commit(p) PROVE FoundInv'
  BY <1>0, <1>9 DEF UpToDate, Commit, Proceeds, AfterMigration, Goes, FoundInv, Locked, Open,
                    TypeOK, diskVars
<1> QED
  BY <1>1, <1>2, <1>4, <1>5, <1>6, <1>7, <1>8, <1>9 DEF Next, Step

-----------------------------------------------------------------------------
(* What the holder knows *)

\* A step of p leaves what q knows as it is: only the holder changes the disk.
LEMMA BystanderStep ==
  ASSUME MigrationInv, NEW p \in Procs, NEW q \in Procs, p # q,
         place'[q] = place[q], draft'[q] = draft[q],
         UNCHANGED <<db, backups>> \/ place[p] \in Locked
  PROVE  PendingInv(q)' /\ DraftInv(q)'
<1>1. PendingInv(q) /\ DraftInv(q) /\ HolderInv
  BY DEF MigrationInv
<1>2. CASE UNCHANGED <<db, backups>>
  BY <1>1, <1>2 DEF PendingInv, DraftInv, RequiresMigration, Blank
<1>3. CASE place[p] \in Locked
  BY <1>1, <1>3 DEF HolderInv, Locked, PendingInv, DraftInv
<1> QED
  BY <1>2, <1>3

\* A place that needs no knowledge has it.
LEMMA NothingToKnow ==
  ASSUME NEW p \in Procs,
         place'[p] \notin {"backup", "begin", "apply", "verify", "commit", "use"}
  PROVE  PendingInv(p)' /\ DraftInv(p)'
BY DEF PendingInv, DraftInv

\* A step of p keeps what p knows.
LEMMA OwnStep ==
  ASSUME MigrationInv, NEW p \in Procs, (\E c \in Commands : Request(p, c)) \/ Step(p) \/ Crash(p)
  PROVE  PendingInv(p)' /\ DraftInv(p)'
<1>0. TypeOK /\ PendingInv(p) /\ DraftInv(p) /\ Latest[p] \in 1..MaxSequence /\ MaxSequence \in Nat
  BY LatestKnown DEF MigrationInv
<1>1. ASSUME NEW c \in Commands, Request(p, c) PROVE PendingInv(p)' /\ DraftInv(p)'
  BY <1>0, <1>1, NothingToKnow DEF Request, Goes, TypeOK
<1>2. ASSUME NEW what \in Outcomes, Ends(p, what) PROVE PendingInv(p)' /\ DraftInv(p)'
  BY <1>0, <1>2, NothingToKnow DEF Ends, TypeOK
<1>3. CASE Missing(p) \/ ReadRejected(p) \/ Load(p) \/ LockBusy(p) \/ Rejects(p)
             \/ Finish(p) \/ Crash(p) \/ MigrationFails(p)
  <2>1. \E what \in Outcomes : Ends(p, what)
    BY <1>3 DEF Missing, ReadRejected, Load, LockBusy, Rejects, Finish, Crash,
                MigrationFails, Outcomes
  <2> QED
    BY <2>1, <1>2
<1>4. CASE Find(p) \/ ReadVersion(p) \/ ReadTables(p) \/ ReadRows(p) \/ TakeLock(p) \/ Create(p)
  BY <1>0, <1>4, NothingToKnow
     DEF Find, ReadVersion, ReadTables, ReadRows, TakeLock, Create, Goes, TypeOK
<1>5. CASE UpToDate(p)
  <2>1. db = At(Latest[p])
    BY <1>0, <1>5, CurrentIsEnd DEF UpToDate, TypeOK
  <2>2. place'[p] \in {"version", "use"} /\ db' = db
    BY <1>0, <1>5 DEF UpToDate, Proceeds, AfterMigration, Goes, TypeOK, diskVars
  <2> QED
    BY <2>1, <2>2 DEF PendingInv, DraftInv
<1>6. CASE NeedsMigration(p)
  <2>1. RequiresMigration(db, Latest[p]) /\ db' = db /\ backups' = backups
    BY <1>6 DEF NeedsMigration, diskVars
  <2>2. place'[p] = "backup" \/ (place'[p] = "begin" /\ Blank(db))
    BY <1>0, <1>6, NewIsBlank DEF NeedsMigration, Goes, TypeOK
  <2> QED
    BY <2>1, <2>2 DEF PendingInv, DraftInv
<1>7. CASE Backup(p)
  BY <1>0, <1>7 DEF Backup, Goes, PendingInv, DraftInv, TypeOK
<1>8. CASE Begin(p)
  <2>1. place[p] = "begin" /\ place'[p] = "apply" /\ db' = db /\ backups' = backups
    BY <1>0, <1>8 DEF Begin, Goes, TypeOK, diskVars
  <2>2. draft'[p] = IF db.history = NoHistory THEN [db EXCEPT !.history = 0] ELSE db
    BY <1>0, <1>8 DEF Begin, TypeOK
  <2>3. draft'[p].history \in 0..MaxSequence /\ draft'[p].sound = db.sound
    BY <1>0, <2>2 DEF TypeOK, Databases
  <2> QED
    BY <1>0, <2>1, <2>3 DEF PendingInv, DraftInv
<1>9. CASE Apply(p)
  <2>1. place[p] = "apply" /\ place' = place /\ db' = db /\ backups' = backups
        /\ draft[p].history < Latest[p]
    BY <1>9 DEF Apply, diskVars
  <2>2. draft'[p].history = draft[p].history + 1 /\ draft'[p].sound = draft[p].sound
    BY <1>0, <1>9 DEF Apply, TypeOK, Databases
  <2>3. draft[p].history \in 0..MaxSequence
    BY <1>0, <2>1 DEF DraftInv
  <2> QED
    BY <1>0, <2>1, <2>2, <2>3 DEF PendingInv, DraftInv
<1>10. CASE SetVersion(p)
  <2>1. place[p] = "apply" /\ place'[p] = "verify" /\ db' = db /\ backups' = backups
    BY <1>0, <1>10 DEF SetVersion, Goes, TypeOK, diskVars
  <2>2. draft'[p].history = draft[p].history /\ draft'[p].sound = draft[p].sound
    BY <1>0, <1>10 DEF SetVersion, TypeOK, Databases
  <2> QED
    BY <1>0, <2>1, <2>2 DEF PendingInv, DraftInv
<1>11. CASE Verify(p)
  <2>1. place[p] = "verify" /\ place'[p] = "commit" /\ db' = db /\ backups' = backups /\ draft' = draft
    BY <1>0, <1>11 DEF Verify, Goes, TypeOK, diskVars
  <2>2. draft[p] = At(Latest[p])
    BY <1>0, <1>11, CurrentIsEnd DEF Verify, TypeOK
  <2> QED
    BY <1>0, <2>1, <2>2 DEF PendingInv, DraftInv
<1>12. CASE Commit(p)
  <2>1. place[p] = "commit" /\ place'[p] \in {"version", "use"} /\ db' = draft[p]
    BY <1>0, <1>12 DEF Commit, Proceeds, AfterMigration, Goes, TypeOK
  <2> QED
    BY <1>0, <2>1 DEF PendingInv, DraftInv
<1> QED
  BY <1>1, <1>3, <1>4, <1>5, <1>6, <1>7, <1>8, <1>9, <1>10, <1>11, <1>12 DEF Step

\* Who does not step keeps its place and its transaction, and the contents and
\* the backups change only behind the lock.
LEMMA StepIsLocal ==
  ASSUME MigrationInv, NEW p \in Procs, (\E c \in Commands : Request(p, c)) \/ Step(p) \/ Crash(p)
  PROVE  /\ \A q \in Procs \ {p} : place'[q] = place[q] /\ draft'[q] = draft[q]
         /\ UNCHANGED <<db, backups>> \/ place[p] \in Locked
<1>0. TypeOK
  BY DEF MigrationInv
<1>1. CASE \E c \in Commands : Request(p, c)
  BY <1>0, <1>1 DEF Request, Goes, TypeOK, diskVars
<1>2. CASE Missing(p) \/ ReadRejected(p) \/ Load(p) \/ LockBusy(p) \/ Rejects(p)
             \/ Finish(p) \/ Crash(p)
  <2>1. UNCHANGED diskVars /\ \E what \in Outcomes : Ends(p, what)
    BY <1>2 DEF Missing, ReadRejected, Load, LockBusy, Rejects, Finish, Crash, Outcomes
  <2> QED
    BY <1>0, <2>1 DEF Ends, TypeOK, diskVars
<1>3. CASE MigrationFails(p)
  BY <1>0, <1>3 DEF MigrationFails, Ends, TypeOK, Locked
<1>4. CASE Find(p) \/ ReadVersion(p) \/ ReadTables(p) \/ ReadRows(p) \/ TakeLock(p) \/ Create(p)
  BY <1>0, <1>4 DEF Find, ReadVersion, ReadTables, ReadRows, Reads, TakeLock, Create, Goes, TypeOK,
                    diskVars
<1>5. CASE UpToDate(p) \/ NeedsMigration(p) \/ Verify(p)
  BY <1>0, <1>5 DEF UpToDate, NeedsMigration, Verify, Proceeds, Goes, TypeOK, diskVars
<1>6. CASE Backup(p) \/ Commit(p)
  BY <1>0, <1>6 DEF Backup, Commit, Proceeds, Goes, TypeOK, Locked
<1>7. CASE Begin(p) \/ SetVersion(p)
  BY <1>0, <1>7 DEF Begin, SetVersion, Goes, TypeOK, diskVars
<1>8. CASE Apply(p)
  BY <1>0, <1>8 DEF Apply, TypeOK, diskVars
<1> QED
  BY <1>1, <1>2, <1>3, <1>4, <1>5, <1>6, <1>7, <1>8 DEF Step

\* The invariant is inductive.
LEMMA InvStep == MigrationInv /\ [Next]_vars => MigrationInv'
<1> SUFFICES ASSUME MigrationInv, [Next]_vars
             PROVE  \A q \in Procs : PendingInv(q)' /\ DraftInv(q)'
  BY TypeStep, HolderStep, FoundStep DEF MigrationInv
<1>1. CASE UNCHANGED vars
  <2>1. \A q \in Procs : PendingInv(q) /\ DraftInv(q)
    BY DEF MigrationInv
  <2> QED
    BY <1>1, <2>1 DEF vars, PendingInv, DraftInv, RequiresMigration, Blank
<1>2. ASSUME NEW p \in Procs,
             (\E c \in Commands : Request(p, c)) \/ Step(p) \/ Crash(p),
             NEW q \in Procs
      PROVE  PendingInv(q)' /\ DraftInv(q)'
  <2>1. CASE q = p
    BY <1>2, <2>1, OwnStep
  <2>2. CASE q # p
    BY <1>2, <2>2, StepIsLocal, BystanderStep
  <2> QED
    BY <2>1, <2>2
<1> QED
  BY <1>1, <1>2 DEF Next

\* In the beginning nobody holds the lock.
LEMMA InvInit == Init => MigrationInv
<1> SUFFICES ASSUME Init PROVE MigrationInv
  OBVIOUS
<1>1. Empty \in Databases
  BY ChainAssumption DEF Empty, Databases
<1>2. TypeOK
  BY <1>1 DEF Init, TypeOK, Places, Commands, Outcomes
<1>3. HolderInv /\ FoundInv /\ \A p \in Procs : PendingInv(p) /\ DraftInv(p)
  BY NullAssumption DEF Init, HolderInv, FoundInv, PendingInv, DraftInv, Locked, Open
<1> QED
  BY <1>2, <1>3 DEF MigrationInv

-----------------------------------------------------------------------------
(* The theorems *)

\* The invariant holds in every reachable state, whatever the database holds
\* at first and however many processes of whatever versions open it.
THEOREM Invariance == Spec => []MigrationInv
BY InvInit, InvStep, PTL DEF Spec

\* writable_connection hands out a connection to exactly the schema that its
\* version knows, and the schema stays that one for as long as it is used.
THEOREM WritersKnowSchema == Spec => []WritesKnownSchema
<1>1. MigrationInv => WritesKnownSchema
  BY DEF MigrationInv, FoundInv, PendingInv, WritesKnownSchema, Locked
<1> QED
  BY <1>1, Invariance, PTL

\* A step that changes the contents is the commit of a whole, backed-up
\* migration.
LEMMA ChangeIsMigration ==
  ASSUME MigrationInv, [Next]_vars, db' # db
  PROVE  \E p \in Procs : /\ place[p] = "commit" /\ db' = draft[p]
                          /\ PendingInv(p) /\ DraftInv(p)
<1>1. PICK p \in Procs : (\E c \in Commands : Request(p, c)) \/ Step(p) \/ Crash(p)
  BY DEF Next, vars
<1>2. PendingInv(p) /\ DraftInv(p)
  BY DEF MigrationInv
<1>3. Commit(p) \/ MigrationFails(p)
  BY <1>1 DEF Step, Request, Crash, Missing, Find, ReadVersion, ReadTables, ReadRows, Reads,
              ReadRejected, Load, TakeLock, LockBusy, Create, Rejects, UpToDate, NeedsMigration,
              Backup, Begin, Apply, SetVersion, Verify, Finish, diskVars
<1>4. place[p] = "commit" /\ db' = draft[p]
  BY <1>3 DEF Commit, Proceeds, Goes, MigrationFails
<1> QED
  BY <1>2, <1>4

\* apply_migrations takes contents it found fit to the exact end of a chain,
\* or leaves them alone, also when its process dies or COMMIT raises.
THEOREM MigrationsWhole == Spec => MigratesWhole
<1>1. MigrationInv /\ [Next]_vars =>
        (db' # db => \E p \in Procs : RequiresMigration(db, Latest[p]) /\ db' = At(Latest[p]))
  BY ChangeIsMigration DEF PendingInv, DraftInv
<1>2. [][db' # db => \E p \in Procs :
            RequiresMigration(db, Latest[p]) /\ db' = At(Latest[p])]_vars
        <=> MigratesWhole
  BY DEF MigratesWhole
<1> QED
  BY <1>1, <1>2, Invariance, PTL DEF Spec

\* _migrate_existing_database saves contents worth keeping before they change.
THEOREM BackupsFirst == Spec => BackedUpFirst
<1>1. MigrationInv /\ [Next]_vars => (db' # db => db = Empty \/ db \in backups)
  <2> SUFFICES ASSUME MigrationInv, [Next]_vars, db' # db, db \notin backups PROVE db = Empty
    OBVIOUS
  <2>1. PICK p \in Procs : place[p] = "commit" /\ PendingInv(p) /\ DraftInv(p)
    BY ChangeIsMigration
  <2>2. Blank(db) /\ draft[p].sound = db.sound /\ draft[p] = At(Latest[p])
    BY <2>1 DEF PendingInv, DraftInv
  <2>3. draft[p].sound = TRUE
    <3>1. At(Latest[p]).sound = TRUE
      BY DEF At
    <3> QED
      BY <2>2, <3>1
  <2>4. db \in Databases
    BY DEF MigrationInv, TypeOK
  <2> QED
    BY <2>2, <2>3, <2>4, SoundBlankIsEmpty
<1>2. [][db' # db => db = Empty \/ db \in backups]_vars <=> BackedUpFirst
  BY DEF BackedUpFirst
<1> QED
  BY <1>1, <1>2, Invariance, PTL DEF Spec
===============================================================================
