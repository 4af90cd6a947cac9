# Verification of kantrip

TLA+ models of kantrip, the TLC runs that check them on small instances, and
TLAPS proofs of their main theorems. The reference is the code under `src/`;
`PROJECT.json` maps every definition to the lines it stands for.

## 1. The system

kantrip keeps Kafka connection profiles in a SQLite database and their secrets
in a vault of the operating system, and runs a client program with a profile's
connection (`exec`). Everything is a short-lived process; what processes share
is on disk, in the vault, or is a process group and a terminal.

| Component | State it keeps | Operations | Module |
| --- | --- | --- | --- |
| Mutation engine (`profiles`, `credential_mutations`, `mutation_outcomes`, `reconciliation`) | `profiles` and `credential_reconciliation` tables; vault entries | `add`, `edit`, `remove`, `doctor --repair`, resolution for `exec` and `ping` | `ProfileStore`, `CredentialMutations` |
| Database access (`profile_storage`, `maintenance`) | database file, backups, maintenance lock | lock with deadline, open, create, back up, read rows | `CredentialMutations` (lock, rows), `Migrations` (opening) |
| Migrations (`migrations`) | schema and history tables | inspect, migrate, verify | `Migrations` |
| Authentication plans (`profile_auth`, `oauth`) | none (pure) | which references an edit stages, keeps and retires | `AuthenticationPlans` |
| Documents and inputs (`profile_documents`, `cli_inputs`, the JSON schema, part of `profiles`, `kafka`, `registry`) | none (pure) | options and prompts to inputs, inputs to a document, rules, validation | `ProfileDocuments`, `Profiles` |
| Session runtime (`runtime`) | session directories, lock files, markers | create, mark running, close, scan, delete | `SessionStore`, `Sessions` |
| Session material (`session`, `adapter_shims`, `shells`) | files inside a session | plan, write, run, close | `Exec`, `Clients` |
| Supervision (`supervisor`) | the child's process group, signal handlers, deadline, terminal | start, forward, escalate, terminate, restore | `Supervisor`, `Exec` |
| Clients (`adapters`, `adapter_policy`, `adapter_shims`, renderings of `kafka` and `registry`) | none (pure) | admit or refuse a client, configure it | `Clients` |
| macOS vault (`macos_vault`) | keychain file and its items | get, set, delete, create, unlock | `MacosVault` |
| Linux vault (`linux_vault`) | Secret Service collection, items, default alias, windows | get, set, delete, create, unlock | `LinuxVault` |
| Imports (`profile_imports`, `cli_imports`, `*_properties`, `property_mapping`) | none (pure) | convert property files | not modelled |
| Connection checks (`ping`, `strimzi`, `go_build_info`) | none | probe the network, read formats | not modelled |
| Diagnostics (`doctor`) | none | read everything, report | its session scan in `Sessions`, its look at the schema in `Migrations` |
| Command line and output | none | parse, print | reading the profile before the prompts, in `CredentialMutations` and `Profiles` |

Interaction. `add`, `edit`, `remove`, the credential part of `doctor --repair`
and profile resolution hold one maintenance lock (an `flock`) while they use the
database and the vault; they poll it for five seconds. No transaction spans both
stores: the journal table says which references are owed a deletion. `edit`
reads the profile and prompts before it takes the lock. `exec` resolves a
profile, runs the janitor over the session directories, creates its own session
under a session lock, writes the material, runs the child under the supervisor
and closes the session. `doctor` and profile loading read without the
maintenance lock.

What is hard to get right, and hard to test:

* partial failure and crashes between the two stores, and a COMMIT that raises
  (`credential_mutations`, `mutation_outcomes`);
* a profile that changes while its user is asked for credentials, and sequences
  of edits between authentication types (`profiles`, `profile_auth`);
* rules that are applied twice, before the prompts to options and afterwards to
  the document (`cli_inputs`, `profiles`), and decisions that are written twice,
  in Python and in the text of a shim (`adapters`, `adapter_shims`);
* scans that look at a session while its owner creates or deletes it, and
  crashes in the middle of a deletion (`runtime`);
* values of many pieces written by a batch that goes on after a failure, and a
  keychain that locks by itself (`macos_vault`); windows that time out while they
  are answered (`linux_vault`);
* signals around the start and the end of the child, in nested `finally`
  clauses (`supervisor`);
* two versions of kantrip that migrate and read one database (`migrations`).

`PROJECT.json` lists these hazards at their lines with the properties that would
catch each going wrong. What makes each component correct is section 3's table.

## 2. The modules

| Module | Extends or composes | Proofs |
| --- | --- | --- |
| `ProfileStore` | | `ProfileStoreProofs` |
| `CredentialMutations` | implements `ProfileStore` | `CredentialMutationsProofs` |
| `Migrations` | | `MigrationsProofs` |
| `ProfileDocuments`, `AuthenticationPlans`, `Profiles` | each extends the one before | `ProfilesProofs` |
| `SessionStore` | | |
| `Sessions` | implements `SessionStore` | `SessionsProofs` |
| `Clients` | | |
| `Supervisor` | | `ExecProofs` |
| `Exec` | composes `Supervisor`, `Clients`, `SessionStore` | `ExecProofs` |
| `MacosVault`, `LinuxVault` | | `MacosVaultProofs`, `LinuxVaultProofs` |

`MC*` modules hold symmetry sets and instance constants.

### ProfileStore: the contract of the mutation engine

What the engine promises, without processes or failures: `rows`, `owed`, `held`.
References are reserved (`Reserve`) before a value may exist (`Store`), a row
changes as a whole and takes or drops references (`Replace`), and a reference is
forgotten (`Settle`) after its value is gone (`Erase`). `Accounted` says that
every reference is owned by one row with a value, owed, or gone.

### CredentialMutations: the engine

| Variable | Code |
| --- | --- |
| `profiles` | rows of the `profiles` table: UUID, revision, secret references |
| `journal` | rows of `credential_reconciliation`, identified by their UNIQUE reference |
| `vault` | references for which the vault has a value |
| `lock` | the `flock` of `database_maintenance_lock` |
| `pc`, `op`, `target` | where a process is, its command and profile name |
| `seen` | the profile the command line read before it prompted |
| `before`, `after` | the row read under the lock, the row to write |
| `todo`, `current`, `failed` | the loops of staging, reconciliation and reading |
| `exit` | 0 `ok`, 1 `failed`, 3 `pending`, 4 `unknown` |
| `applied` | history: the switch of this command is durable |

The actions follow the code from call to call: `Request` (read, prompt),
`LockBusy`/`OpenRejected`/`Open*` (lock, read again, compare generations, plan),
`Journal`, `StageSecret` (one vault write), `Commit` (one transaction: row,
staged records, retired records), `BeginReconcile`, `DeleteSecret`, `Unjournal`
(one vault deletion, one record), `Reload`. Every call also has an action in
which it raises, with its effect or without where the code cannot know:
`JournalFails`, `StageFails`, `CommitRaises` followed by `Inspect` (which reads
the database back), `TransactionFails`, `DeleteFails`, `UnjournalFails`,
`ReloadFails`. `Crash` may happen anywhere; SQLite rolls back and the kernel
releases the lock.

Abstractions: the fields of a row without credentials are its revision; an edit
may keep any subset of the references and stage any number of new ones (which
ones is what `Profiles` decides); taking the lock and reading the row are one
step, since everybody who changes the row holds the lock; a UUID may be reused
by the model once nothing refers to it, which no execution can tell from a new
one. A keyboard interrupt is a crash. Outside the model: an older copy of the
database or the vault put back by hand.

### Migrations: opening the database

A database is its `user_version`, the length of its history, whether that
history is the chain's, and the migrations its tables are the result of, or
`Other` for tables no chain creates; the run starts from every combination.
A kantrip version is the length of its chain (`Latest`). `write` and `repair`
look for a migration without the lock (`find` to `rows`, statement by statement),
wait for the lock, create the file if it is new, inspect again, back up, and
migrate in one transaction that ends in `Verify`; `read` and `look` never
migrate. A process may die at every place, and a transaction then vanishes.

### ProfileDocuments, AuthenticationPlans, Profiles: what a command means

`ProfileDocuments` has documents, their JSON schema and the cross-field rules
(`RuleViolation`). `AuthenticationPlans` turns options and prompt answers into
inputs and inputs into plans: the new `auth` object, and the references that are
staged, kept and retired, for every Kafka and Registry type. `Profiles` runs
`add`, `edit` (`Ask` reads, `Collect` judges and prompts, `Commit` takes the
lock, compares and commits) and `remove` on one profile name, with whole commands of others while
the user is asked. A secret, a certificate or a name is the number of the command
that set it, so two values are equal exactly if nobody replaced the first.

Abstractions: the staged commit is its contract (all of it at once); labels,
bootstrap servers and the syntax of values; `import`.

### SessionStore and Sessions: session directories

`SessionStore` is the contract of one directory: files appear in it only while its
owner holds it, files are deleted only once the owner closes it or has left it,
and an empty directory goes last. `Sessions` has one step per
system call. A session has `files`, a lock `holder`, an age (`old`) and an `owner`
place; a scanner has a place, the entries `todo`, the `entry` it looks at, the
`names` it has listed and its last `verdict`. `Cleaners` are the janitor and
`doctor --repair`, which take the lock of the runtime root exclusively;
`Doctors` share it. `ScanLimit` is the janitor's limit of 256 entries.

Abstractions: the material is one file; session ids are never used twice;
entries created while a scan runs are seen by the next scan; ownership, mode,
inode and symlink checks; a child that writes into the session.

### Clients and Exec: from a request to its files

`Clients` answers, for a client, a connection shape (which credentials and CA
bundles there are), a release and a reading of the arguments: is the client
admitted (`Capable`, `Direct`, `ShimRuns`), which files does it need (`Told`),
what do these name (`NamedIn`), which Registry sections can be
rendered (`RegistryRenders`, `ConsoleRenders`). `Exec` is one call: resolve, make the session, plan, prepare, start, and
delete afterwards. Supervisor and session owner are one process and die together.
`SessionStore` stands for `Sessions`, which implements it.

### Supervisor: the child and its signals

Between two steps of `run_supervised_process` a signal may arrive: the
forwarder handles it where it is installed (also inside another handler, between
sending the signal and setting the deadline), `KeyboardInterrupt` is raised
where it is not, SIGTERM kills the supervisor. The forwarder is installed and
restored one signal at a time (`Install`, `RestoreHandler`), with SIGINT first
both times. A shell's window-size handler (`resize`) is set before the code
remembers it, and so is the terminal (`saved`). Each clean-up step may be cut off by an
interrupt and the next one runs; the system may refuse to take the terminal back
(`TerminalRefuses`), and the drain of a shell's last output may raise after its
status was read (`BridgeFails`). The child is a group: its leader and whether it
has descendants. `interrupted` and `refused` record where the call was cut off or
refused. SIGHUP is treated as SIGTERM; bytes and window sizes on the PTY are left
out.

### MacosVault and LinuxVault

One step per `security` command or D-Bus call; one process is at work at a time,
as the maintenance lock makes sure of, and may be killed in between. `life` is
what the callers know of a reference, which they store once and delete until
`delete` returns.

macOS: a value has `size` pieces, `items` are those the keychain holds, `pending`
those its batch has still to write; a killed process may leave its batch running
(`Orphans`). The keychain can lock, be unlocked elsewhere or be removed.

Linux: the provider, its windows and its file are external. The vault is missing,
safe, bare (no password) or a GPG wallet, listed or not, perhaps with a
twin of the same label. The user answers, cancels or ignores a window, answers it
late, locks the vault, and moves its file away and back, at any moment, also in the
middle of a call; a new login comes between calls. A window that timed out may stay
on screen, on KDE always and on GNOME when `Dismiss` fails, which the code does not
report (`DismissWindow`, `stray`). The header of a vault's file passes for a good
one when the file is gone or cannot be read (`AcceptCreated`, `NoGpgSeen`); `unseen`
records that. `unkept` records that the vault became KDE's default where nothing
puts it back. Abstract: the time limit of a window is a step, the D-Bus encoding
is left out.

## 3. The runs

| Run | Instance | States | Question |
| --- | --- | --- | --- |
| `mutations` | 2 processes, 2 names, 2 ids, 3 references, 2 owned at once, 2 owed, 2 revisions | 1,073,261 | safety of the engine, its inductive invariant, refinement of `ProfileStore` |
| `termination` | 2 processes, 1 name, 2 references, fair | | does every command end? |
| `migrations` | 2 versions, chains of 1 and 2, all 96 contents | 1,032,211 | is the database migrated whole, after a backup, and used only at a known schema? |
| `profiles` | chosen additions, all pairs of options as first edits, a second edit, others' edits and replacements in between | 190,102 | do edits do what was asked, keep the rest, and leave the right secrets? |
| `profiles_internal` | the same | | violated: see findings |
| `sessions` | 2 sessions, 2 cleaners, 1 doctor, 1 killed scan, scan limit 1 | 521,157 | safety of scans and owners, refinement of `SessionStore` |
| `sessions_collected` | 2 sessions, 1 cleaner, fair | | is an intact crashed session removed? |
| `sessions_crash` | 1 session, 1 cleaner, fair | | violated: see findings |
| `exec` | every client and connection shape, 1 session, 3 forwarded signals, fair | 397,879 | files, signals, group, terminal; does the call end? |
| `macos` | 2 references, 3 pieces, 3 attempts, orphans | 193,650 | safety of stored and deleted values, prompts, creation |
| `macos_leak` | 1 reference of up to 3 pieces | | violated: see findings |
| `linux_vault` | 2 references, both providers, with and without terminal | 250,375 | stored secrets, their vault's protection, windows, the desktop's default |

What the properties say:

* **Engine.** `NoUntrackedSecret`, `LiveSecretsPresent`: no stored secret is unknown
  to both profiles and journal, and no profile lacks one. `ExitHonest`: exit codes are true. `ResolveReadsOneGeneration`,
  `NoLostUpdate`: no mixture of generations is read or overwritten.
  `RepairSettles`: a successful repair leaves nothing. `CommandsEnd`: every
  command ends.
* **Migrations.** `WritesKnownSchema`, `MigratesWhole`, `BackedUpFirst`.
* **Profiles.** `VaultExact`: between commands the vault has exactly the document's
  references and what refused commands left. `EarlyCheckIsSound`: what the check
  before the prompts refuses, the profile layer would refuse. `NothingLost`: an edit never replaces
  what it has not seen. `JudgedBeforeStored`: apart from the one combination it
  names, no options that the connection rules forbid (outcome `forbidden`) are refused
  only after their secrets were stored; what the schema alone refuses is (see the
  divergences). `KeepsUnasked`,
  `AskedIsDone`: an edit changes what its options name and nothing else.
* **Sessions.** `StartNeverContended`, `CloseNeverDisturbed`, `ActiveIsAlive`,
  `IntactIsRemoved`, and the contract.
* **Exec and supervision.** `FilesFit`: the files on disk are those the client
  is told of, with all they name, and no decrypted key without a reader.
  `GateIsEnough`: an admitted client can be prepared. `SameAnswer`: shim and
  direct command admit the same and read the same Registry, with the exceptions it
  lists (the trust Kaskade takes its tokens with is not compared).
  `ChildKeepsItsFiles`, `GroupIsOver`, `KillIsEarned`, `CallEnds`.
  `TerminalGivenBack`: what the call has taken from its process is back when it is
  left, SIGINT's handler always, the rest but for the named places.
* **Vaults.** `StoredReadsWhole`, `RetiredIsGone`, `RefusedOnce`,
  `StoredInSecuredVault`; `AskedOnce`, `StoredUnderPassword`. `DefaultIsKept`: the
  vault is not left as the desktop's default, however its window ended, unless putting
  it back failed or nothing could. `StoredIsKept`: the removal of a rejected new
  vault takes no stored secret with it, whatever was put back meanwhile.

### Bounds

Two processes give every pairwise race on the lock and on a row; a third could
only wait for the lock too. Two identities of a name give removal and re-creation between prompt
and lock (`MaxIdentities` in `Profiles`), two revisions an update between them (`MaxRevision`);
the second name adds sharing and independence. Three references with two owned
at once (`MaxOwned`) let one edit retire, keep and stage at the same time, or
stage two of which one fails; a state that owes three deletions is checked but
not continued (`FewOwed`), and two are enough for one to fail and the other not. `MaxSequence` = 2 is the smallest chain with an
older version that is not new, and a migration left to do. Three pieces
(`MaxPieces`) are the smallest value with a piece before, between and after the
one that fails; `UnlockAttempts` is the code's. Two sessions let an active, an
invalid and a stale entry stand in one scan; `ScanLimit` = 1 truncates it, and
`MaxDeaths` bounds killed scans. One
doctor cannot meet another, so the exception of `ActiveIsAlive` for two of them is
covered by the proof only. Three signals (`MaxSignals`) are a first, a
second and one that finds the call escalated. In `Profiles`, `Ask` and `Add`
wait until no reference is stranded, as after a repair, and the requests of
`MCProfiles` are all pairs of options of a service with every authentication
type, and pairs across services, on the profiles that 29 additions make. Symmetry is used for
sets whose elements no definition tells apart, and never under liveness.

### Fairness

`CredentialMutations!FairSpec` has weak fairness of `Step(p)` for every process:
a running process goes on, each of its calls returns or raises, and the lock is
polled with a deadline. Requests and crashes are not fair. `Sessions!FairSpec`
says that time passes (`GrowOld`), that a started scan goes on, and that kantrip
is run again and again so that a cleaner's turn at the root lock comes (strong
fairness of `Begin`, since other scans may hold the lock in between). Owners are
not fair: a session may run for ever. `Exec!FairSpec` says that the supervisor
goes on between its polls, that the grace passes, and that the system ends a
killed process. The child and its user are not fair: without a signal a child
may run for ever.

### Findings

* `sessions_crash`. `close` and the janitor unlink a session's entries in
  directory order. A crash after the marker or the lock file is gone and before
  the material is leaves a session that every later scan calls invalid and none
  deletes, against README.md:93-94 of the repository.
* `macos_leak`. An entry without head is deleted from piece 1 up to the first
  piece that is not found. A batch that went on after a failed command, or an
  interrupted deletion of the same kind, leaves a gap; the deletion returns
  normally, the journal record is dropped, and the later pieces stay.
* `profiles_internal`. An empty Registry logical cluster or identity pool passes
  every rule on inputs and is refused by the schema, after the client secret was
  stored, as an internal error that profile_storage.py:450-452 says input cannot
  cause.

### Other divergences met while modelling

The properties above name those they would contradict as exceptions, and hold of
everything else in the models.

* Two `doctor` commands at once: each takes the same session lock to find out
  whether it is held, so a crashed session looks active to the other
  (runtime.py:691 under the shared lock of 231), although USAGE.md:643-645 says
  the lock decides whether a session is active (`ActiveIsAlive`).
* A macOS vault whose creating call was cut short is used from then on without a
  check of its password and lock policy, against USAGE.md:1109 and 1113
  (`StoredInSecuredVault`, `unsecured`).
* On Linux, `delete` returns when there is no vault (linux_vault.py:376-378: "A secret
  cannot outlive its vault; retiring it is already done.", and ARCHITECTURE.md:249).
  When the vault's file was only moved away, its restoration brings the secret back and
  the journal has forgotten it (`DeleteFromMissing`, `dropped`); no property covers it.
* A late answer leaves the vault it made, unchecked, and when it comes after the call, on KDE the
  default alias it took (`StoredUnderPassword`, `unchecked`; `DefaultIsKept`,
  `unkept`). A header that cannot be read passes for one with a password
  (linux_vault.py:674-675 and 704-705; `unseen`).
* Supervisor. `KeyboardInterrupt` between `Popen` and the `try`, or in the last
  `finally`, leaves the child running (`GroupIsOver`). A second signal between
  the first one's sending and the setting of the deadline is forwarded, not
  turned into SIGKILL as ARCHITECTURE.md:489-490 and USAGE.md:635-637 say
  (`KillIsEarned` counts handled signals, and does not require the second one to
  kill). Background jobs of an interactive shell are not part of what is waited for.
  Handlers are restored one by one (supervisor.py:46-48): a SIGINT right after
  its own handler is back raises in the loop and leaves the forwarders of SIGTERM
  and SIGHUP, which then hold the process back from ending; the same holds of the
  window-size handler, and of a terminal that the system refuses to give
  back (`TerminalGivenBack`).
* Clients (`SameAnswer`). kcat's shim embeds no capability decision, and Kaskade's
  only in the branch of a consumer with Registry, against COMPATIBILITY.md:33. The
  shims and the direct commands read `-k=registry` differently, and the word
  "registry" as the value of another option sets up the token trust. Client
  versions are read once, when the shell starts (adapters.py:597-607).
* An Apicurio Registry with an encrypted client key is rendered as an empty
  section, since the error is swallowed (session.py, `_registry_properties`;
  `GateIsEnough`).
* Ignored options (`AskedIsDone`): `--username` and
  `--replace-secret kafka.auth.oauth.client-secret` for a Kafka mTLS identity;
  `--unset registry.tls.ca` for a Registry without authentication, against
  USAGE.md:485-490. `add --oauth-scope` without OAuth is ignored as well.
* A document that is refused only when its secrets are stored (profiles.py:599)
  leaves journaled values in the vault until `doctor --repair` (`stranded`). No rule
  sees these: an empty routing of an OAuth Registry, routing for Apicurio, and a
  malformed or empty `edit --registry-url` (cli_options.py:340 has no callback and
  profile_documents.py:196-247 takes any text), which is an internal error like the
  finding above.
* ARCHITECTURE.md:147-148 describes two migrations; the chain in `migrations.py`
  has one, which creates the journal with the rest.

## 4. The proofs

Everything here holds for every value of the constants under the assumptions the
modules name: null values are none of the real ones, bounds are naturals, `Refs`
of `CredentialMutations` is finite, `Latest` gives every process a chain of at
least one migration, requests of `Profiles` give an option one of its choices
(`RequestsAssumption`). Each component has an inductive invariant, since the
properties alone are not inductive, and three facts: it holds initially, every
step keeps it, it implies the properties. TLC checked each inductive invariant on
the instances above before it was proved.

* `ProfileStoreProofs`: `BooksBalance`, the contract keeps `Accounted`.
* `CredentialMutationsProofs`: that the journal never names a live secret depends
  on what a process that is about to switch has staged; that the staged records
  are its own, on nobody else holding the lock; that the row it replaces is the
  one its user saw, on identities never returning. So `IInv` adds to the stores
  (`StoreInv`) the lock's exclusion (`LockInv`), a command's memory and plan at
  each place (`MemoryInv`, `PlanInv`), what a seen generation still says of the
  table (`SeenInv`, `IdInv`), how far a command has come in the two stores
  (`StagingInv`, `CleaningInv`), and that references being staged mean nothing
  to others (`FreshInv`), and that two rows share none (`ReferencesOwnedOnce`, a part of
  `StoreInv` that follows from their being new). Steps are quiet ones, final ones, the switch, or
  beginnings and ends; the first two kinds have one lemma each. From it:
  `StoresAgree`, `OutcomesTrue`, `SnapshotsConsistent`, `UpdatesNotLost`,
  `RepairsSettle`, `SecretsAreThere`, and `Implementation` of `ProfileStore!Spec`: `Journal` is
  `Reserve`, `StageSecret` is `Store`, the switch is `Replace`, `DeleteSecret` and
  `Unjournal` are `Erase` and `Settle`; a step that fails with its effect maps as
  the one that succeeds, every other one is a stutter.
* `MigrationsProofs`: `MigrationInv` says that exactly the places past `wait` hold the
  lock (`HolderInv`), what the holder knows of the file and its contents, which
  nobody else changes (`FoundInv`, `PendingInv`), and what its transaction has drafted (`DraftInv`). A
  lemma says that the database changes in a commit only; `WritersKnowSchema`,
  `MigrationsWhole` and `BackupsFirst` follow, for any number of versions.
* `ExecProofs`: `SupInv` says where the supervisor's handlers can be installed
  (`HandlersInv`), when there is a child (`ChildInv`), that a grace begins after the
  group was asked to end (`GraceInv`), what is over at each `finally` (`EndInv`), who has the
  terminal (`TerminalInv`) and which handler of window sizes is set (`ResizeInv`). From it `LeftGroupIsOver`, `LeftTerminalIsOwn`,
  `KillsAreEarned`. The composition implements `Supervisor` (`ExecSupervises`), so these
  carry over (`ExecEndsWell`), and keeps the store's contract (`ExecKeepsStore`).
  `FilesOutliveChild` adds what phase and session store say together;
  `FilesAlwaysFit`, `GateIsAlwaysEnough` and `AnswersAgree` go through the clients one
  by one, for every shape of connection and reading of the arguments (`PreparedInv`:
  what was admitted, told and written are of one request).
* `ProfilesProofs`: `IInv` says that what is stored was judged, is tagged by service
  and refers to what the vault has (`StoreInv`), and that an edit's generation and
  document stay in step (`EditInv`). Its steps rest on lemmas about the plans of every
  type: `PlanOf` (what a plan retires is what it neither keeps nor supersedes) gives
  `EditExact` and `AdditionExact`, the difference of the two documents is what is
  staged and retired; `DocumentMatches` says that the rules read the same values in
  options and document. From it `VaultIsExact`, `EarlyCheckRejectsNoneInVain`,
  `NothingIsLost`, `JudgedFirst`. `KeepsWhatIsUnasked` and `DoesWhatIsAsked` go one
  service at a time: what an input holds of the options (`KafkaInputHas`,
  `RegistryInputHas`), what the plan makes of the input (`KafkaAuthHas`,
  `RegistryAuthHas`), and, type by type, that the difference of the old and the new
  `auth` object was asked for and that what was asked is in it. The schema says what a stored
  document can have (`KafkaStored`, `RegistryStored`), `Contradicts` and `RequestConflicts` that no
  field is set and unset, a fresh identifier that a replaced secret's reference is new.
* `SessionsProofs`: `SessionsInv` relates an owner's place to its files and lock
  (`OwnerInv`), a scan's place to what it holds and has listed (`ScanInv`), and the lock of the root
  to both (`RootInv`). From it `StartsUncontended`, `ClosesUndisturbed`,
  `ActiveMeansAlive`, and `Implementation` of `SessionStore!Spec`, for any number of
  sessions, cleaners, doctors and deaths.
* `MacosVaultProofs`: `MVInv` says which pieces a value has at each stage of its
  life and of the running call (`PiecesInv`, `WorkInv`), what the keychain may be
  (`KeychainInv`), and what a refusal stops (`AskInv`). From it `StoredValuesAreWhole`,
  `ErasureIsComplete`, `OneRefusal`, `StoresAreSecured`.
* `LinuxVaultProofs`: `LVInv` says what a call that goes to an entry may meet
  (`OpenInv`), what the vault's file is wherever it is (`FileInv`), what a call at each
  place (`CallInv`) and a refusal (`RefusedInv`) may be, what a window's `finally` puts
  back (`DefaultInv`), and that a keyring made by an answered window is empty when it is
  checked (`KeptInv`). From it `OneRefusal`, `DefaultsAreKept`, `StoresAreProtected`,
  `StoredAreKept`.

Type invariants are conjuncts of these invariants; they are proved and not in the runs' lists.

Only model-checked. Liveness (`CommandsEnd`, `CallEnds`, `IntactIsRemoved`): the
prover has no rules for fairness. Every other property that a passing run checks is
stated by a theorem.

## 5. Not modelled

* `import` and the property-file readers (`profile_imports`, `cli_imports`,
  `client_properties`, `registry_properties`, `property_mapping`,
  `properties_syntax`): conversions of text, sequential and without state.
* The scanners of each client's arguments (`adapter_policy`, `_adapter_guard`): an
  argument list is reduced to whether they let it through and how it reads the
  Registry. The kcat shim's early refusal of `-F` (session.py:843-847) is among
  them.
* `ping`, `strimzi`, `go_build_info`: network probes and byte formats. `doctor`'s
  vault and client reports: read-only formatting of answers modelled elsewhere;
  nothing it reads without the lock is used for a change.
* Environment values, shells' startup files, wording, colour, redaction.
* Ownership, mode and symlink checks, file hardening, the WAL files, the choice of
  the runtime root and of the vault's platform, D-Bus encoding, keychain quoting.
* A `PermissionError` of `_terminate_remaining_group` (a descendant that changed its
  user), SIGTTOU while the foreground group is set, and what a forwarder that was
  left does after the call.
* The SQL of the migration and the column-by-column comparison of schemas.
* The order in which a directory is listed, so the janitor's limit of 256 entries is
  modelled for safety only.
* The website, the sandbox and the build scripts are not part of kantrip.
