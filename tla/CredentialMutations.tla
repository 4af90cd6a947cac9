------------------------- MODULE CredentialMutations -------------------------
(***************************************************************************)
(* The mutation engine that keeps the SQLite profile database and the      *)
(* credential vault consistent although no transaction spans both          *)
(* (credential_mutations.py, mutation_outcomes.py, reconciliation.py,      *)
(* profiles.py, the lock of profile_storage.py, the credential part of     *)
(* maintenance.py).                                                        *)
(*                                                                         *)
(* Several processes run `add`, `edit`, `remove`, `doctor --repair` and    *)
(* the profile resolution of `exec` and `ping`.  What survives a process   *)
(* is `profiles`, `journal` and `vault`; the rest is the memory of one     *)
(* process, lost when it crashes.  A credential reference is an element    *)
(* of Refs; a journal record is identified with its reference, which the   *)
(* schema declares UNIQUE.  The fields of a profile that hold no           *)
(* credential are abstracted by its revision.                              *)
(***************************************************************************)
EXTENDS Integers, FiniteSets

CONSTANTS Procs,        \* concurrently running kantrip commands
          Names,        \* profile names
          Ids,          \* profile UUIDs
          Refs,         \* credential references (each with its own UUID)
          MaxRevision,  \* bound: no edit starts at this revision
          MaxOwned,     \* bound: references one profile holds
          NoProc, NoName, NoRow, NoRef

ASSUME BoundsAssumption == MaxRevision \in Nat \ {0} /\ MaxOwned \in Nat
ASSUME NullAssumption == NoProc \notin Procs /\ NoName \notin Names /\ NoRef \notin Refs
ASSUME FiniteAssumption == IsFiniteSet(Refs)

VARIABLES
  profiles,  \* the profiles table: name -> row or NoRow
  journal,   \* credential_reconciliation: references owed a deletion
  vault,     \* references the vault holds a value for
  lock,      \* owner of the database maintenance lock
  pc,        \* where each process is
  op,        \* the command it runs
  target,    \* the profile name it was given
  seen,      \* the row it read before it took the lock
  before,    \* the row it read under the lock
  after,     \* the row it is about to write
  todo,      \* references its present loop has still to handle
  current,   \* the reference deleted from the vault but still journaled
  failed,    \* ReconciliationResult.failed > 0
  exit,      \* the outcome reported to the user
  applied    \* history: this command's switch is durable

durable == <<profiles, journal, vault>>
memory  == <<op, target, seen, before, after>>
loop    == <<todo, current, failed>>
vars    == <<durable, lock, pc, memory, loop, exit, applied>>

-----------------------------------------------------------------------------
(* Rows, references and commands *)

Row == [id : Ids, revision : 1..MaxRevision, refs : SUBSET Refs]
RowOrNone == Row \cup {NoRow}
ASSUME NoRowAssumption == NoRow \notin Row

Mutations == {"add", "edit", "remove"}
Ops == Mutations \cup {"repair", "resolve"}

RefsOf(row) == IF row = NoRow THEN {} ELSE row.refs
Live == UNION {RefsOf(profiles[n]) : n \in Names}

\* The references a command stages are those only its new row has; the ones
\* it retires are those only the old row has.
Staged(p)  == RefsOf(after[p]) \ RefsOf(before[p])
Retired(p) == RefsOf(before[p]) \ RefsOf(after[p])

\* Exit 0, 1, 3 and 4.
Exits == {"none", "ok", "failed", "pending", "unknown"}

\* Places at which the process owns the maintenance lock.
Locked == {"journal", "stage", "commit", "inspect", "reconcile", "delete",
           "unjournal", "reload", "fetch"}
Places == {"idle", "collecting", "done"} \cup Locked

\* uuid4 never returns an identifier that anything still refers to.
FreshRef(r) ==
  /\ r \notin Live \cup journal \cup vault
  /\ \A p \in Procs : r \notin RefsOf(before[p]) \cup RefsOf(after[p])
FreshId(i) ==
  /\ \A n \in Names : profiles[n] # NoRow => profiles[n].id # i
  /\ \A p \in Procs : \A row \in {seen[p], before[p], after[p]} :
        row # NoRow => row.id # i

-----------------------------------------------------------------------------
Init ==
  /\ profiles = [n \in Names |-> NoRow]
  /\ journal = {} /\ vault = {}
  /\ lock = NoProc
  /\ pc = [p \in Procs |-> "idle"]
  /\ op = [p \in Procs |-> "none"]
  /\ target = [p \in Procs |-> NoName]
  /\ seen = [p \in Procs |-> NoRow]
  /\ before = [p \in Procs |-> NoRow]
  /\ after = [p \in Procs |-> NoRow]
  /\ todo = [p \in Procs |-> {}]
  /\ current = [p \in Procs |-> NoRef]
  /\ failed = [p \in Procs |-> FALSE]
  /\ exit = [p \in Procs |-> "none"]
  /\ applied = [p \in Procs |-> FALSE]

GoTo(p, place) == pc' = [pc EXCEPT ![p] = place]

\* Report an outcome; leaving the `with` block closes the lock descriptor.
Report(p, code) ==
  /\ GoTo(p, "done")
  /\ exit' = [exit EXCEPT ![p] = code]
  /\ lock' = IF lock = p THEN NoProc ELSE lock
  /\ todo' = [todo EXCEPT ![p] = {}]
  /\ current' = [current EXCEPT ![p] = NoRef]
  /\ failed' = [failed EXCEPT ![p] = FALSE]
  /\ UNCHANGED memory

-----------------------------------------------------------------------------
(* Before the lock *)

\* The command line reads the row it is about to change, prompts, and only
\* then asks for the lock; `add` draws the new profile's UUID.
Request(p, o, n) ==
  /\ pc[p] = "idle"
  /\ GoTo(p, "collecting")
  /\ op' = [op EXCEPT ![p] = o]
  /\ target' = [target EXCEPT ![p] = IF o = "repair" THEN NoName ELSE n]
  /\ \/ /\ o = "add"
        /\ \E i \in Ids :
             /\ FreshId(i)
             /\ after' = [after EXCEPT
                            ![p] = [id |-> i, revision |-> 1, refs |-> {}]]
        /\ UNCHANGED seen
     \/ /\ o \in {"edit", "remove"}
        /\ profiles[n] # NoRow
        /\ o = "edit" => profiles[n].revision < MaxRevision
        /\ seen' = [seen EXCEPT ![p] = profiles[n]]
        /\ UNCHANGED after
     \/ /\ o \in {"repair", "resolve"}
        /\ UNCHANGED <<seen, after>>
  /\ UNCHANGED <<durable, lock, before, loop, exit, applied>>

\* Mutant of LockBusy: the poll has no deadline.
PollForever(p) ==
  /\ pc[p] = "collecting" /\ lock # NoProc
  /\ UNCHANGED vars

\* Five seconds of polling passed and the lock is still taken.
LockBusy(p) ==
  /\ pc[p] = "collecting" /\ lock # NoProc
  /\ Report(p, "failed")
  /\ UNCHANGED <<durable, applied>>

-----------------------------------------------------------------------------
(* Taking the lock: read the row, check the generation, plan the change *)

Enter(p, place, row) ==
  /\ pc[p] = "collecting" /\ lock = NoProc
  /\ lock' = p
  /\ GoTo(p, place)
  /\ before' = [before EXCEPT ![p] = row]
  /\ UNCHANGED <<durable, op, target, seen, current, failed, exit, applied>>

\* Mutant of SameGeneration: only the revision is compared.
SameRevision(p) ==
  LET row == profiles[target[p]] IN row # NoRow /\ row.revision = seen[p].revision

\* The profile is still there, with the UUID and revision the command saw.
SameGeneration(p) ==
  LET row == profiles[target[p]] IN
  row # NoRow /\ row.id = seen[p].id /\ row.revision = seen[p].revision

Acceptable(p) ==
  /\ op[p] = "add" => profiles[target[p]] = NoRow
  /\ op[p] \in {"edit", "remove"} => SameGeneration(p)
  /\ op[p] = "resolve" => profiles[target[p]] # NoRow

\* "already exists", "not found", "changed while credentials were collected".
OpenRejected(p) ==
  /\ pc[p] = "collecting" /\ lock = NoProc
  /\ ~Acceptable(p)
  /\ Report(p, "failed")
  /\ UNCHANGED <<durable, applied>>

\* A change that stages nothing goes straight to its transaction.
PlanPlace(new) == IF new = {} THEN "commit" ELSE "journal"

NewRefs == {new \in SUBSET Refs : \A r \in new : FreshRef(r)}

OpenAdd(p) ==
  /\ op[p] = "add" /\ Acceptable(p)
  /\ \E new \in NewRefs :
       /\ Cardinality(new) <= MaxOwned
       /\ Enter(p, PlanPlace(new), NoRow)
       /\ after' = [after EXCEPT ![p].refs = new]
  /\ UNCHANGED todo

OpenEdit(p) ==
  /\ op[p] = "edit" /\ Acceptable(p)
  /\ LET row == profiles[target[p]] IN
     \E new \in NewRefs, kept \in SUBSET row.refs :
       /\ Cardinality(new \cup kept) <= MaxOwned
       /\ Enter(p, PlanPlace(new), row)
       /\ after' = [after EXCEPT ![p] = [id |-> row.id,
                                        revision |-> row.revision + 1,
                                        refs |-> kept \cup new]]
  /\ UNCHANGED todo

OpenRemove(p) ==
  /\ op[p] = "remove" /\ Acceptable(p)
  /\ Enter(p, "commit", profiles[target[p]])
  /\ UNCHANGED <<after, todo>>

OpenRepair(p) ==
  /\ op[p] = "repair"
  /\ Enter(p, "reconcile", NoRow)
  /\ UNCHANGED <<after, todo>>

\* Mutant of OpenResolve: the row is read without the lock.
ResolveUnlocked(p) ==
  /\ pc[p] = "collecting"
  /\ op[p] = "resolve" /\ Acceptable(p)
  /\ GoTo(p, "fetch")
  /\ before' = [before EXCEPT ![p] = profiles[target[p]]]
  /\ todo' = [todo EXCEPT ![p] = RefsOf(profiles[target[p]])]
  /\ UNCHANGED <<durable, lock, op, target, seen, after, current, failed, exit, applied>>

OpenResolve(p) ==
  /\ op[p] = "resolve" /\ Acceptable(p)
  /\ Enter(p, "fetch", profiles[target[p]])
  /\ todo' = [todo EXCEPT ![p] = RefsOf(profiles[target[p]])]
  /\ UNCHANGED after

Open(p) ==
  OpenAdd(p) \/ OpenEdit(p) \/ OpenRemove(p) \/ OpenRepair(p) \/ OpenResolve(p)

-----------------------------------------------------------------------------
(* stage_secret_replacements: journal every new reference, then store it *)

Journal(p) ==
  /\ pc[p] = "journal"
  /\ journal' = journal \cup Staged(p)
  /\ todo' = [todo EXCEPT ![p] = Staged(p)]
  /\ GoTo(p, "stage")
  /\ UNCHANGED <<profiles, vault, lock, memory, current, failed, exit, applied>>

\* The statement or its COMMIT raises; the records may be durable all the same.
JournalFails(p) ==
  /\ pc[p] = "journal"
  /\ journal' \in {journal, journal \cup Staged(p)}
  /\ Report(p, "failed")
  /\ UNCHANGED <<profiles, vault, applied>>

\* set, then get and compare.
StageSecret(p, r) ==
  /\ pc[p] = "stage" /\ r \in todo[p]
  /\ vault' = vault \cup {r}
  /\ todo' = [todo EXCEPT ![p] = @ \ {r}]
  /\ GoTo(p, IF todo[p] = {r} THEN "commit" ELSE "stage")
  /\ UNCHANGED <<profiles, journal, lock, memory, current, failed, exit, applied>>

\* Mutant of StageFails: the error of the vault is swallowed.
StageUnstored(p, r) ==
  /\ pc[p] = "stage" /\ r \in todo[p]
  /\ todo' = [todo EXCEPT ![p] = @ \ {r}]
  /\ GoTo(p, IF todo[p] = {r} THEN "commit" ELSE "stage")
  /\ UNCHANGED <<durable, lock, memory, current, failed, exit, applied>>

\* The vault raises, with or without having stored the value.  The records
\* stay: a later repair deletes whatever is there.
StageFails(p, r) ==
  /\ pc[p] = "stage" /\ r \in todo[p]
  /\ vault' \in {vault, vault \cup {r}}
  /\ Report(p, "failed")
  /\ UNCHANGED <<profiles, journal, applied>>

-----------------------------------------------------------------------------
(* commit_secret_replacements, commit_profile_removal, commit_with_evidence *)

\* The row the UPDATE or DELETE is conditioned on, and the journal records
\* the transaction verifies or must be able to insert.
CanSwitch(p) ==
  /\ profiles[target[p]] = before[p]
  /\ Staged(p) \subseteq journal
  /\ Retired(p) \cap journal = {}

\* One SQLite transaction: the row, the staged records and the retired ones.
Switch(p) ==
  /\ profiles' = [profiles EXCEPT ![target[p]] = after[p]]
  /\ journal' = (journal \ Staged(p)) \cup Retired(p)
  /\ applied' = [applied EXCEPT ![p] = TRUE]

Commit(p) ==
  /\ pc[p] = "commit" /\ CanSwitch(p)
  /\ Switch(p)
  /\ GoTo(p, IF Retired(p) = {} THEN "reload" ELSE "reconcile")
  /\ UNCHANGED <<vault, lock, memory, loop, exit>>

\* COMMIT raises and the transaction may or may not be durable.
CommitRaises(p) ==
  /\ pc[p] = "commit" /\ CanSwitch(p)
  /\ \/ Switch(p)
     \/ UNCHANGED <<profiles, journal, applied>>
  /\ GoTo(p, "inspect")
  /\ UNCHANGED <<vault, lock, memory, loop, exit>>

\* A statement before COMMIT raises (or matches no row): rolled back.
TransactionFails(p) ==
  /\ pc[p] = "commit"
  /\ Report(p, "failed")
  /\ UNCHANGED <<durable, applied>>

\* The database reopened read-only still shows the row and the owned journal
\* records of one side of the transaction.
Shows(p, row, present, absent) ==
  /\ profiles[target[p]] = row
  /\ present \subseteq journal
  /\ absent \cap journal = {}

\* Mutant of ObservedOutcome: the exception is taken as proof of a rollback.
AssumedOutcome(p) == "failed"

ObservedOutcome(p) ==
  LET old == Shows(p, before[p], Staged(p), Retired(p))
      new == Shows(p, after[p], Retired(p), Staged(p)) IN
  IF new /\ ~old THEN "pending"
  ELSE IF old /\ ~new THEN "failed" ELSE "unknown"

Inspect(p) ==
  /\ pc[p] = "inspect"
  /\ Report(p, ObservedOutcome(p))
  /\ UNCHANGED <<durable, applied>>

InspectFails(p) ==
  /\ pc[p] = "inspect"
  /\ Report(p, "unknown")
  /\ UNCHANGED <<durable, applied>>

-----------------------------------------------------------------------------
(* reconcile_secret_cleanup: own records after a switch, all in a repair *)

AfterSwitchError(p) == IF op[p] \in Mutations THEN "pending" ELSE "failed"

Selected(p) == IF op[p] = "repair" THEN journal ELSE Retired(p)

BeginReconcile(p) ==
  /\ pc[p] = "reconcile"
  /\ journal \cap Live = {}
  /\ Selected(p) \subseteq journal
  /\ todo' = [todo EXCEPT ![p] = Selected(p)]
  /\ GoTo(p, "delete")
  /\ UNCHANGED <<durable, lock, memory, current, failed, exit, applied>>

\* A journaled reference is live, the journal cannot be read, or the vault
\* cannot be loaded: nothing is deleted.
ReconcileAborts(p) ==
  /\ pc[p] = "reconcile"
  /\ Report(p, AfterSwitchError(p))
  /\ UNCHANGED <<durable, applied>>

\* Mutant of DeleteSecret: the record is dropped before the value.
DropRecordFirst(p, r) ==
  /\ pc[p] = "delete" /\ r \in todo[p]
  /\ journal' = journal \ {r}
  /\ todo' = [todo EXCEPT ![p] = @ \ {r}]
  /\ current' = [current EXCEPT ![p] = r]
  /\ GoTo(p, "unjournal")
  /\ UNCHANGED <<profiles, vault, lock, memory, failed, exit, applied>>

DeleteSecret(p, r) ==
  /\ pc[p] = "delete" /\ r \in todo[p]
  /\ vault' = vault \ {r}
  /\ todo' = [todo EXCEPT ![p] = @ \ {r}]
  /\ current' = [current EXCEPT ![p] = r]
  /\ GoTo(p, "unjournal")
  /\ UNCHANGED <<profiles, journal, lock, memory, failed, exit, applied>>

\* Mutants of DeleteFails: the record goes although the value may stay; the
\* failure is not counted.
DropFailedRecord(p, r) ==
  /\ pc[p] = "delete" /\ r \in todo[p]
  /\ vault' \in {vault, vault \ {r}}
  /\ journal' = journal \ {r}
  /\ todo' = [todo EXCEPT ![p] = @ \ {r}]
  /\ UNCHANGED <<profiles, failed, lock, pc, memory, current, exit, applied>>
UncountedFailure(p, r) ==
  /\ pc[p] = "delete" /\ r \in todo[p]
  /\ vault' \in {vault, vault \ {r}}
  /\ todo' = [todo EXCEPT ![p] = @ \ {r}]
  /\ UNCHANGED <<profiles, journal, failed, lock, pc, memory, current, exit, applied>>

\* The vault raises; the record stays and the loop goes on with the next.
DeleteFails(p, r) ==
  /\ pc[p] = "delete" /\ r \in todo[p]
  /\ vault' \in {vault, vault \ {r}}
  /\ todo' = [todo EXCEPT ![p] = @ \ {r}]
  /\ failed' = [failed EXCEPT ![p] = TRUE]
  /\ UNCHANGED <<profiles, journal, lock, pc, memory, current, exit, applied>>

Unjournal(p) ==
  /\ pc[p] = "unjournal"
  /\ journal' = journal \ {current[p]}
  /\ current' = [current EXCEPT ![p] = NoRef]
  /\ GoTo(p, "delete")
  /\ UNCHANGED <<profiles, vault, lock, memory, todo, failed, exit, applied>>

UnjournalFails(p) ==
  /\ pc[p] = "unjournal"
  /\ journal' \in {journal, journal \ {current[p]}}
  /\ Report(p, AfterSwitchError(p))
  /\ UNCHANGED <<profiles, vault, applied>>

EndReconcile(p) ==
  /\ pc[p] = "delete" /\ todo[p] = {}
  /\ GoTo(p, "reload")
  /\ UNCHANGED <<durable, lock, memory, loop, exit, applied>>

-----------------------------------------------------------------------------
(* Completion *)

\* A mutation reads the whole table back before it reports success.
Reload(p) ==
  /\ pc[p] = "reload"
  /\ Report(p, IF failed[p] THEN AfterSwitchError(p) ELSE "ok")
  /\ UNCHANGED <<durable, applied>>

\* Reading back, closing or hardening the database files raises.
ReloadFails(p) ==
  /\ pc[p] = "reload" /\ op[p] \in Mutations
  /\ Report(p, "pending")
  /\ UNCHANGED <<durable, applied>>

\* resolve_profile_snapshot reads every secret of one row under the lock.
FetchSecret(p, r) ==
  /\ pc[p] = "fetch" /\ r \in todo[p] /\ r \in vault
  /\ todo' = [todo EXCEPT ![p] = @ \ {r}]
  /\ UNCHANGED <<durable, lock, pc, memory, current, failed, exit, applied>>

FetchFails(p) ==
  /\ pc[p] = "fetch"
  /\ Report(p, "failed")
  /\ UNCHANGED <<durable, applied>>

EndFetch(p) ==
  /\ pc[p] = "fetch" /\ todo[p] = {}
  /\ Report(p, "ok")
  /\ UNCHANGED <<durable, applied>>

-----------------------------------------------------------------------------
(* The end of a process *)

Forget(p) ==
  /\ GoTo(p, "idle")
  /\ op' = [op EXCEPT ![p] = "none"]
  /\ target' = [target EXCEPT ![p] = NoName]
  /\ seen' = [seen EXCEPT ![p] = NoRow]
  /\ before' = [before EXCEPT ![p] = NoRow]
  /\ after' = [after EXCEPT ![p] = NoRow]
  /\ todo' = [todo EXCEPT ![p] = {}]
  /\ current' = [current EXCEPT ![p] = NoRef]
  /\ failed' = [failed EXCEPT ![p] = FALSE]
  /\ exit' = [exit EXCEPT ![p] = "none"]
  /\ applied' = [applied EXCEPT ![p] = FALSE]
  /\ UNCHANGED durable

Return(p) ==
  /\ pc[p] = "done"
  /\ Forget(p)
  /\ UNCHANGED lock

\* Mutant of Crash: the lock is a file that outlives its owner.
CrashKeepsLock(p) ==
  /\ pc[p] \notin {"idle", "done"}
  /\ Forget(p)
  /\ UNCHANGED lock

\* SIGKILL, an interrupt or a power cut: SQLite rolls back the transaction
\* and the kernel releases the lock.
Crash(p) ==
  /\ pc[p] \notin {"idle", "done"}
  /\ Forget(p)
  /\ lock' = IF lock = p THEN NoProc ELSE lock

Step(p) ==
  \/ LockBusy(p) \/ OpenRejected(p) \/ Open(p)
  \/ Journal(p) \/ JournalFails(p)
  \/ \E r \in Refs : StageSecret(p, r) \/ StageFails(p, r)
  \/ Commit(p) \/ CommitRaises(p) \/ TransactionFails(p)
  \/ Inspect(p) \/ InspectFails(p)
  \/ BeginReconcile(p) \/ ReconcileAborts(p)
  \/ \E r \in Refs : DeleteSecret(p, r) \/ DeleteFails(p, r)
  \/ Unjournal(p) \/ UnjournalFails(p) \/ EndReconcile(p)
  \/ Reload(p) \/ ReloadFails(p)
  \/ \E r \in Refs : FetchSecret(p, r)
  \/ FetchFails(p) \/ EndFetch(p)
  \/ Return(p)

Next ==
  \E p \in Procs :
    \/ \E o \in Ops, n \in Names : Request(p, o, n)
    \/ Step(p)
    \/ Crash(p)

Spec == Init /\ [][Next]_vars

\* No command waits for another one for ever: the lock is polled for five
\* seconds and every other step is a call that returns or raises.
FairSpec == Spec /\ \A p \in Procs : WF_vars(Step(p))

-----------------------------------------------------------------------------
(* Properties *)

\* Every variable has its type.
TypeOK ==
  /\ profiles \in [Names -> RowOrNone]
  /\ journal \subseteq Refs /\ vault \subseteq Refs
  /\ lock \in Procs \cup {NoProc}
  /\ pc \in [Procs -> Places]
  /\ op \in [Procs -> Ops \cup {"none"}]
  /\ target \in [Procs -> Names \cup {NoName}]
  /\ seen \in [Procs -> RowOrNone]
  /\ before \in [Procs -> RowOrNone]
  /\ after \in [Procs -> RowOrNone]
  /\ todo \in [Procs -> SUBSET Refs]
  /\ current \in [Procs -> Refs \cup {NoRef}]
  /\ failed \in [Procs -> BOOLEAN]
  /\ exit \in [Procs -> Exits]
  /\ applied \in [Procs -> BOOLEAN]

\* A value in the vault that no profile uses is always on record for
\* deletion, whatever failed or crashed: cleanup intent is journaled before
\* the vault write and erased after the vault deletion.
NoUntrackedSecret == vault \subseteq Live \cup journal

\* A profile never refers to a value that was not stored or is deleted
\* already, also while its replacement is staged, switched and retired.
LiveSecretsPresent == Live \subseteq vault

\* A reference on record for deletion belongs to no profile, so a repair may
\* delete every journaled reference.
CleanupNeverLive == journal \cap Live = {}

\* Exit 1 means the change did not happen, exit 0 and 3 that it did, also
\* when COMMIT raised and the outcome had to be read back.
ExitHonest ==
  \A p \in Procs : op[p] \in Mutations =>
    /\ exit[p] = "failed" => ~applied[p]
    /\ exit[p] \in {"ok", "pending"} => applied[p]

\* Exit 0 of a mutation means nothing of it is left to clean up.
SuccessIsClean ==
  \A p \in Procs : (op[p] \in Mutations /\ exit[p] = "ok") =>
    Retired(p) \cap (vault \cup journal) = {}

\* While `exec` or `ping` reads the secrets of a row, the row stays the
\* current one and none of its secrets is missing.
ResolveReadsOneGeneration ==
  \A p \in Procs : pc[p] = "fetch" =>
    /\ before[p] = profiles[target[p]]
    /\ RefsOf(before[p]) \subseteq vault

\* `edit` and `remove` replace exactly the row the command line showed and
\* prompted for before it had the lock, also when the profile was meanwhile
\* removed and created again.
NoLostUpdate ==
  [][\A p \in Procs :
       (op[p] \in {"edit", "remove"} /\ ~applied[p] /\ applied'[p])
         => profiles[target[p]] = seen[p]]_vars

\* A repair that reports success has emptied the journal and left in the
\* vault exactly what the profiles refer to, whatever crashed before it.
RepairSettles ==
  [][\A p \in Procs :
       (op[p] = "repair" /\ exit[p] = "none" /\ exit'[p] = "ok")
         => journal' = {} /\ vault' = Live']_vars

\* Every command ends, whatever the others do and however often they fail.
CommandsEnd == \A p \in Procs : pc[p] # "idle" ~> pc[p] = "idle"

\* The processes, their lock, their failures and their crashes together do
\* only what the two-store contract of ProfileStore allows.
Contract == INSTANCE ProfileStore WITH rows <- profiles, owed <- journal, held <- vault
ImplementsProfileStore == Contract!Spec

-----------------------------------------------------------------------------
(* The inductive invariant: what is known at each place, which the safety  *)
(* properties alone do not say                                             *)

Switching == {"journal", "stage", "commit"}
Cleaning == {"reconcile", "delete", "unjournal", "reload"}

\* The maintenance lock excludes.
LockInv == \A p \in Procs : pc[p] \in Locked <=> lock = p

\* Two profiles never hold the same reference, since every one is new.
ReferencesOwnedOnce ==
  \A m, n \in Names : m # n => RefsOf(profiles[m]) \cap RefsOf(profiles[n]) = {}

\* What the two stores look like between any two steps.
StoreInv ==
  /\ NoUntrackedSecret
  /\ LiveSecretsPresent
  /\ CleanupNeverLive
  /\ ReferencesOwnedOnce
  /\ \A m, n \in Names :
        (profiles[m] # NoRow /\ profiles[n] # NoRow
           /\ profiles[m].id = profiles[n].id) => m = n

\* The shape of a command's memory at each place.
MemoryInv(p) ==
  /\ pc[p] = "idle" => seen[p] = NoRow /\ before[p] = NoRow /\ after[p] = NoRow
  /\ pc[p] = "collecting" => before[p] = NoRow /\ RefsOf(after[p]) = {}
  /\ pc[p] # "idle" => op[p] \in Ops
  /\ (pc[p] # "idle" /\ op[p] # "repair") => target[p] \in Names
  /\ pc[p] \in Switching \cup {"inspect"} => op[p] \in Mutations
  /\ pc[p] \in Cleaning => op[p] \in Mutations \cup {"repair"}
  /\ pc[p] = "fetch" => op[p] = "resolve"
  /\ exit[p] = "none" <=> pc[p] # "done"
  /\ pc[p] \in {"idle", "collecting"} \cup Switching => ~applied[p]
  /\ (pc[p] \in Cleaning /\ op[p] \in Mutations) => applied[p]

\* How the row to write follows from the row that was read.
PlanInv(p) ==
  /\ (pc[p] \in {"collecting"} \cup Switching /\ op[p] = "add") =>
        before[p] = NoRow /\ after[p] # NoRow /\ after[p].revision = 1
  /\ (pc[p] = "collecting" /\ op[p] = "edit") =>
        seen[p] # NoRow /\ seen[p].revision < MaxRevision
  /\ (pc[p] \in Switching /\ op[p] = "edit") =>
        /\ before[p] # NoRow /\ after[p] # NoRow
        /\ after[p].id = before[p].id
        /\ after[p].revision = before[p].revision + 1
  /\ (pc[p] \in {"collecting"} \cup Switching /\ op[p] = "remove") =>
        after[p] = NoRow
  /\ (pc[p] \in Switching /\ op[p] = "remove") => before[p] # NoRow

\* Generations identify rows: while a command that saw a row waits for the
\* lock, a row with its UUID and revision is that row.
SeenInv(p) ==
  /\ (pc[p] = "collecting" /\ op[p] \in {"edit", "remove"}) =>
        /\ seen[p] # NoRow
        /\ \A n \in Names :
             (profiles[n] # NoRow /\ profiles[n].id = seen[p].id) =>
               /\ n = target[p]
               /\ profiles[n].revision >= seen[p].revision
               /\ profiles[n].revision = seen[p].revision => profiles[n] = seen[p]
  /\ (pc[p] \in Switching /\ op[p] \in {"edit", "remove"}) => before[p] = seen[p]

\* The UUID a pending `add` drew is nobody else's.
Adding(p) == op[p] = "add" /\ pc[p] \in {"collecting"} \cup Switching
IdInv(p) ==
  Adding(p) =>
    /\ \A n \in Names : profiles[n] # NoRow => profiles[n].id # after[p].id
    /\ \A q \in Procs : seen[q] # NoRow => seen[q].id # after[p].id
    /\ \A q \in Procs \ {p} : Adding(q) => after[q].id # after[p].id

\* How far a command under the lock has come in the two stores.
StagingInv(p) ==
  /\ pc[p] \in Switching => before[p] = profiles[target[p]]
  /\ pc[p] = "journal" => Staged(p) \cap (Live \cup journal \cup vault) = {}
  /\ pc[p] = "stage" =>
       /\ todo[p] \subseteq Staged(p)
       /\ Staged(p) \subseteq journal
       /\ Staged(p) \subseteq vault \cup todo[p]
  /\ pc[p] = "commit" => Staged(p) \subseteq journal \cap vault
  /\ (pc[p] = "inspect" /\ applied[p]) => Shows(p, after[p], Retired(p), Staged(p))
  /\ (pc[p] = "inspect" /\ ~applied[p]) => Shows(p, before[p], Staged(p), Retired(p))

\* The references a command still has to clean up.
OwnDebt(p) ==
  IF op[p] = "repair" THEN journal ELSE Retired(p) \cap (vault \cup journal)

CleaningInv(p) ==
  /\ pc[p] = "delete" =>
       /\ todo[p] \subseteq journal
       /\ failed[p] \/ OwnDebt(p) \subseteq todo[p]
  /\ pc[p] = "unjournal" =>
       /\ todo[p] \subseteq journal \ {current[p]}
       /\ current[p] \in journal \ vault
       /\ failed[p] \/ OwnDebt(p) \subseteq todo[p] \cup {current[p]}
  /\ pc[p] = "reload" => failed[p] \/ OwnDebt(p) = {}
  /\ pc[p] = "fetch" =>
       /\ before[p] = profiles[target[p]]
       /\ before[p] # NoRow

\* References being staged mean nothing to any other command.
FreshInv(p) ==
  pc[p] \in {"journal", "stage"} =>
    \A q \in Procs \ {p} :
      Staged(p) \cap (RefsOf(before[q]) \cup RefsOf(after[q])) = {}

\* Together with the reported outcomes this is preserved by every step.
IInv ==
  /\ TypeOK /\ LockInv /\ StoreInv
  /\ \A p \in Procs :
       /\ MemoryInv(p) /\ PlanInv(p) /\ SeenInv(p) /\ IdInv(p)
       /\ StagingInv(p) /\ CleaningInv(p) /\ FreshInv(p)
  /\ ExitHonest /\ SuccessIsClean

=============================================================================
