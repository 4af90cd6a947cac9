---------------------- MODULE CredentialMutationsProofs ----------------------
(***************************************************************************)
(* Proofs about CredentialMutations for every set of processes, names,     *)
(* identifiers and references: IInv is inductive, so the two stores agree  *)
(* after every step, failure and crash, and the engine implements          *)
(* ProfileStore.                                                           *)
(*                                                                         *)
(* The steps fall into four kinds.  A quiet step moves the owner of the    *)
(* lock from one locked place to another and leaves the profiles alone; a  *)
(* final step reports an outcome; the switch changes the profiles; the     *)
(* rest begin and end commands.  The first two kinds have a lemma each     *)
(* that reduces IInv' to what the step does to its own process and to the  *)
(* stores.                                                                 *)
(***************************************************************************)
EXTENDS CredentialMutations, TLAPS

OthersUnchanged(p) ==
  \A q \in Procs \ {p} :
    /\ pc'[q] = pc[q] /\ op'[q] = op[q] /\ target'[q] = target[q]
    /\ seen'[q] = seen[q] /\ before'[q] = before[q] /\ after'[q] = after[q]
    /\ todo'[q] = todo[q] /\ current'[q] = current[q] /\ failed'[q] = failed[q]
    /\ exit'[q] = exit[q] /\ applied'[q] = applied[q]

ProcessInv(p) ==
  /\ MemoryInv(p) /\ PlanInv(p) /\ SeenInv(p) /\ IdInv(p)
  /\ StagingInv(p) /\ CleaningInv(p) /\ FreshInv(p)

\* The references a step of p may add to the vault or to the journal.
MayAdd(p) == IF pc[p] \in {"journal", "stage"} THEN Staged(p) ELSE {}

\* Only the owner of the lock is at a locked place.
LEMMA OneOwner ==
  ASSUME LockInv, NEW p \in Procs, NEW q \in Procs \ {p}, pc[p] \in Locked
  PROVE  pc[q] \notin Locked
BY DEF LockInv

\* A process that is not at a locked place keeps its part of the invariant
\* when another process moves and the profiles stay as they are.
LEMMA BystanderInv ==
  ASSUME IInv, TypeOK', NEW p \in Procs, NEW q \in Procs \ {p},
         OthersUnchanged(p), profiles' = profiles, pc[q] \notin Locked
  PROVE  /\ MemoryInv(q)' /\ PlanInv(q)' /\ SeenInv(q)'
         /\ StagingInv(q)' /\ CleaningInv(q)' /\ FreshInv(q)'
<1> USE DEF IInv, OthersUnchanged
<1>1. MemoryInv(q)'
  BY DEF MemoryInv
<1>2. PlanInv(q)'
  BY DEF PlanInv
<1>3. SeenInv(q)'
  BY DEF SeenInv, Switching
<1>4. StagingInv(q)' /\ CleaningInv(q)' /\ FreshInv(q)'
  BY DEF StagingInv, CleaningInv, FreshInv, Locked, Switching
<1> QED BY <1>1, <1>2, <1>3, <1>4

\* A quiet step: under the lock, profiles, memory, outcome unchanged.
LEMMA QuietStepInv ==
  ASSUME IInv, TypeOK', StoreInv', NEW p \in Procs,
         OthersUnchanged(p), UNCHANGED <<profiles, lock, memory, exit, applied>>,
         pc[p] \in Locked, pc'[p] \in Locked,
         pc'[p] \in Switching => pc[p] \in Switching,
         MemoryInv(p)', StagingInv(p)', CleaningInv(p)', FreshInv(p)',
         (vault \cup journal)' \subseteq vault \cup journal \cup MayAdd(p)
  PROVE  IInv'
<1> USE DEF IInv, memory
<1>1. LockInv'
  BY DEF LockInv, OthersUnchanged, Locked
<1>2. PlanInv(p)' /\ SeenInv(p)'
  BY DEF PlanInv, SeenInv, Locked
<1>3. ASSUME NEW q \in Procs
      PROVE  IdInv(q)'
  BY <1>1 DEF IdInv, Adding, OthersUnchanged, Locked
<1>4. ASSUME NEW q \in Procs \ {p}
      PROVE  ProcessInv(q)'
  BY <1>3, OneOwner, BystanderInv DEF ProcessInv
<1>5. ExitHonest'
  BY DEF ExitHonest
<1>6. SuccessIsClean'
  <2> SUFFICES ASSUME NEW q \in Procs, op[q] \in Mutations, exit[q] = "ok"
               PROVE  (Retired(q) \cap (vault \cup journal))' = {}
    BY DEF SuccessIsClean
  <2>1. q # p
    BY DEF MemoryInv, Locked
  <2>2. Retired(q)' = Retired(q) /\ Retired(q) \cap (vault \cup journal) = {}
    BY DEF SuccessIsClean, Retired
  <2>3. Retired(q) \cap MayAdd(p) = {}
    BY <2>1 DEF MayAdd, FreshInv, Retired
  <2> QED BY <2>2, <2>3
<1> QED
  BY <1>1, <1>2, <1>3, <1>4, <1>5, <1>6 DEF ProcessInv

\* A final step: the process reports an outcome that is true of the stores.
LEMMA FinalStepInv ==
  ASSUME IInv, TypeOK', StoreInv', NEW p \in Procs,
         OthersUnchanged(p), UNCHANGED <<profiles, memory, applied>>,
         pc[p] \in Locked \cup {"collecting"}, pc'[p] = "done",
         lock' = IF lock = p THEN NoProc ELSE lock,
         exit'[p] # "none",
         op[p] \in Mutations =>
           /\ exit'[p] = "failed" => ~applied[p]
           /\ exit'[p] \in {"ok", "pending"} => applied[p]
           /\ exit'[p] = "ok" => Retired(p) \cap (vault \cup journal)' = {},
         (vault \cup journal)' \subseteq vault \cup journal \cup MayAdd(p),
         pc[p] = "collecting" => UNCHANGED <<vault, journal>>
  PROVE  IInv'
<1> USE DEF IInv, memory
<1>1. LockInv'
  BY NullAssumption DEF LockInv, OthersUnchanged, Locked, TypeOK
<1>2. MemoryInv(p)' /\ PlanInv(p)' /\ SeenInv(p)'
  BY DEF MemoryInv, PlanInv, SeenInv, Switching, Locked, Cleaning
<1>3. StagingInv(p)' /\ CleaningInv(p)' /\ FreshInv(p)'
  BY DEF StagingInv, CleaningInv, FreshInv, Switching
<1>4. ASSUME NEW q \in Procs
      PROVE  IdInv(q)'
  BY DEF IdInv, Adding, OthersUnchanged, Switching, Locked
<1>5. ASSUME NEW q \in Procs \ {p}
      PROVE  ProcessInv(q)'
  <2>1. CASE pc[q] \notin Locked
    BY <2>1, <1>4, BystanderInv DEF ProcessInv
  <2>2. CASE pc[q] \in Locked
    <3>1. pc[p] = "collecting"
      BY <2>2, OneOwner
    <3>2. Live' = Live /\ Staged(q)' = Staged(q) /\ Retired(q)' = Retired(q)
      BY DEF Live, Staged, Retired
    <3>3. MemoryInv(q)' /\ PlanInv(q)' /\ SeenInv(q)'
      BY DEF MemoryInv, PlanInv, SeenInv, OthersUnchanged
    <3>4. StagingInv(q)'
      BY <3>1, <3>2 DEF StagingInv, Shows, OthersUnchanged
    <3>5. CleaningInv(q)'
      BY <3>1, <3>2 DEF CleaningInv, OwnDebt, OthersUnchanged
    <3>6. FreshInv(q)'
      BY <3>2 DEF FreshInv, OthersUnchanged
    <3> QED BY <1>4, <3>3, <3>4, <3>5, <3>6 DEF ProcessInv
  <2> QED BY <2>1, <2>2
<1>6. ExitHonest'
  BY DEF ExitHonest, OthersUnchanged
<1>7. SuccessIsClean'
  <2> SUFFICES ASSUME NEW q \in Procs, op[q] \in Mutations, exit'[q] = "ok"
               PROVE  (Retired(q) \cap (vault \cup journal))' = {}
    BY DEF SuccessIsClean
  <2>1. Retired(q)' = Retired(q)
    BY DEF Retired
  <2>2. CASE q = p
    BY <2>1, <2>2
  <2>3. CASE q # p
    <3>1. Retired(q) \cap (vault \cup journal) = {}
      BY <2>3 DEF SuccessIsClean, OthersUnchanged
    <3>2. Retired(q) \cap MayAdd(p) = {}
      BY <2>3 DEF MayAdd, FreshInv, Retired
    <3> QED BY <2>1, <3>1, <3>2
  <2> QED BY <2>2, <2>3
<1> QED
  BY <1>1, <1>2, <1>3, <1>4, <1>5, <1>6, <1>7 DEF ProcessInv
-----------------------------------------------------------------------------
(* Quiet steps *)

\* The records of the staged references become durable together.
LEMMA JournalInv ==
  ASSUME IInv, NEW p \in Procs, Journal(p)
  PROVE  IInv'
<1> USE DEF IInv, Journal, GoTo
<1>1. TypeOK'
  BY DEF TypeOK, Places, Locked, memory, Staged, RowOrNone, Row, RefsOf
<1>2. Live' = Live /\ Staged(p)' = Staged(p) /\ Retired(p)' = Retired(p)
  BY DEF Live, Staged, Retired, memory
<1>3. StoreInv'
  BY <1>2 DEF StoreInv, NoUntrackedSecret, LiveSecretsPresent,
     CleanupNeverLive, ReferencesOwnedOnce, StagingInv
<1>4. OthersUnchanged(p)
  BY DEF OthersUnchanged, durable, memory, loop
<1>5. pc[p] \in Locked /\ pc'[p] \in Locked
  BY DEF Locked
<1>6. pc'[p] \in Switching => pc[p] \in Switching
  BY DEF Switching, durable
<1>7. MemoryInv(p)'
  BY DEF MemoryInv, memory, Switching, Cleaning, Mutations
<1>8. StagingInv(p)'
  BY <1>2 DEF StagingInv, TypeOK, memory, Switching, Shows
<1>9. CleaningInv(p)'
  BY <1>2 DEF CleaningInv, MemoryInv
<1>10. FreshInv(p)'
  BY <1>2 DEF FreshInv, memory
<1>11. (vault \cup journal)' \subseteq vault \cup journal \cup MayAdd(p)
  BY DEF MayAdd, durable
<1> QED
  BY <1>1, <1>3, <1>4, <1>5, <1>6, <1>7, <1>8, <1>9, <1>10, <1>11, QuietStepInv
     DEF loop

\* A value is stored only after its record is durable.
LEMMA StageSecretInv ==
  ASSUME IInv, NEW p \in Procs, NEW r \in Refs, StageSecret(p, r)
  PROVE  IInv'
<1> USE DEF IInv, StageSecret, GoTo
<1>1. TypeOK'
  BY DEF TypeOK, Places, Locked, memory, RefsOf
<1>2. Live' = Live /\ Staged(p)' = Staged(p) /\ Retired(p)' = Retired(p)
  BY DEF Live, Staged, Retired, memory
<1>3. StoreInv'
  BY <1>2 DEF StoreInv, NoUntrackedSecret, LiveSecretsPresent,
     CleanupNeverLive, ReferencesOwnedOnce, StagingInv
<1>4. OthersUnchanged(p)
  BY DEF OthersUnchanged, durable, memory, loop
<1>5. pc[p] \in Locked /\ pc'[p] \in Locked
  BY DEF Locked
<1>6. pc'[p] \in Switching => pc[p] \in Switching
  BY DEF Switching, durable
<1>7. MemoryInv(p)'
  BY DEF MemoryInv, memory, Switching, Cleaning, Mutations
<1>8. StagingInv(p)'
  BY <1>2 DEF StagingInv, memory, Switching, Shows
<1>9. CleaningInv(p)'
  BY <1>2 DEF CleaningInv, MemoryInv
<1>10. FreshInv(p)'
  BY <1>2 DEF FreshInv, memory
<1>11. (vault \cup journal)' \subseteq vault \cup journal \cup MayAdd(p)
  BY DEF StagingInv, durable
<1> QED
  BY <1>1, <1>3, <1>4, <1>5, <1>6, <1>7, <1>8, <1>9, <1>10, <1>11, QuietStepInv
     DEF loop

\* The references to delete are in the journal and belong to no profile.
LEMMA BeginReconcileInv ==
  ASSUME IInv, NEW p \in Procs, BeginReconcile(p)
  PROVE  IInv'
<1> USE DEF IInv, BeginReconcile, GoTo
<1>1. TypeOK'
  BY DEF TypeOK, Places, Locked, durable, memory, RefsOf
<1>2. Live' = Live /\ Staged(p)' = Staged(p) /\ Retired(p)' = Retired(p)
  BY DEF Live, Staged, Retired, durable, memory
<1>3. StoreInv'
  BY <1>2 DEF StoreInv, NoUntrackedSecret, LiveSecretsPresent,
     CleanupNeverLive, ReferencesOwnedOnce, durable
<1>4. OthersUnchanged(p)
  BY DEF OthersUnchanged, memory, loop
<1>5. pc[p] \in Locked /\ pc'[p] \in Locked
  BY DEF Locked
<1>6. pc'[p] \in Switching => pc[p] \in Switching
  BY DEF Switching, durable
<1>7. MemoryInv(p)'
  BY DEF MemoryInv, memory, Switching, Cleaning, Mutations
<1>8. StagingInv(p)'
  BY <1>2 DEF StagingInv, Switching, Shows
<1>9. CleaningInv(p)'
  BY <1>2 DEF CleaningInv, OwnDebt, Selected, TypeOK, durable, memory, MemoryInv
<1>10. FreshInv(p)'
  BY <1>2 DEF FreshInv, memory
<1>11. (vault \cup journal)' \subseteq vault \cup journal \cup MayAdd(p)
  BY DEF durable
<1> QED
  BY <1>1, <1>3, <1>4, <1>5, <1>6, <1>7, <1>8, <1>9, <1>10, <1>11, QuietStepInv
     DEF durable, loop

\* The value of a journaled reference goes; its record stays.
LEMMA DeleteSecretInv ==
  ASSUME IInv, NEW p \in Procs, NEW r \in Refs, DeleteSecret(p, r)
  PROVE  IInv'
<1> USE DEF IInv, DeleteSecret, GoTo
<1>1. TypeOK'
  BY DEF TypeOK, Places, Locked, memory, RefsOf
<1>2. Live' = Live /\ Staged(p)' = Staged(p) /\ Retired(p)' = Retired(p)
  BY DEF Live, Staged, Retired, memory
<1>3. StoreInv'
  BY <1>2 DEF StoreInv, NoUntrackedSecret, LiveSecretsPresent,
     CleanupNeverLive, ReferencesOwnedOnce, CleaningInv
<1>4. OthersUnchanged(p)
  BY DEF OthersUnchanged, durable, memory, loop
<1>5. pc[p] \in Locked /\ pc'[p] \in Locked
  BY DEF Locked
<1>6. pc'[p] \in Switching => pc[p] \in Switching
  BY DEF Switching, durable
<1>7. MemoryInv(p)'
  BY DEF MemoryInv, memory, Switching, Cleaning, Mutations
<1>8. StagingInv(p)'
  BY <1>2 DEF StagingInv, Switching, Shows
<1>9. CleaningInv(p)'
  BY <1>2 DEF CleaningInv, OwnDebt, TypeOK, memory, MemoryInv
<1>10. FreshInv(p)'
  BY <1>2 DEF FreshInv, memory
<1>11. (vault \cup journal)' \subseteq vault \cup journal \cup MayAdd(p)
  BY DEF durable
<1> QED
  BY <1>1, <1>3, <1>4, <1>5, <1>6, <1>7, <1>8, <1>9, <1>10, <1>11, QuietStepInv
     DEF loop

\* A failed deletion keeps its record and is counted.
LEMMA DeleteFailsInv ==
  ASSUME IInv, NEW p \in Procs, NEW r \in Refs, DeleteFails(p, r)
  PROVE  IInv'
<1> USE DEF IInv, DeleteFails, GoTo
<1>1. TypeOK'
  BY DEF TypeOK, memory, RefsOf
<1>2. Live' = Live /\ Staged(p)' = Staged(p) /\ Retired(p)' = Retired(p)
  BY DEF Live, Staged, Retired, memory
<1>3. StoreInv'
  BY <1>2 DEF StoreInv, NoUntrackedSecret, LiveSecretsPresent,
     CleanupNeverLive, ReferencesOwnedOnce, CleaningInv
<1>4. OthersUnchanged(p)
  BY DEF OthersUnchanged, durable, memory, loop
<1>5. pc[p] \in Locked /\ pc'[p] \in Locked
  BY DEF Locked
<1>6. pc'[p] \in Switching => pc[p] \in Switching
  BY DEF durable
<1>7. MemoryInv(p)'
  BY DEF MemoryInv, memory, Mutations
<1>8. StagingInv(p)'
  BY <1>2 DEF StagingInv, memory, Shows
<1>9. CleaningInv(p)'
  BY <1>2 DEF CleaningInv, TypeOK, MemoryInv
<1>10. FreshInv(p)'
  BY <1>2 DEF FreshInv, memory
<1>11. (vault \cup journal)' \subseteq vault \cup journal \cup MayAdd(p)
  BY DEF durable
<1> QED
  BY <1>1, <1>3, <1>4, <1>5, <1>6, <1>7, <1>8, <1>9, <1>10, <1>11, QuietStepInv
     DEF loop

\* The record goes only after the value has gone.
LEMMA UnjournalInv ==
  ASSUME IInv, NEW p \in Procs, Unjournal(p)
  PROVE  IInv'
<1> USE DEF IInv, Unjournal, GoTo
<1>1. TypeOK'
  BY DEF TypeOK, Places, Locked, memory, RefsOf
<1>2. Live' = Live /\ Staged(p)' = Staged(p) /\ Retired(p)' = Retired(p)
  BY DEF Live, Staged, Retired, memory
<1>3. StoreInv'
  BY <1>2 DEF StoreInv, NoUntrackedSecret, LiveSecretsPresent,
     CleanupNeverLive, ReferencesOwnedOnce, CleaningInv
<1>4. OthersUnchanged(p)
  BY DEF OthersUnchanged, durable, memory, loop
<1>5. pc[p] \in Locked /\ pc'[p] \in Locked
  BY DEF Locked
<1>6. pc'[p] \in Switching => pc[p] \in Switching
  BY DEF Switching, durable
<1>7. MemoryInv(p)'
  BY DEF MemoryInv, memory, Switching, Cleaning, Mutations
<1>8. StagingInv(p)'
  BY <1>2 DEF StagingInv, Switching, Shows
<1>9. CleaningInv(p)'
  BY <1>2 DEF CleaningInv, OwnDebt, TypeOK, memory, MemoryInv
<1>10. FreshInv(p)'
  BY <1>2 DEF FreshInv, memory
<1>11. (vault \cup journal)' \subseteq vault \cup journal \cup MayAdd(p)
  BY DEF durable
<1> QED
  BY <1>1, <1>3, <1>4, <1>5, <1>6, <1>7, <1>8, <1>9, <1>10, <1>11, QuietStepInv
     DEF loop

\* When no reference is left to delete, none is owed or one has failed.
LEMMA EndReconcileInv ==
  ASSUME IInv, NEW p \in Procs, EndReconcile(p)
  PROVE  IInv'
<1> USE DEF IInv, EndReconcile, GoTo
<1>1. TypeOK'
  BY DEF TypeOK, Places, Locked, durable, memory, loop, RefsOf
<1>2. Live' = Live /\ Staged(p)' = Staged(p) /\ Retired(p)' = Retired(p)
  BY DEF Live, Staged, Retired, durable, memory
<1>3. StoreInv'
  BY <1>2 DEF StoreInv, NoUntrackedSecret, LiveSecretsPresent,
     CleanupNeverLive, ReferencesOwnedOnce, durable
<1>4. OthersUnchanged(p)
  BY DEF OthersUnchanged, memory, loop
<1>5. pc[p] \in Locked /\ pc'[p] \in Locked
  BY DEF Locked
<1>6. pc'[p] \in Switching => pc[p] \in Switching
  BY DEF Switching, durable
<1>7. MemoryInv(p)'
  BY DEF MemoryInv, memory, Switching, Cleaning, Mutations
<1>8. StagingInv(p)'
  BY <1>2 DEF StagingInv, Switching, Shows
<1>9. CleaningInv(p)'
  BY <1>2 DEF CleaningInv, OwnDebt, durable, memory, loop, MemoryInv
<1>10. FreshInv(p)'
  BY <1>2 DEF FreshInv, memory
<1>11. (vault \cup journal)' \subseteq vault \cup journal \cup MayAdd(p)
  BY DEF durable
<1> QED
  BY <1>1, <1>3, <1>4, <1>5, <1>6, <1>7, <1>8, <1>9, <1>10, <1>11, QuietStepInv
     DEF durable, loop

\* Reading a secret changes nothing but the list of those to read.
LEMMA FetchSecretInv ==
  ASSUME IInv, NEW p \in Procs, NEW r \in Refs, FetchSecret(p, r)
  PROVE  IInv'
<1> USE DEF IInv, FetchSecret, GoTo
<1>1. TypeOK'
  BY DEF TypeOK, durable, memory, RefsOf
<1>2. Live' = Live /\ Staged(p)' = Staged(p) /\ Retired(p)' = Retired(p)
  BY DEF Live, Staged, Retired, durable, memory
<1>3. StoreInv'
  BY <1>2 DEF StoreInv, NoUntrackedSecret, LiveSecretsPresent,
     CleanupNeverLive, ReferencesOwnedOnce, durable
<1>4. OthersUnchanged(p)
  BY DEF OthersUnchanged, memory, loop
<1>5. pc[p] \in Locked /\ pc'[p] \in Locked
  BY DEF Locked
<1>6. pc'[p] \in Switching => pc[p] \in Switching
  BY DEF durable
<1>7. MemoryInv(p)'
  BY DEF MemoryInv, memory, Mutations
<1>8. StagingInv(p)'
  BY <1>2 DEF StagingInv, durable, memory, Shows
<1>9. CleaningInv(p)'
  BY <1>2 DEF CleaningInv, durable, memory, MemoryInv
<1>10. FreshInv(p)'
  BY <1>2 DEF FreshInv, memory
<1>11. (vault \cup journal)' \subseteq vault \cup journal \cup MayAdd(p)
  BY DEF durable
<1> QED
  BY <1>1, <1>3, <1>4, <1>5, <1>6, <1>7, <1>8, <1>9, <1>10, <1>11, QuietStepInv
     DEF durable, loop
-----------------------------------------------------------------------------
(* Final steps *)

\* The stores change by at most what the command may add.
LEMMA ReportInv ==
  ASSUME IInv, NEW p \in Procs, NEW code \in Exits \ {"none"}, Report(p, code),
         UNCHANGED <<profiles, applied>>, StoreInv',
         vault' \subseteq Refs, journal' \subseteq Refs,
         pc[p] \in Locked \cup {"collecting"},
         pc[p] = "collecting" => UNCHANGED <<vault, journal>>,
         (vault \cup journal)' \subseteq vault \cup journal \cup MayAdd(p),
         op[p] \in Mutations =>
           /\ code = "failed" => ~applied[p]
           /\ code \in {"ok", "pending"} => applied[p]
           /\ code = "ok" => Retired(p) \cap (vault \cup journal)' = {}
  PROVE  IInv'
<1> USE DEF IInv, Report, GoTo
<1>1. TypeOK'
  BY DEF TypeOK, Places, memory
<1>2. OthersUnchanged(p)
  BY DEF OthersUnchanged, memory
<1>3. pc'[p] = "done" /\ exit'[p] = code
  BY DEF TypeOK
<1> QED
  BY <1>1, <1>2, <1>3, FinalStepInv

\* The stores do not change at all.
LEMMA QuietReportInv ==
  ASSUME IInv, NEW p \in Procs, NEW code \in Exits \ {"none"}, Report(p, code),
         UNCHANGED <<durable, applied>>,
         pc[p] \in Locked \cup {"collecting"},
         op[p] \in Mutations =>
           /\ code = "failed" => ~applied[p]
           /\ code \in {"ok", "pending"} => applied[p]
           /\ code = "ok" => Retired(p) \cap (vault \cup journal) = {}
  PROVE  IInv'
<1>1. UNCHANGED <<profiles, journal, vault, applied>>
  BY DEF durable
<1>2. Live' = Live
  BY <1>1 DEF Live
<1>3. StoreInv'
  BY <1>1, <1>2 DEF IInv, StoreInv, NoUntrackedSecret, LiveSecretsPresent,
     CleanupNeverLive, ReferencesOwnedOnce
<1>4. vault' \subseteq Refs /\ journal' \subseteq Refs
  BY <1>1 DEF IInv, TypeOK
<1>5. (vault \cup journal)' = vault \cup journal
  BY <1>1
<1> QED
  BY <1>1, <1>3, <1>4, <1>5, ReportInv

\* A command refused before or at the lock changes neither store.
LEMMA RefusedInv ==
  ASSUME IInv, NEW p \in Procs, LockBusy(p) \/ OpenRejected(p)
  PROVE  IInv'
<1>1. op[p] \in Mutations => ~applied[p]
  BY DEF IInv, MemoryInv, LockBusy, OpenRejected
<1> QED
  BY <1>1, QuietReportInv DEF LockBusy, OpenRejected, Exits

\* Records written by a COMMIT that raised are no value's only trace.
LEMMA JournalFailsInv ==
  ASSUME IInv, NEW p \in Procs, JournalFails(p)
  PROVE  IInv'
<1> USE DEF IInv, JournalFails
<1>1. Live' = Live
  BY DEF Live
<1>2. StoreInv'
  BY <1>1 DEF StoreInv, NoUntrackedSecret, LiveSecretsPresent,
     CleanupNeverLive, ReferencesOwnedOnce, StagingInv
<1>3. journal' \subseteq Refs /\ vault' \subseteq Refs
  BY DEF TypeOK, Staged, RefsOf, RowOrNone, Row
<1>4. ~applied[p]
  BY DEF MemoryInv, Switching
<1> QED
  BY <1>2, <1>3, <1>4, ReportInv DEF Exits, Locked, MayAdd

\* A value stored by a call that raised is on record.
LEMMA StageFailsInv ==
  ASSUME IInv, NEW p \in Procs, NEW r \in Refs, StageFails(p, r)
  PROVE  IInv'
<1> USE DEF IInv, StageFails
<1>1. Live' = Live
  BY DEF Live
<1>2. r \in journal /\ r \in Staged(p)
  BY DEF StagingInv
<1>3. StoreInv'
  BY <1>1, <1>2 DEF StoreInv, NoUntrackedSecret, LiveSecretsPresent,
     CleanupNeverLive, ReferencesOwnedOnce
<1>4. journal' \subseteq Refs /\ vault' \subseteq Refs
  BY DEF TypeOK
<1>5. ~applied[p]
  BY DEF MemoryInv, Switching
<1> QED
  BY <1>2, <1>3, <1>4, <1>5, ReportInv DEF Exits, Locked, MayAdd

\* A rolled back switch reports failure truthfully.
LEMMA TransactionFailsInv ==
  ASSUME IInv, NEW p \in Procs, TransactionFails(p)
  PROVE  IInv'
<1>1. ~applied[p]
  BY DEF IInv, MemoryInv, Switching, TransactionFails
<1> QED
  BY <1>1, QuietReportInv DEF TransactionFails, Exits, Locked

\* What the database shows decides the outcome as the history does.
LEMMA InspectInv ==
  ASSUME IInv, NEW p \in Procs, Inspect(p) \/ InspectFails(p)
  PROVE  IInv'
<1>1. /\ ObservedOutcome(p) \in {"pending", "failed", "unknown"}
      /\ pc[p] = "inspect" /\ ObservedOutcome(p) = "pending" => applied[p]
      /\ pc[p] = "inspect" /\ ObservedOutcome(p) = "failed" => ~applied[p]
  BY DEF ObservedOutcome, IInv, StagingInv, TypeOK
<1>2. PICK code \in {"pending", "failed", "unknown"} :
        /\ Report(p, code)
        /\ code = "pending" => applied[p]
        /\ code = "failed" => ~applied[p]
  BY <1>1 DEF Inspect, InspectFails
<1> QED
  BY <1>2, QuietReportInv DEF Inspect, InspectFails, Exits, Locked

\* A cleanup that does not start leaves the switch reported as pending.
LEMMA ReconcileAbortsInv ==
  ASSUME IInv, NEW p \in Procs, ReconcileAborts(p)
  PROVE  IInv'
<1>1. PICK code \in {"pending", "failed"} :
        Report(p, code) /\ (op[p] \in Mutations => code = "pending" /\ applied[p])
  BY DEF ReconcileAborts, AfterSwitchError, IInv, MemoryInv, Cleaning
<1> QED
  BY <1>1, QuietReportInv DEF ReconcileAborts, Exits, Locked

\* A record whose deletion raised may be gone: its value is gone already.
LEMMA UnjournalFailsInv ==
  ASSUME IInv, NEW p \in Procs, UnjournalFails(p)
  PROVE  IInv'
<1> USE DEF IInv, UnjournalFails
<1>1. Live' = Live
  BY DEF Live
<1>2. current[p] \in journal \ vault
  BY DEF CleaningInv
<1>3. StoreInv'
  BY <1>1, <1>2 DEF StoreInv, NoUntrackedSecret, LiveSecretsPresent,
     CleanupNeverLive, ReferencesOwnedOnce
<1>4. journal' \subseteq Refs /\ vault' \subseteq Refs
  BY DEF TypeOK
<1>5. PICK code \in {"pending", "failed"} :
        Report(p, code) /\ (op[p] \in Mutations => code = "pending" /\ applied[p])
  BY DEF AfterSwitchError, MemoryInv, Cleaning
<1> QED
  BY <1>3, <1>4, <1>5, ReportInv DEF Exits, Locked

\* Success is reported only when no cleanup failed.
LEMMA ReloadInv ==
  ASSUME IInv, NEW p \in Procs, Reload(p) \/ ReloadFails(p)
  PROVE  IInv'
<1>1. PICK code \in {"ok", "pending", "failed"} :
        /\ Report(p, code)
        /\ op[p] \in Mutations => code # "failed" /\ applied[p]
        /\ (op[p] \in Mutations /\ code = "ok") => ~failed[p]
  BY DEF Reload, ReloadFails, AfterSwitchError, IInv, MemoryInv, Cleaning
<1>2. (op[p] \in Mutations /\ ~failed[p]) => Retired(p) \cap (vault \cup journal) = {}
  BY DEF IInv, CleaningInv, OwnDebt, Reload, ReloadFails, Mutations
<1> QED
  BY <1>1, <1>2, QuietReportInv DEF Reload, ReloadFails, Exits, Locked

\* A resolution that ends, well or badly, changes neither store.
LEMMA FetchEndsInv ==
  ASSUME IInv, NEW p \in Procs, FetchFails(p) \/ EndFetch(p)
  PROVE  IInv'
<1>1. op[p] \notin Mutations
  BY DEF IInv, MemoryInv, Mutations, FetchFails, EndFetch
<1> QED
  BY <1>1, QuietReportInv DEF FetchFails, EndFetch, Exits, Locked
-----------------------------------------------------------------------------
(* The switch *)

\* What the switch does to the profiles and to their references.
LEMMA SwitchRows ==
  ASSUME IInv, NEW p \in Procs, pc[p] = "commit", CanSwitch(p), Switch(p)
  PROVE  /\ target[p] \in Names
         /\ profiles[target[p]] = before[p]
         /\ profiles'[target[p]] = after[p]
         /\ \A n \in Names \ {target[p]} : profiles'[n] = profiles[n]
         /\ \A r : r \in Live' <=>
              \/ r \in RefsOf(after[p])
              \/ \E n \in Names \ {target[p]} : r \in RefsOf(profiles[n])
         /\ \A r : r \in Live <=>
              \/ r \in RefsOf(before[p])
              \/ \E n \in Names \ {target[p]} : r \in RefsOf(profiles[n])
<1>1. target[p] \in Names /\ profiles[target[p]] = before[p]
  BY DEF IInv, MemoryInv, Switching, Mutations, CanSwitch
<1>2. /\ profiles'[target[p]] = after[p]
      /\ \A n \in Names \ {target[p]} : profiles'[n] = profiles[n]
  BY <1>1 DEF Switch, IInv, TypeOK
<1> QED
  BY <1>1, <1>2 DEF Live, RefsOf

\* The row to write has the UUID of the row it replaces, or one that no
\* profile, no waiting command and no other pending `add` has.
LEMMA SwitchIdentity ==
  ASSUME IInv, NEW p \in Procs, pc[p] = "commit", after[p] # NoRow
  PROVE  \/ /\ before[p] # NoRow
            /\ after[p].id = before[p].id
            /\ after[p].revision = before[p].revision + 1
         \/ /\ \A n \in Names : profiles[n] # NoRow => profiles[n].id # after[p].id
            /\ \A q \in Procs : seen[q] # NoRow => seen[q].id # after[p].id
            /\ \A q \in Procs \ {p} : Adding(q) => after[q].id # after[p].id
BY DEF IInv, MemoryInv, PlanInv, IdInv, Adding, Switching, Mutations

\* The switch exchanges the staged records for the retired ones, so the
\* stores agree before and after it.
LEMMA SwitchStoreInv ==
  ASSUME IInv, NEW p \in Procs, pc[p] = "commit", CanSwitch(p), Switch(p),
         UNCHANGED vault
  PROVE  StoreInv'
<1> DEFINE n == target[p]
<1>0. /\ n \in Names /\ profiles[n] = before[p]
      /\ \A m \in Names : profiles'[m] = IF m = n THEN after[p] ELSE profiles[m]
      /\ \A r : r \in Live' <=>
           \/ r \in RefsOf(after[p])
           \/ \E m \in Names \ {n} : r \in RefsOf(profiles[m])
      /\ \A r : r \in Live <=>
           \/ r \in RefsOf(before[p])
           \/ \E m \in Names \ {n} : r \in RefsOf(profiles[m])
  BY SwitchRows
<1> HIDE DEF n
<1> USE <1>0 DEF IInv, Switch
<1>1. Staged(p) \subseteq journal \cap vault
  BY DEF StagingInv
<1>2. \A m \in Names \ {n} : RefsOf(profiles[m]) \cap RefsOf(before[p]) = {}
  BY DEF StoreInv, ReferencesOwnedOnce
<1>3. \A m \in Names \ {n} : RefsOf(profiles[m]) \cap RefsOf(after[p]) = {}
  <2> SUFFICES ASSUME NEW m \in Names \ {n}, NEW r \in RefsOf(profiles[m]),
                      r \in RefsOf(after[p])
               PROVE  FALSE
    OBVIOUS
  <2>1. r \in Live
    OBVIOUS
  <2>2. r \notin RefsOf(before[p])
    BY <1>2
  <2>3. r \in journal
    BY <1>1, <2>2 DEF Staged
  <2> QED BY <2>1, <2>3 DEF StoreInv, CleanupNeverLive
<1>4. NoUntrackedSecret'
  BY <1>1 DEF StoreInv, NoUntrackedSecret, Staged, Retired
<1>5. LiveSecretsPresent'
  BY <1>1 DEF StoreInv, LiveSecretsPresent, Staged
<1>6. CleanupNeverLive'
  BY <1>2 DEF StoreInv, CleanupNeverLive, Staged, Retired
<1>7. ReferencesOwnedOnce'
  <2>1. \A m \in Names : RefsOf(profiles'[m]) =
          IF m = n THEN RefsOf(after[p]) ELSE RefsOf(profiles[m])
    OBVIOUS
  <2>2. ReferencesOwnedOnce' <=>
          \A l, m \in Names : l # m => RefsOf(profiles'[l]) \cap RefsOf(profiles'[m]) = {}
    BY DEF ReferencesOwnedOnce, RefsOf
  <2> QED BY <1>3, <2>1, <2>2 DEF StoreInv, ReferencesOwnedOnce
<1>8. \A l, m \in Names :
        (profiles'[l] # NoRow /\ profiles'[m] # NoRow
           /\ profiles'[l].id = profiles'[m].id) => l = m
  <2>1. ASSUME NEW m \in Names \ {n}, profiles[m] # NoRow, after[p] # NoRow
        PROVE  profiles[m].id # after[p].id
    <3>1. before[p] # NoRow => profiles[m].id # before[p].id
      BY <2>1 DEF StoreInv
    <3> QED BY <2>1, <3>1, SwitchIdentity
  <2>2. \A m \in Names : profiles'[m] = IF m = n THEN after[p] ELSE profiles[m]
    OBVIOUS
  <2>3. \A l, m \in Names : (profiles[l] # NoRow /\ profiles[m] # NoRow
           /\ profiles[l].id = profiles[m].id) => l = m
    BY DEF StoreInv
  <2> QED BY <2>1, <2>2, <2>3
<1> QED
  BY <1>4, <1>5, <1>6, <1>7, <1>8 DEF StoreInv

\* The switch followed by a jump to any of its three successors.
LEMMA SwitchInv ==
  ASSUME IInv, NEW p \in Procs, pc[p] = "commit", CanSwitch(p), Switch(p),
         UNCHANGED <<vault, lock, memory, loop, exit>>,
         NEW place \in {"reload", "reconcile", "inspect"}, GoTo(p, place),
         place = "reload" => Retired(p) = {}
  PROVE  IInv'
<1> USE DEF IInv, Switch, GoTo, memory, loop
<1>1. TypeOK'
  BY DEF TypeOK, Places, Locked, Retired, RefsOf, RowOrNone, Row
<1>2. OthersUnchanged(p) /\ pc'[p] = place /\ applied'[p]
  BY DEF OthersUnchanged, TypeOK
<1>3. \A q \in Procs \ {p} : pc[q] \notin Locked
  BY DEF LockInv, Locked
<1>4. LockInv'
  BY <1>2 DEF LockInv, Locked
<1>5. StoreInv'
  BY SwitchStoreInv
<1>6. \A q \in Procs : Staged(q)' = Staged(q) /\ Retired(q)' = Retired(q)
  BY DEF Staged, Retired
<1>7. ASSUME NEW q \in Procs
      PROVE  MemoryInv(q)' /\ PlanInv(q)' /\ FreshInv(q)'
  <2>1. CASE q = p
    BY <2>1, <1>2 DEF MemoryInv, PlanInv, FreshInv, Switching, Cleaning
  <2>2. CASE q # p
    BY <2>2, <1>2, <1>3
       DEF MemoryInv, PlanInv, FreshInv, Locked
  <2> QED BY <2>1, <2>2
<1>8. ASSUME NEW q \in Procs
      PROVE  SeenInv(q)'
  <2>1. CASE q = p
    BY <2>1, <1>2 DEF SeenInv, Switching
  <2>2. CASE q # p
    <3> SUFFICES ASSUME pc[q] = "collecting", op[q] \in {"edit", "remove"},
                        NEW m \in Names, profiles'[m] # NoRow,
                        profiles'[m].id = seen[q].id, seen[q] # NoRow
                 PROVE  /\ m = target[q]
                        /\ profiles'[m].revision >= seen[q].revision
                        /\ profiles'[m].revision = seen[q].revision
                             => profiles'[m] = seen[q]
      BY <2>2, <1>2, <1>3 DEF SeenInv, Switching
    <3>1. CASE m # target[p]
      BY <3>1, SwitchRows DEF SeenInv
    <3>2. CASE m = target[p]
      <4>1. profiles'[m] = after[p] /\ profiles[m] = before[p]
        BY <3>2, SwitchRows
      <4>2. /\ before[p] # NoRow
            /\ after[p].id = before[p].id
            /\ after[p].revision = before[p].revision + 1
        BY <4>1, SwitchIdentity
      <4>3. before[p].revision \in Nat /\ seen[q].revision \in Nat
        BY <4>2, BoundsAssumption DEF TypeOK, RowOrNone, Row
      <4>4. m = target[q] /\ before[p].revision >= seen[q].revision
        BY <4>1, <4>2 DEF SeenInv
      <4> QED BY <4>1, <4>2, <4>3, <4>4
    <3> QED BY <3>1, <3>2
  <2> QED BY <2>1, <2>2
<1>9. ASSUME NEW q \in Procs
      PROVE  IdInv(q)'
  <2>1. CASE q = p
    BY <2>1, <1>2 DEF IdInv, Adding, Switching
  <2>2. CASE q # p
    <3> SUFFICES ASSUME Adding(q)
                 PROVE  IdInv(q)'
      BY <2>2, <1>2 DEF IdInv, Adding, OthersUnchanged
    <3>1. ASSUME NEW m \in Names, profiles'[m] # NoRow
          PROVE  profiles'[m].id # after[q].id
      <4>1. CASE m # target[p]
        BY <3>1, <4>1, SwitchRows DEF IdInv
      <4>2. CASE m = target[p]
        <5>1. profiles'[m] = after[p] /\ profiles[m] = before[p]
          BY <4>2, SwitchRows
        <5>2. before[p] # NoRow => before[p].id # after[q].id
          BY <5>1 DEF IdInv
        <5> QED BY <2>2, <3>1, <5>1, <5>2, SwitchIdentity
      <4> QED BY <4>1, <4>2
    <3>2. \A r \in Procs : Adding(r)' => Adding(r)
      BY <1>2 DEF Adding, Switching
    <3> QED BY <3>1, <3>2 DEF IdInv
  <2> QED BY <2>1, <2>2
<1>10. ASSUME NEW q \in Procs
       PROVE  StagingInv(q)' /\ CleaningInv(q)'
  <2>1. CASE q = p
    <3>1. /\ profiles'[target[p]] = after[p]
          /\ Retired(p) \subseteq journal' /\ Staged(p) \cap journal' = {}
      BY SwitchRows DEF Staged, Retired
    <3>2. op[p] # "repair"
      BY DEF MemoryInv, Switching, Mutations
    <3> QED BY <2>1, <3>1, <3>2, <1>2, <1>6
            DEF StagingInv, CleaningInv, OwnDebt, Shows, Switching
  <2>2. CASE q # p
    BY <2>2, <1>2, <1>3 DEF StagingInv, CleaningInv, Locked, Switching
  <2> QED BY <2>1, <2>2
<1>11. ExitHonest'
  BY <1>2 DEF ExitHonest, MemoryInv
<1>12. SuccessIsClean'
  <2> SUFFICES ASSUME NEW q \in Procs, op[q] \in Mutations, exit[q] = "ok"
               PROVE  Retired(q) \cap (vault \cup journal') = {}
    BY <1>6 DEF SuccessIsClean
  <2>1. Retired(q) \cap (vault \cup journal) = {}
    BY DEF SuccessIsClean
  <2>2. Retired(p) \subseteq vault
    BY SwitchRows DEF StoreInv, LiveSecretsPresent, Retired
  <2> QED BY <2>1, <2>2
<1> QED
  BY <1>1, <1>4, <1>5, <1>7, <1>8, <1>9, <1>10, <1>11, <1>12

\* The transaction commits.
LEMMA CommitInv ==
  ASSUME IInv, NEW p \in Procs, Commit(p)
  PROVE  IInv'
<1>1. PICK place \in {"reload", "reconcile"} :
        GoTo(p, place) /\ (place = "reload" => Retired(p) = {})
  BY DEF Commit
<1> QED
  BY <1>1, SwitchInv DEF Commit

\* COMMIT raises, with the switch durable or not.
LEMMA CommitRaisesInv ==
  ASSUME IInv, NEW p \in Procs, CommitRaises(p)
  PROVE  IInv'
<1> USE DEF CommitRaises
<1>1. CASE Switch(p)
  BY <1>1, SwitchInv
<1>2. CASE UNCHANGED <<profiles, journal, applied>>
  <2> USE <1>2 DEF IInv, GoTo, memory, loop
  <2>1. TypeOK'
    BY DEF TypeOK, Places, Locked
  <2>2. Live' = Live /\ Staged(p)' = Staged(p) /\ Retired(p)' = Retired(p)
    BY DEF Live, Staged, Retired
  <2>3. StoreInv'
    BY <2>2 DEF StoreInv, NoUntrackedSecret, LiveSecretsPresent,
       CleanupNeverLive, ReferencesOwnedOnce
  <2>4. OthersUnchanged(p) /\ pc'[p] = "inspect"
    BY DEF OthersUnchanged, TypeOK
  <2>5. MemoryInv(p)' /\ CleaningInv(p)' /\ FreshInv(p)'
    BY <2>4 DEF MemoryInv, CleaningInv, FreshInv, Switching, Cleaning
  <2>6. StagingInv(p)'
    BY <2>2, <2>4 DEF StagingInv, MemoryInv, Switching, CanSwitch, Shows
  <2> QED
    BY <2>1, <2>3, <2>4, <2>5, <2>6, QuietStepInv DEF Locked, Switching
<1> QED
  BY <1>1, <1>2

-----------------------------------------------------------------------------
(* Taking the lock *)

\* A command that enters plans from the row it finds; everything else is as
\* it was.
LEMMA EnterInv ==
  ASSUME IInv, TypeOK', NEW p \in Procs, NEW row,
         NEW place \in {"journal", "commit", "reconcile", "fetch"},
         Enter(p, place, row),
         \A q \in Procs \ {p} : after'[q] = after[q] /\ todo'[q] = todo[q],
         MemoryInv(p)', PlanInv(p)', SeenInv(p)', StagingInv(p)', CleaningInv(p)',
         Adding(p)' => Adding(p) /\ after'[p].id = after[p].id,
         place = "journal" => FreshInv(p)'
  PROVE  IInv'
<1> USE DEF IInv, Enter, GoTo, durable
<1>2. /\ \A q \in Procs \ {p} : pc'[q] = pc[q] /\ before'[q] = before[q]
      /\ pc'[p] = place /\ UNCHANGED <<profiles, journal, vault>>
  BY DEF TypeOK
<1>3. \A q \in Procs : pc[q] \notin Locked
  BY NullAssumption DEF LockInv
<1>4. LockInv'
  BY <1>2, <1>3, NullAssumption DEF LockInv, Locked
<1>5. Live' = Live
  BY <1>2 DEF Live
<1>6. StoreInv'
  BY <1>2, <1>5 DEF StoreInv, NoUntrackedSecret, LiveSecretsPresent,
     CleanupNeverLive, ReferencesOwnedOnce
<1>7. ASSUME NEW q \in Procs \ {p}
      PROVE  /\ MemoryInv(q)' /\ PlanInv(q)' /\ SeenInv(q)'
             /\ StagingInv(q)' /\ CleaningInv(q)' /\ FreshInv(q)'
  <2>1. MemoryInv(q)' /\ PlanInv(q)' /\ SeenInv(q)'
    BY <1>2, <1>3 DEF MemoryInv, PlanInv, SeenInv, Switching
  <2>2. StagingInv(q)' /\ CleaningInv(q)' /\ FreshInv(q)'
    BY <1>2, <1>3 DEF StagingInv, CleaningInv, FreshInv, Locked, Switching
  <2> QED BY <2>1, <2>2
<1>8. FreshInv(p)'
  BY <1>2 DEF FreshInv
<1>9. ASSUME NEW q \in Procs
      PROVE  IdInv(q)'
  BY <1>2, <1>3 DEF IdInv, Adding, Switching
<1>10. ExitHonest'
  BY DEF ExitHonest
<1>11. SuccessIsClean'
  <2> SUFFICES ASSUME NEW q \in Procs, op[q] \in Mutations, exit[q] = "ok"
               PROVE  (Retired(q) \cap (vault \cup journal))' = {}
    BY DEF SuccessIsClean
  <2>1. q # p
    BY DEF MemoryInv
  <2> QED BY <2>1, <1>2 DEF SuccessIsClean, Retired
<1> QED
  BY <1>4, <1>6, <1>7, <1>8, <1>9, <1>10, <1>11

\* `add` plans a row with references nobody has.
LEMMA OpenAddInv ==
  ASSUME IInv, NEW p \in Procs, pc[p] = "collecting", OpenAdd(p)
  PROVE  IInv'
<1>1. PICK new \in NewRefs :
        /\ Enter(p, PlanPlace(new), NoRow)
        /\ after' = [after EXCEPT ![p].refs = new]
  BY DEF OpenAdd
<1>2. /\ op[p] = "add" /\ target[p] \in Names /\ profiles[target[p]] = NoRow
      /\ after[p] \in Row /\ after[p].revision = 1 /\ UNCHANGED todo
  BY DEF OpenAdd, Acceptable, IInv, MemoryInv, PlanInv, TypeOK, RowOrNone
<1>3. new \subseteq Refs /\ \A r \in new : FreshRef(r)
  BY DEF NewRefs
<1>4. PICK place \in {"journal", "commit"} :
        place = PlanPlace(new) /\ (place = "commit" => new = {})
  BY DEF PlanPlace
<1> USE DEF Enter, GoTo, durable
<1>5. /\ after'[p] = [after[p] EXCEPT !.refs = new] /\ after'[p] \in Row
      /\ \A q \in Procs \ {p} : after'[q] = after[q]
      /\ before'[p] = NoRow /\ pc'[p] = place
      /\ \A q \in Procs \ {p} : before'[q] = before[q]
  BY <1>1, <1>2, <1>3, <1>4 DEF IInv, TypeOK, Row
<1>6. TypeOK'
  BY <1>1, <1>2, <1>4, <1>5 DEF IInv, TypeOK, Places, Locked, RowOrNone
<1>7. after'[p] # NoRow /\ RefsOf(after'[p]) = new
  BY <1>5, NoRowAssumption DEF RefsOf, Row
<1>8. Staged(p)' = new /\ Live' = Live
  BY <1>1, <1>5, <1>7 DEF Staged, Live, RefsOf
<1>9. MemoryInv(p)' /\ PlanInv(p)' /\ SeenInv(p)' /\ CleaningInv(p)'
  BY <1>1, <1>2, <1>5, <1>7, <1>4
     DEF IInv, MemoryInv, PlanInv, SeenInv, CleaningInv, Cleaning, Mutations
<1>10. StagingInv(p)'
  BY <1>1, <1>2, <1>3, <1>4, <1>5, <1>8 DEF StagingInv, FreshRef
<1>11. FreshInv(p)'
  BY <1>3, <1>5, <1>8 DEF FreshInv, FreshRef, RefsOf
<1>12. Adding(p) /\ after'[p].id = after[p].id
  BY <1>2, <1>5 DEF Adding, Row
<1> QED
  BY <1>1, <1>2, <1>4, <1>5, <1>6, <1>9, <1>10, <1>11, <1>12, EnterInv

\* `edit` plans a new generation of the row it read under the lock.
LEMMA OpenEditInv ==
  ASSUME IInv, NEW p \in Procs, pc[p] = "collecting", OpenEdit(p)
  PROVE  IInv'
<1> DEFINE row == profiles[target[p]]
<1>1. PICK new \in NewRefs, kept \in SUBSET row.refs :
        /\ Enter(p, PlanPlace(new), row)
        /\ after' = [after EXCEPT ![p] = [id |-> row.id, revision |-> row.revision + 1,
                                         refs |-> kept \cup new]]
  BY DEF OpenEdit
<1>2. /\ op[p] = "edit" /\ target[p] \in Names /\ row \in Row /\ row # NoRow
      /\ row.id = seen[p].id /\ row.revision = seen[p].revision /\ UNCHANGED todo
  BY DEF OpenEdit, Acceptable, SameGeneration, IInv, MemoryInv, TypeOK,
     RowOrNone
<1>3. row = seen[p] /\ seen[p].revision < MaxRevision
  BY <1>2 DEF IInv, SeenInv, PlanInv
<1>4. new \subseteq Refs /\ \A r \in new : FreshRef(r)
  BY DEF NewRefs
<1>5. PICK place \in {"journal", "commit"} :
        place = PlanPlace(new) /\ (place = "commit" => new = {})
  BY DEF PlanPlace
<1> USE DEF Enter, GoTo, durable
<1>6. [id |-> row.id, revision |-> row.revision + 1, refs |-> kept \cup new] \in Row
  BY <1>2, <1>3, <1>4, BoundsAssumption DEF Row
<1>7. /\ after'[p] = [id |-> row.id, revision |-> row.revision + 1, refs |-> kept \cup new]
      /\ \A q \in Procs \ {p} : after'[q] = after[q]
      /\ before'[p] = row /\ pc'[p] = place /\ row' = row
      /\ \A q \in Procs \ {p} : before'[q] = before[q]
  BY <1>1, <1>5 DEF IInv, TypeOK
<1>8. TypeOK'
  BY <1>1, <1>2, <1>5, <1>6, <1>7 DEF IInv, TypeOK, Places, Locked, RowOrNone
<1>9. after'[p] # NoRow /\ RefsOf(after'[p]) = kept \cup new
  BY <1>6, <1>7, NoRowAssumption DEF RefsOf
<1>10. Staged(p)' \subseteq new /\ Live' = Live
  BY <1>1, <1>2, <1>7, <1>9 DEF Staged, Live, RefsOf
<1>11. MemoryInv(p)' /\ PlanInv(p)' /\ SeenInv(p)' /\ CleaningInv(p)'
  BY <1>1, <1>2, <1>3, <1>5, <1>7, <1>9
     DEF IInv, MemoryInv, PlanInv, SeenInv, CleaningInv, Cleaning, Mutations
<1>12. StagingInv(p)'
  BY <1>1, <1>2, <1>4, <1>5, <1>7, <1>10 DEF StagingInv, FreshRef
<1>13. FreshInv(p)'
  BY <1>4, <1>7, <1>10 DEF FreshInv, FreshRef, RefsOf
<1>14. ~Adding(p)'
  BY <1>1, <1>2 DEF Adding
<1> HIDE DEF row
<1> QED
  BY <1>1, <1>2, <1>5, <1>7, <1>8, <1>11, <1>12, <1>13, <1>14, EnterInv

\* `remove` plans to retire every reference of the row.
LEMMA OpenRemoveInv ==
  ASSUME IInv, NEW p \in Procs, pc[p] = "collecting", OpenRemove(p)
  PROVE  IInv'
<1> DEFINE row == profiles[target[p]]
<1>1. /\ op[p] = "remove" /\ target[p] \in Names /\ row \in Row /\ row # NoRow
      /\ Enter(p, "commit", row) /\ UNCHANGED <<after, todo>>
  BY DEF OpenRemove, Acceptable, SameGeneration, IInv, MemoryInv, TypeOK,
     RowOrNone
<1>2. row = seen[p] /\ after[p] = NoRow
  BY <1>1 DEF OpenRemove, Acceptable, SameGeneration, IInv, SeenInv, PlanInv
<1> USE DEF Enter, GoTo, durable
<1>3. before'[p] = row /\ pc'[p] = "commit" /\ row' = row
  BY <1>1 DEF IInv, TypeOK
<1>4. TypeOK'
  BY <1>1 DEF IInv, TypeOK, Places, Locked, RowOrNone
<1>5. MemoryInv(p)' /\ PlanInv(p)' /\ SeenInv(p)' /\ CleaningInv(p)'
  BY <1>1, <1>2, <1>3
     DEF IInv, MemoryInv, PlanInv, SeenInv, CleaningInv, Cleaning, Mutations
<1>6. StagingInv(p)'
  BY <1>1, <1>2, <1>3 DEF StagingInv, Staged, RefsOf
<1>7. ~Adding(p)'
  BY <1>1 DEF Adding
<1> HIDE DEF row
<1> QED
  BY <1>1, <1>4, <1>5, <1>6, <1>7, EnterInv

\* `doctor --repair` begins without a row of its own.
LEMMA OpenRepairInv ==
  ASSUME IInv, NEW p \in Procs, pc[p] = "collecting", OpenRepair(p)
  PROVE  IInv'
<1> USE DEF OpenRepair, Enter, GoTo, durable
<1>1. pc'[p] = "reconcile" /\ before'[p] = NoRow
  BY DEF IInv, TypeOK
<1>2. TypeOK'
  BY DEF IInv, TypeOK, Places, Locked, RowOrNone
<1>3. MemoryInv(p)' /\ PlanInv(p)' /\ SeenInv(p)' /\ StagingInv(p)' /\ CleaningInv(p)'
  BY <1>1 DEF IInv, MemoryInv, PlanInv, SeenInv, StagingInv, CleaningInv,
     Switching, Mutations
<1>4. ~Adding(p)'
  BY DEF Adding
<1> QED
  BY <1>2, <1>3, <1>4, EnterInv

\* A resolution fixes the row whose secrets it will read.
LEMMA OpenResolveInv ==
  ASSUME IInv, NEW p \in Procs, pc[p] = "collecting", OpenResolve(p)
  PROVE  IInv'
<1> DEFINE row == profiles[target[p]]
<1>1. /\ op[p] = "resolve" /\ target[p] \in Names /\ row \in Row /\ row # NoRow
      /\ Enter(p, "fetch", row) /\ UNCHANGED after
      /\ todo' = [todo EXCEPT ![p] = RefsOf(row)]
  BY DEF OpenResolve, Acceptable, IInv, MemoryInv, TypeOK, RowOrNone, Mutations
<1> USE DEF Enter, GoTo, durable
<1>2. /\ before'[p] = row /\ pc'[p] = "fetch" /\ row' = row
      /\ \A q \in Procs \ {p} : todo'[q] = todo[q]
  BY <1>1 DEF IInv, TypeOK
<1>3. TypeOK'
  BY <1>1 DEF IInv, TypeOK, Places, Locked, RefsOf, Row
<1>4. MemoryInv(p)' /\ PlanInv(p)' /\ SeenInv(p)' /\ StagingInv(p)' /\ CleaningInv(p)'
  BY <1>1, <1>2 DEF IInv, MemoryInv, PlanInv, SeenInv, StagingInv,
     CleaningInv, Switching, Cleaning, Mutations
<1>5. ~Adding(p)'
  BY <1>1 DEF Adding
<1> HIDE DEF row
<1> QED
  BY <1>1, <1>2, <1>3, <1>4, <1>5, EnterInv
-----------------------------------------------------------------------------
(* The beginning and the end of a process *)

\* A command that has not asked for the lock remembers what it saw.
LEMMA RequestInv ==
  ASSUME IInv, NEW p \in Procs, NEW o \in Ops, NEW n \in Names, Request(p, o, n)
  PROVE  IInv'
<1> USE DEF Request, GoTo, durable, loop
<1>1. /\ before[p] = NoRow /\ after[p] = NoRow /\ seen[p] = NoRow
      /\ ~applied[p] /\ exit[p] = "none" /\ pc[p] = "idle"
  BY DEF IInv, MemoryInv
<1>2. /\ o = "add" => /\ after'[p] # NoRow /\ after'[p] \in Row
                      /\ after'[p].revision = 1 /\ after'[p].refs = {}
                      /\ FreshId(after'[p].id) /\ seen'[p] = NoRow
      /\ o \in {"edit", "remove"} =>
           /\ seen'[p] = profiles[n] /\ profiles[n] # NoRow /\ after'[p] = NoRow
           /\ o = "edit" => profiles[n].revision < MaxRevision
      /\ o \notin Mutations => after'[p] = NoRow /\ seen'[p] = NoRow
  BY <1>1, BoundsAssumption, NoRowAssumption DEF IInv, TypeOK, Row, Mutations
<1>3. /\ pc'[p] = "collecting" /\ op'[p] = o
      /\ target'[p] = IF o = "repair" THEN NoName ELSE n
  BY DEF IInv, TypeOK
<1>4. TypeOK'
  BY <1>2, BoundsAssumption DEF IInv, TypeOK, Places, RowOrNone, Row
<1>5. OthersUnchanged(p)
  BY DEF OthersUnchanged, IInv, TypeOK
<1>6. LockInv'
  BY <1>1, <1>3, <1>5 DEF IInv, LockInv, Locked, OthersUnchanged
<1>7. Live' = Live
  BY DEF Live
<1>8. StoreInv'
  BY <1>7 DEF IInv, StoreInv, NoUntrackedSecret, LiveSecretsPresent,
     CleanupNeverLive, ReferencesOwnedOnce
<1>9. MemoryInv(p)' /\ PlanInv(p)' /\ StagingInv(p)' /\ CleaningInv(p)' /\ FreshInv(p)'
  BY <1>1, <1>2, <1>3 DEF MemoryInv, PlanInv, StagingInv, CleaningInv,
     FreshInv, Switching, Cleaning, RefsOf
<1>10. SeenInv(p)'
  BY <1>2, <1>3, BoundsAssumption
     DEF SeenInv, Switching, IInv, StoreInv, TypeOK, RowOrNone, Row
<1>11. ASSUME NEW q \in Procs \ {p}
       PROVE  MemoryInv(q)' /\ PlanInv(q)' /\ SeenInv(q)'
  BY <1>5 DEF IInv, MemoryInv, PlanInv, SeenInv, OthersUnchanged
<1>12. ASSUME NEW q \in Procs \ {p}
       PROVE  StagingInv(q)' /\ CleaningInv(q)'
  <2>1. Staged(q)' = Staged(q) /\ Retired(q)' = Retired(q)
    BY <1>5 DEF OthersUnchanged, Staged, Retired
  <2>2. StagingInv(q)'
    BY <1>5, <1>7, <2>1 DEF IInv, StagingInv, Shows, OthersUnchanged
  <2>3. CleaningInv(q)'
    BY <1>5, <2>1 DEF IInv, CleaningInv, OwnDebt, OthersUnchanged
  <2> QED BY <2>2, <2>3
<1>13. ASSUME NEW q \in Procs \ {p}
       PROVE  FreshInv(q)'
  <2>1. RefsOf(before'[p]) = {} /\ RefsOf(after'[p]) = {}
    BY <1>1, <1>2 DEF RefsOf, Mutations
  <2> QED
    BY <1>5, <2>1 DEF IInv, FreshInv, Staged, OthersUnchanged, RefsOf
<1>14. IdInv(p)'
  <2> SUFFICES ASSUME o = "add"
               PROVE  IdInv(p)'
    BY <1>3 DEF IdInv, Adding
  <2>1. FreshId(after'[p].id) /\ seen'[p] = NoRow
    BY <1>2
  <2>2. \A q \in Procs \ {p} : Adding(q)' => after[q] # NoRow /\ after'[q] = after[q]
    BY <1>5 DEF IInv, PlanInv, Adding, OthersUnchanged
  <2> QED
    BY <1>5, <2>1, <2>2 DEF IdInv, FreshId, OthersUnchanged
<1>15. ASSUME NEW q \in Procs \ {p}
       PROVE  IdInv(q)'
  <2> SUFFICES ASSUME Adding(q)
               PROVE  IdInv(q)'
    BY <1>5 DEF IdInv, Adding, OthersUnchanged
  <2>1. after[q] # NoRow /\ after'[q] = after[q]
    BY <1>5 DEF IInv, PlanInv, Adding, OthersUnchanged
  <2>2. \A r \in Procs : seen'[r] # NoRow => seen'[r].id # after[q].id
    BY <1>2, <1>5 DEF IInv, IdInv, OthersUnchanged, Mutations
  <2>3. \A r \in Procs \ {q} : Adding(r)' => after'[r].id # after[q].id
    <3>1. Adding(p)' => after'[p].id # after[q].id
      BY <1>2, <1>3, <2>1 DEF Adding, FreshId
    <3> QED BY <1>5, <3>1 DEF IInv, IdInv, Adding, OthersUnchanged
  <2> QED BY <2>1, <2>2, <2>3 DEF IInv, IdInv
<1>16. ExitHonest' /\ SuccessIsClean'
  BY <1>1, <1>5 DEF IInv, ExitHonest, SuccessIsClean, Retired, OthersUnchanged
<1> QED
  BY <1>4, <1>6, <1>8, <1>9, <1>10, <1>11, <1>12, <1>13, <1>14, <1>15,
     <1>16 DEF IInv

\* A process that ends forgets everything; the stores stay as they are.
LEMMA ForgetInv ==
  ASSUME IInv, NEW p \in Procs, Forget(p), lock' = IF lock = p THEN NoProc ELSE lock
  PROVE  IInv'
<1> USE DEF Forget, GoTo, durable
<1>1. TypeOK'
  BY DEF IInv, TypeOK, Places, RowOrNone, Exits
<1>2. OthersUnchanged(p)
  BY DEF OthersUnchanged
<1>3. /\ pc'[p] = "idle" /\ op'[p] = "none" /\ seen'[p] = NoRow /\ before'[p] = NoRow
      /\ after'[p] = NoRow /\ exit'[p] = "none" /\ ~applied'[p]
  BY DEF IInv, TypeOK
<1>4. LockInv'
  BY <1>2, <1>3, NullAssumption DEF IInv, LockInv, Locked, OthersUnchanged
<1>5. Live' = Live
  BY DEF Live
<1>6. StoreInv'
  BY <1>5 DEF IInv, StoreInv, NoUntrackedSecret, LiveSecretsPresent,
     CleanupNeverLive, ReferencesOwnedOnce
<1>7. ProcessInv(p)'
  BY <1>3 DEF ProcessInv, MemoryInv, PlanInv, SeenInv, IdInv, Adding,
     StagingInv, CleaningInv, FreshInv, Switching, Cleaning
<1>8. ASSUME NEW q \in Procs \ {p}
      PROVE  MemoryInv(q)' /\ PlanInv(q)' /\ SeenInv(q)'
  <2>1. MemoryInv(q)'
    <3> HIDE DEF Forget, GoTo, durable
    <3>1. MemoryInv(q)
      BY DEF IInv
    <3>2. /\ pc'[q] = pc[q] /\ op'[q] = op[q] /\ target'[q] = target[q]
          /\ seen'[q] = seen[q] /\ before'[q] = before[q] /\ after'[q] = after[q]
          /\ exit'[q] = exit[q] /\ applied'[q] = applied[q]
      BY <1>2 DEF OthersUnchanged
    <3> QED
      BY <3>1, <3>2 DEF MemoryInv
  <2>2. PlanInv(q)'
    BY <1>2 DEF IInv, PlanInv, OthersUnchanged
  <2>3. SeenInv(q)'
    BY <1>2 DEF IInv, SeenInv, OthersUnchanged
  <2> QED BY <2>1, <2>2, <2>3
<1>9. ASSUME NEW q \in Procs \ {p}
      PROVE  StagingInv(q)' /\ CleaningInv(q)'
  <2>1. Staged(q)' = Staged(q) /\ Retired(q)' = Retired(q)
    BY <1>2 DEF Staged, Retired
  <2>2. StagingInv(q)'
    BY <1>2, <1>5, <2>1 DEF IInv, StagingInv, Shows, OthersUnchanged
  <2>3. CleaningInv(q)'
    BY <1>2, <2>1 DEF IInv, CleaningInv, OwnDebt, OthersUnchanged
  <2> QED BY <2>2, <2>3
<1>10. ASSUME NEW q \in Procs \ {p}
       PROVE  FreshInv(q)' /\ IdInv(q)'
  <2>1. RefsOf(before'[p]) = {} /\ RefsOf(after'[p]) = {}
    BY <1>3 DEF RefsOf
  <2>2. FreshInv(q)'
    BY <1>2, <2>1 DEF IInv, FreshInv, Staged, RefsOf
  <2>3. \A r \in Procs : Adding(r)' => r # p /\ Adding(r)
    BY <1>2, <1>3 DEF Adding, OthersUnchanged
  <2>4. IdInv(q)'
    BY <1>2, <1>3, <2>3 DEF IInv, IdInv, OthersUnchanged
  <2> QED BY <2>2, <2>4
<1>11. ExitHonest' /\ SuccessIsClean'
  BY <1>2, <1>3 DEF IInv, ExitHonest, SuccessIsClean, Retired, Mutations
<1> QED
  BY <1>1, <1>4, <1>6, <1>7, <1>8, <1>9, <1>10, <1>11 DEF IInv, ProcessInv

-----------------------------------------------------------------------------
(* The theorems *)

\* The empty stores and idle processes satisfy the invariant.
LEMMA InitInv ==
  ASSUME Init
  PROVE  IInv
<1> USE DEF Init
<1>1. TypeOK
  BY DEF TypeOK, RowOrNone, Places, Exits
<1>2. Live = {} /\ \A n \in Names : RefsOf(profiles[n]) = {}
  BY DEF Live, RefsOf
<1>3. StoreInv
  BY <1>2 DEF StoreInv, NoUntrackedSecret, LiveSecretsPresent,
     CleanupNeverLive, ReferencesOwnedOnce
<1>4. LockInv
  BY NullAssumption DEF LockInv, Locked
<1>5. ASSUME NEW p \in Procs
      PROVE  ProcessInv(p)
  BY DEF ProcessInv, MemoryInv, PlanInv, SeenInv, IdInv, Adding, StagingInv,
     CleaningInv, FreshInv, Switching, Cleaning, Locked
<1>6. ExitHonest /\ SuccessIsClean
  BY DEF ExitHonest, SuccessIsClean
<1> QED
  BY <1>1, <1>3, <1>4, <1>5, <1>6 DEF IInv, ProcessInv

\* Every step of a command preserves the invariant.
LEMMA StepInv ==
  ASSUME IInv, NEW p \in Procs, Step(p)
  PROVE  IInv'
<1>1. CASE LockBusy(p) \/ OpenRejected(p)
  BY <1>1, RefusedInv
<1>2. CASE Open(p)
  <2>1. pc[p] = "collecting"
    BY <1>2 DEF Open, OpenAdd, OpenEdit, OpenRemove, OpenRepair, OpenResolve,
       Enter
  <2> QED
    BY <1>2, <2>1, OpenAddInv, OpenEditInv, OpenRemoveInv, OpenRepairInv, OpenResolveInv
       DEF Open
<1>3. CASE Journal(p) \/ JournalFails(p)
  BY <1>3, JournalInv, JournalFailsInv
<1>4. CASE \E r \in Refs : StageSecret(p, r) \/ StageFails(p, r)
  BY <1>4, StageSecretInv, StageFailsInv
<1>5. CASE Commit(p) \/ CommitRaises(p) \/ TransactionFails(p)
  BY <1>5, CommitInv, CommitRaisesInv, TransactionFailsInv
<1>6. CASE Inspect(p) \/ InspectFails(p)
  BY <1>6, InspectInv
<1>7. CASE BeginReconcile(p) \/ ReconcileAborts(p) \/ EndReconcile(p)
  BY <1>7, BeginReconcileInv, ReconcileAbortsInv, EndReconcileInv
<1>8. CASE \E r \in Refs : DeleteSecret(p, r) \/ DeleteFails(p, r)
  BY <1>8, DeleteSecretInv, DeleteFailsInv
<1>9. CASE Unjournal(p) \/ UnjournalFails(p)
  BY <1>9, UnjournalInv, UnjournalFailsInv
<1>10. CASE Reload(p) \/ ReloadFails(p)
  BY <1>10, ReloadInv
<1>11. CASE (\E r \in Refs : FetchSecret(p, r)) \/ FetchFails(p) \/ EndFetch(p)
  BY <1>11, FetchSecretInv, FetchEndsInv
<1>12. CASE Return(p)
  <2>1. lock # p
    BY <1>12 DEF Return, IInv, LockInv, Locked
  <2> QED
    BY <1>12, <2>1, ForgetInv DEF Return
<1> QED
  BY <1>1, <1>2, <1>3, <1>4, <1>5, <1>6, <1>7, <1>8, <1>9, <1>10, <1>11,
     <1>12 DEF Step

\* So do requests, crashes and steps that change nothing.
LEMMA NextInv ==
  ASSUME IInv, [Next]_vars
  PROVE  IInv'
<1>1. CASE Next
  <2>1. PICK p \in Procs :
          (\E o \in Ops, n \in Names : Request(p, o, n)) \/ Step(p) \/ Crash(p)
    BY <1>1 DEF Next
  <2> QED
    BY <2>1, RequestInv, StepInv, ForgetInv DEF Crash
<1>2. CASE UNCHANGED vars
  <2> USE <1>2 DEF vars, durable, memory, loop
  <2>1. TypeOK' /\ LockInv' /\ Live' = Live
    BY DEF IInv, TypeOK, LockInv, Live
  <2>2. StoreInv'
    BY <2>1 DEF IInv, StoreInv, NoUntrackedSecret, LiveSecretsPresent,
       CleanupNeverLive, ReferencesOwnedOnce
  <2>3. ASSUME NEW p \in Procs
        PROVE  ProcessInv(p)'
    <3>1. Staged(p)' = Staged(p) /\ Retired(p)' = Retired(p)
      BY DEF Staged, Retired
    <3>2. MemoryInv(p)' /\ PlanInv(p)' /\ SeenInv(p)' /\ IdInv(p)' /\ FreshInv(p)'
      BY DEF IInv, MemoryInv, PlanInv, SeenInv, IdInv, Adding, FreshInv, Staged
    <3>3. StagingInv(p)' /\ CleaningInv(p)'
      BY <2>1, <3>1 DEF IInv, StagingInv, CleaningInv, Shows, OwnDebt
    <3> QED BY <3>2, <3>3 DEF ProcessInv
  <2>4. ExitHonest' /\ SuccessIsClean'
    BY DEF IInv, ExitHonest, SuccessIsClean, Retired
  <2> QED
    BY <2>1, <2>2, <2>3, <2>4 DEF IInv, ProcessInv
<1> QED
  BY <1>1, <1>2

\* IInv holds in every reachable state of every instance of the engine.
THEOREM Invariance == Spec => []IInv
<1>1. Init => IInv
  BY InitInv
<1>2. IInv /\ [Next]_vars => IInv'
  BY NextInv
<1> QED
  BY <1>1, <1>2, PTL DEF Spec

\* Whatever failed or crashed, every stored value belongs to a profile or is
\* journaled for deletion, never both, and every profile has its values.
THEOREM StoresAgree ==
  Spec => [](NoUntrackedSecret /\ LiveSecretsPresent /\ CleanupNeverLive)
<1>1. IInv => NoUntrackedSecret /\ LiveSecretsPresent /\ CleanupNeverLive
  BY DEF IInv, StoreInv
<1> QED
  BY <1>1, Invariance, PTL

\* No interruption of a command, and no other command, leaves a profile whose
\* credential is not in the vault.
THEOREM SecretsAreThere == Spec => []LiveSecretsPresent
BY StoresAgree, PTL

\* The exit status tells the truth about the change, and exit 0 also that
\* nothing of it is left to clean up.
THEOREM OutcomesTrue == Spec => [](ExitHonest /\ SuccessIsClean)
<1>1. IInv => ExitHonest /\ SuccessIsClean
  BY DEF IInv
<1> QED
  BY <1>1, Invariance, PTL

\* A session resolves the secrets of one current row.
THEOREM SnapshotsConsistent == Spec => []ResolveReadsOneGeneration
<1>1. IInv => ResolveReadsOneGeneration
  <2> SUFFICES ASSUME IInv, NEW p \in Procs, pc[p] = "fetch"
               PROVE  before[p] = profiles[target[p]] /\ RefsOf(before[p]) \subseteq vault
    BY DEF ResolveReadsOneGeneration
  <2>1. before[p] = profiles[target[p]] /\ target[p] \in Names
    BY DEF IInv, CleaningInv, MemoryInv
  <2> QED
    BY <2>1 DEF IInv, StoreInv, LiveSecretsPresent, Live
<1> QED
  BY <1>1, Invariance, PTL

\* Only the switch of a process changes its history variable.
LEMMA AppliedBySwitch ==
  ASSUME IInv, Next, NEW p \in Procs, ~applied[p], applied'[p]
  PROVE  pc[p] = "commit" /\ CanSwitch(p) /\ Switch(p)
<1>1. PICK q \in Procs :
        (\E o \in Ops, n \in Names : Request(q, o, n)) \/ Step(q) \/ Crash(q)
  BY DEF Next
<1> USE DEF IInv, TypeOK
<1>2. CASE (\E o \in Ops, n \in Names : Request(q, o, n)) \/ Crash(q) \/ Return(q)
  BY <1>2 DEF Request, Crash, Return, Forget
<1>3. CASE Commit(q) \/ CommitRaises(q)
  BY <1>3 DEF Commit, CommitRaises, Switch
<1>4. CASE applied' = applied
  BY <1>4
<1>5. CASE Open(q)
  BY <1>5 DEF Open, OpenAdd, OpenEdit, OpenRemove, OpenRepair, OpenResolve,
     Enter
<1>6. CASE LockBusy(q) \/ OpenRejected(q) \/ Journal(q) \/ JournalFails(q)
             \/ (\E r \in Refs : StageSecret(q, r) \/ StageFails(q, r))
             \/ TransactionFails(q) \/ Inspect(q) \/ InspectFails(q)
  BY <1>6 DEF LockBusy, OpenRejected, Journal, JournalFails, StageSecret,
     StageFails, TransactionFails, Inspect, InspectFails
<1>7. CASE BeginReconcile(q) \/ ReconcileAborts(q)
             \/ (\E r \in Refs : DeleteSecret(q, r) \/ DeleteFails(q, r))
             \/ Unjournal(q) \/ UnjournalFails(q) \/ EndReconcile(q)
  BY <1>7 DEF BeginReconcile, ReconcileAborts, DeleteSecret, DeleteFails,
     Unjournal, UnjournalFails, EndReconcile
<1>8. CASE Reload(q) \/ ReloadFails(q) \/ (\E r \in Refs : FetchSecret(q, r))
             \/ FetchFails(q) \/ EndFetch(q)
  BY <1>8 DEF Reload, ReloadFails, FetchSecret, FetchFails, EndFetch
<1> QED
  BY <1>1, <1>2, <1>3, <1>5, <1>6, <1>7, <1>8 DEF Step

\* No update is lost: the row a mutation replaces is the row its user saw.
THEOREM UpdatesNotLost == Spec => NoLostUpdate
<1>1. IInv /\ [Next]_vars =>
        [\A p \in Procs :
           (op[p] \in {"edit", "remove"} /\ ~applied[p] /\ applied'[p])
             => profiles[target[p]] = seen[p]]_vars
  <2> SUFFICES ASSUME IInv, Next, NEW p \in Procs,
                      op[p] \in {"edit", "remove"}, ~applied[p], applied'[p]
               PROVE  profiles[target[p]] = seen[p]
    OBVIOUS
  <2>1. pc[p] = "commit"
    BY AppliedBySwitch
  <2> QED
    BY <2>1 DEF IInv, SeenInv, StagingInv, Switching
<1> QED
  BY <1>1, Invariance, PTL DEF Spec, NoLostUpdate

\* A repair that reports success leaves nothing to clean up.
THEOREM RepairsSettle == Spec => RepairSettles
<1>1. IInv /\ [Next]_vars =>
        [\A p \in Procs :
           (op[p] = "repair" /\ exit[p] = "none" /\ exit'[p] = "ok")
             => journal' = {} /\ vault' = Live']_vars
  <2> SUFFICES ASSUME IInv, Next, NEW p \in Procs,
                      op[p] = "repair", exit[p] = "none", exit'[p] = "ok"
               PROVE  journal' = {} /\ vault' = Live'
    OBVIOUS
  <2>1. PICK q \in Procs :
          (\E o \in Ops, n \in Names : Request(q, o, n)) \/ Step(q) \/ Crash(q)
    BY DEF Next
  <2>2. Reload(p) /\ ~failed[p]
    <3> USE DEF IInv, TypeOK
    <3>1. CASE (\E o \in Ops, n \in Names : Request(q, o, n)) \/ Crash(q) \/ Return(q)
                 \/ Open(q)
      BY <3>1 DEF Request, Crash, Return, Forget, Open, OpenAdd, OpenEdit,
         OpenRemove, OpenRepair, OpenResolve, Enter
    <3>2. CASE LockBusy(q) \/ OpenRejected(q) \/ JournalFails(q)
                 \/ (\E r \in Refs : StageFails(q, r)) \/ TransactionFails(q)
                 \/ InspectFails(q) \/ ReloadFails(q) \/ FetchFails(q)
      BY <3>2 DEF LockBusy, OpenRejected, JournalFails, StageFails,
         TransactionFails, InspectFails, ReloadFails, FetchFails, Report
    <3>3. CASE Inspect(q) \/ ReconcileAborts(q) \/ UnjournalFails(q)
      BY <3>3 DEF Inspect, ObservedOutcome, ReconcileAborts, UnjournalFails,
         AfterSwitchError, Report
    <3>4. CASE EndFetch(q)
      BY <3>4 DEF EndFetch, Report, MemoryInv
    <3>5. CASE Reload(q)
      BY <3>5 DEF Reload, Report, AfterSwitchError
    <3>6. CASE Journal(q) \/ (\E r \in Refs : StageSecret(q, r) \/ FetchSecret(q, r))
                 \/ Commit(q) \/ CommitRaises(q) \/ BeginReconcile(q)
                 \/ (\E r \in Refs : DeleteSecret(q, r) \/ DeleteFails(q, r))
                 \/ Unjournal(q) \/ EndReconcile(q)
      BY <3>6 DEF Journal, StageSecret, FetchSecret, Commit, CommitRaises,
         BeginReconcile, DeleteSecret, DeleteFails, Unjournal, EndReconcile
    <3> QED
      BY <2>1, <3>1, <3>2, <3>3, <3>4, <3>5, <3>6 DEF Step
  <2>3. journal' = {} /\ journal' = journal
    BY <2>2 DEF Reload, durable, IInv, CleaningInv, OwnDebt
  <2>4. IInv'
    BY NextInv
  <2> QED
    BY <2>3, <2>4 DEF IInv, StoreInv, NoUntrackedSecret, LiveSecretsPresent
<1> QED
  BY <1>1, Invariance, PTL DEF Spec, RepairSettles
-----------------------------------------------------------------------------
(* The engine implements ProfileStore *)

\* In the abstract contract the switch is one Replace.
LEMMA SwitchReplaces ==
  ASSUME IInv, NEW p \in Procs, pc[p] = "commit", CanSwitch(p), Switch(p),
         UNCHANGED vault
  PROVE  Contract!Next
<1> DEFINE n == target[p]
<1>1. n \in Names /\ profiles[n] = before[p]
  BY SwitchRows
<1>2. after[p] \in Row \cup {NoRow}
  BY DEF IInv, TypeOK, RowOrNone
<1>3. Contract!Succeeds(before[p], after[p])
  BY DEF Contract!Succeeds, IInv, MemoryInv, PlanInv, Switching, Mutations
<1>4. Staged(p) \subseteq journal \cap vault
  BY DEF IInv, StagingInv
<1>5. Contract!Replace(n, after[p])
  BY <1>1, <1>3, <1>4 DEF Contract!Replace, Contract!RefsOf, Switch, Staged,
     Retired, RefsOf
<1> QED
  BY <1>1, <1>2, <1>5 DEF Contract!Next

\* Every step of a command is a step of the contract or changes no store.
LEMMA StepImplements ==
  ASSUME IInv, NEW p \in Procs, Step(p)
  PROVE  [Contract!Next]_(Contract!store)
<1> USE DEF Contract!store
<1>1. ASSUME UNCHANGED <<profiles, vault>>, pc[p] = "journal",
             journal' \in {journal, journal \cup Staged(p)}
      PROVE  [Contract!Next]_(Contract!store)
  <2>1. Staged(p) \in SUBSET Refs
    BY DEF IInv, TypeOK, Staged, RefsOf, RowOrNone, Row
  <2>2. Staged(p) \cap (Contract!Owned \cup vault \cup journal) = {}
    BY <1>1 DEF IInv, StagingInv, Contract!Owned, Contract!RefsOf, Live, RefsOf
  <2>3. journal' = journal \cup Staged(p) => Contract!Reserve(Staged(p))
    BY <1>1, <2>2 DEF Contract!Reserve
  <2> QED
    BY <1>1, <2>1, <2>3 DEF Contract!Next
<1>2. ASSUME NEW r \in Refs, UNCHANGED <<profiles, journal>>, r \in journal,
             vault' \in {vault, vault \cup {r}, vault \ {r}}
      PROVE  [Contract!Next]_(Contract!store)
  <2>1. vault' = vault \cup {r} => Contract!Store(r)
    BY <1>2 DEF Contract!Store
  <2>2. vault' = vault \ {r} => Contract!Erase(r)
    BY <1>2 DEF Contract!Erase
  <2> QED
    BY <1>2, <2>1, <2>2 DEF Contract!Next
<1>3. ASSUME UNCHANGED <<profiles, vault>>, pc[p] = "unjournal",
             journal' \in {journal, journal \ {current[p]}}
      PROVE  [Contract!Next]_(Contract!store)
  <2>1. current[p] \in journal \ vault /\ current[p] \in Refs
    BY <1>3 DEF IInv, CleaningInv, TypeOK
  <2>2. journal' = journal \ {current[p]} => Contract!Settle(current[p])
    BY <1>3, <2>1 DEF Contract!Settle
  <2> QED
    BY <1>3, <2>1, <2>2 DEF Contract!Next
<1>4. CASE UNCHANGED durable
  BY <1>4 DEF durable
<1>5. CASE Journal(p) \/ JournalFails(p)
  BY <1>1, <1>5 DEF Journal, JournalFails
<1>6. CASE \E r \in Refs : StageSecret(p, r) \/ StageFails(p, r)
  <2>1. PICK r \in Refs : StageSecret(p, r) \/ StageFails(p, r)
    BY <1>6
  <2>2. r \in journal
    BY <2>1 DEF StageSecret, StageFails, IInv, StagingInv
  <2> QED
    BY <1>2, <2>1, <2>2 DEF StageSecret, StageFails
<1>7. CASE Commit(p)
  BY <1>7, SwitchReplaces DEF Commit
<1>8. CASE CommitRaises(p)
  BY <1>8, SwitchReplaces DEF CommitRaises
<1>9. CASE \E r \in Refs : DeleteSecret(p, r) \/ DeleteFails(p, r)
  <2>1. PICK r \in Refs : DeleteSecret(p, r) \/ DeleteFails(p, r)
    BY <1>9
  <2>2. r \in journal
    BY <2>1 DEF DeleteSecret, DeleteFails, IInv, CleaningInv
  <2> QED
    BY <1>2, <2>1, <2>2 DEF DeleteSecret, DeleteFails
<1>10. CASE Unjournal(p) \/ UnjournalFails(p)
  BY <1>3, <1>10 DEF Unjournal, UnjournalFails
<1>11. CASE Open(p)
  BY <1>4, <1>11 DEF Open, OpenAdd, OpenEdit, OpenRemove, OpenRepair,
     OpenResolve, Enter
<1> QED
  BY <1>4, <1>5, <1>6, <1>7, <1>8, <1>9, <1>10, <1>11
     DEF Step, LockBusy, OpenRejected, TransactionFails, Inspect,
        InspectFails, BeginReconcile, ReconcileAborts, EndReconcile, Reload,
        ReloadFails, FetchSecret, FetchFails, EndFetch, Return, Forget

\* With every interleaving, failure and crash, the engine does only what the
\* two-store contract allows.
THEOREM Implementation == Spec => ImplementsProfileStore
<1>1. Init => Contract!Init
  BY DEF Init, Contract!Init
<1>2. IInv /\ [Next]_vars => [Contract!Next]_(Contract!store)
  <2> SUFFICES ASSUME IInv, [Next]_vars
               PROVE  [Contract!Next]_(Contract!store)
    OBVIOUS
  <2>1. CASE UNCHANGED vars
    BY <2>1 DEF vars, durable, Contract!store
  <2>2. CASE Next
    <3>1. PICK p \in Procs :
            (\E o \in Ops, n \in Names : Request(p, o, n)) \/ Step(p) \/ Crash(p)
      BY <2>2 DEF Next
    <3>2. CASE (\E o \in Ops, n \in Names : Request(p, o, n)) \/ Crash(p)
      BY <3>2 DEF Request, Crash, Forget, durable, Contract!store
    <3> QED
      BY <3>1, <3>2, StepImplements
  <2> QED
    BY <2>1, <2>2
<1> QED
  BY <1>1, <1>2, Invariance, PTL DEF Spec, ImplementsProfileStore, Contract!Spec
=============================================================================
