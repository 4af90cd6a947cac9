------------------------------ MODULE Sessions ------------------------------
(***************************************************************************)
(* The private directories of running `exec` sessions and the scans that   *)
(* clean up after crashed ones (runtime.py, and the life of a session in   *)
(* run_profile_session of session.py).                                     *)
(*                                                                         *)
(* Every system call on the shared directory is a step of its own: owners, *)
(* janitors and doctors interleave between any two of them.  Session       *)
(* identifiers are never used twice, so a session lives once.  The lock of *)
(* a session is the flock on the inode of its session.lock file; it        *)
(* outlives the file's name and ends with the descriptor's process.        *)
(***************************************************************************)
EXTENDS Naturals, FiniteSets

CONSTANTS Sessions,   \* the sessions that are ever created
          Cleaners,   \* scans that delete: the janitor of exec, doctor --repair
          Doctors,    \* scans that only look
          ScanLimit,  \* how many entries an automatic janitor looks at
          MaxDeaths,  \* bound: scans killed or failing in the middle
          Owner, NoOne, NoSession

Scanners == Cleaners \cup Doctors

ASSUME ScannersAssumption ==
  /\ Cleaners \cap Doctors = {}
  /\ Owner \notin Scanners /\ NoOne \notin Scanners \cup {Owner}
  /\ NoSession \notin Sessions
ASSUME LimitAssumption == ScanLimit \in Nat \ {0} /\ MaxDeaths \in Nat

VARIABLES
  linked,   \* sessions whose directory has its name under the runtime root
  files,    \* session -> entries of its directory
  holder,   \* session -> who holds the flock of its lock file
  old,      \* sessions whose createdAt is five minutes ago or more
  owner,    \* session -> what its supervising process does
  listed,   \* session -> entries its owner has still to delete
  scan,     \* scanner -> what it does
  todo,     \* scanner -> entries it has still to look at
  entry,    \* scanner -> the session it looks at, or looked at last
  names,    \* scanner -> entries of that directory it has listed
  verdict,  \* scanner -> what it said of that session
  deaths

ownerVars   == <<owner, listed>>
scannerVars == <<scan, todo, entry, names, verdict, deaths>>
vars == <<linked, files, holder, old, ownerVars, scannerVars>>

\* The session files stand for all material written for the child.
Files == {"lock", "temporary", "marker", "material"}

OwnerPlaces == {"idle", "made", "locking", "marking", "replacing", "preparing",
                "remarking", "running", "deleting", "gone"}
Creating == {"made", "locking", "marking", "replacing"}
Owned    == {"preparing", "remarking", "running"}
ScanPlaces == {"idle", "pick", "open", "read", "list", "stat", "try", "judge",
               "relist", "unlink"}
Verdicts == {"none", "vanished", "invalid", "active", "recent", "stale",
             "removed", "failed"}

Init ==
  /\ linked = {} /\ old = {}
  /\ files = [s \in Sessions |-> {}]
  /\ holder = [s \in Sessions |-> NoOne]
  /\ owner = [s \in Sessions |-> "idle"]
  /\ listed = [s \in Sessions |-> {}]
  /\ scan = [j \in Scanners |-> "idle"]
  /\ todo = [j \in Scanners |-> {}]
  /\ entry = [j \in Scanners |-> NoSession]
  /\ names = [j \in Scanners |-> {}]
  /\ verdict = [j \in Scanners |-> "none"]
  /\ deaths = 0

-----------------------------------------------------------------------------
(* The owner: create_session_runtime, mark_running, close *)

Moves(s, from, to) == owner[s] = from /\ owner' = [owner EXCEPT ![s] = to]
Adds(s, f) == files' = [files EXCEPT ![s] = @ \cup {f}]
Releases(s, who) == holder' = [holder EXCEPT ![s] = IF @ = who THEN NoOne ELSE @]

MakeDirectory(s) ==
  /\ Moves(s, "idle", "made")
  /\ linked' = linked \cup {s}
  /\ UNCHANGED <<files, holder, old, listed, scannerVars>>

CreateLockFile(s) ==
  /\ Moves(s, "made", "locking")
  /\ Adds(s, "lock")
  /\ UNCHANGED <<linked, holder, old, listed, scannerVars>>

\* LOCK_EX | LOCK_NB: an error if anybody else holds it.
TakeLock(s) ==
  /\ Moves(s, "locking", "marking")
  /\ holder[s] = NoOne
  /\ holder' = [holder EXCEPT ![s] = Owner]
  /\ UNCHANGED <<linked, files, old, listed, scannerVars>>

\* _write_marker: a complete temporary file, then one atomic rename; first
\* for `preparing`, then for `running`.
WriteTemporary(s) ==
  /\ Moves(s, "marking", "replacing") \/ Moves(s, "preparing", "remarking")
  /\ Adds(s, "temporary")
  /\ UNCHANGED <<linked, holder, old, listed, scannerVars>>

ReplaceMarker(s) ==
  /\ Moves(s, "replacing", "preparing") \/ Moves(s, "remarking", "running")
  /\ files' = [files EXCEPT ![s] = (@ \ {"temporary"}) \cup {"marker"}]
  /\ UNCHANGED <<linked, holder, old, listed, scannerVars>>

WriteMaterial(s) ==
  /\ owner[s] = "preparing"
  /\ Adds(s, "material")
  /\ UNCHANGED <<linked, holder, old, ownerVars, scannerVars>>

\* A call of the creation raises: the lock descriptor is closed and what was
\* made so far is deleted.
CreateFails(s) ==
  /\ \E place \in Creating : Moves(s, place, "deleting")
  /\ files' = [files EXCEPT ![s] = @ \ {"temporary"}]
  /\ listed' = [listed EXCEPT ![s] = files[s] \ {"temporary"}]
  /\ Releases(s, Owner)
  /\ UNCHANGED <<linked, old, scannerVars>>

\* Mutant of Close: the lock descriptor is closed before the deletion.
CloseUnlocked(s) ==
  /\ \E place \in Owned : Moves(s, place, "deleting")
  /\ files' = [files EXCEPT ![s] = @ \ {"temporary"}]
  /\ listed' = [listed EXCEPT ![s] = files[s] \ {"temporary"}]
  /\ Releases(s, Owner)
  /\ UNCHANGED <<linked, old, scannerVars>>

\* The child has ended or was never started: close keeps the lock while it
\* deletes what it has listed.
Close(s) ==
  /\ \E place \in Owned : Moves(s, place, "deleting")
  /\ files' = [files EXCEPT ![s] = @ \ {"temporary"}]
  /\ listed' = [listed EXCEPT ![s] = files[s] \ {"temporary"}]
  /\ UNCHANGED <<linked, holder, old, scannerVars>>

OwnerUnlinks(s, f) ==
  /\ owner[s] = "deleting" /\ f \in listed[s] \cap files[s]
  /\ files' = [files EXCEPT ![s] = @ \ {f}]
  /\ listed' = [listed EXCEPT ![s] = @ \ {f}]
  /\ UNCHANGED <<linked, holder, old, owner, scannerVars>>

OwnerRemovesDirectory(s) ==
  /\ listed[s] = {} /\ files[s] = {} /\ s \in linked
  /\ Moves(s, "deleting", "gone")
  /\ linked' = linked \ {s}
  /\ Releases(s, Owner)
  /\ UNCHANGED <<files, old, listed, scannerVars>>

\* The process is killed, or its deletion raises: the descriptors are closed
\* and the directory stays as it is.
OwnerDies(s) ==
  /\ owner[s] \notin {"idle", "gone"}
  /\ owner' = [owner EXCEPT ![s] = "gone"]
  /\ listed' = [listed EXCEPT ![s] = {}]
  /\ Releases(s, Owner)
  /\ UNCHANGED <<linked, files, old, scannerVars>>

\* createdAt is read from the clock before the marker is written.
GrowOld(s) ==
  /\ owner[s] \notin {"idle", "made", "locking"} /\ s \notin old
  /\ old' = old \cup {s}
  /\ UNCHANGED <<linked, files, holder, ownerVars, scannerVars>>

-----------------------------------------------------------------------------
(* The scan: scan_sessions and _inspect_entry *)

Goes(j, from, to) == scan[j] = from /\ scan' = [scan EXCEPT ![j] = to]
Lists(j, what) == names' = [names EXCEPT ![j] = what]

\* The flock on the runtime root: exclusive for a scan that deletes.
RootAvailable(j) ==
  /\ \A k \in Cleaners : scan[k] = "idle"
  /\ j \in Cleaners => \A k \in Scanners : scan[k] = "idle"

\* The entries of the root as the scan reads them; the janitor stops at its
\* limit, doctor --repair and doctor look at all.
Begin(j) ==
  /\ RootAvailable(j)
  /\ Goes(j, "idle", "pick")
  /\ \E some \in SUBSET linked :
       /\ some = linked \/ (j \in Cleaners /\ Cardinality(some) = ScanLimit)
       /\ todo' = [todo EXCEPT ![j] = some]
  /\ UNCHANGED <<linked, files, holder, old, ownerVars, entry, names, verdict, deaths>>

\* Mutant of Says: the lock descriptor stays open until the process ends.
LeaksLock(j, what) ==
  /\ scan' = [scan EXCEPT ![j] = "pick"]
  /\ verdict' = [verdict EXCEPT ![j] = what]
  /\ names' = [names EXCEPT ![j] = {}]
  /\ UNCHANGED <<linked, files, holder, old, ownerVars, todo, entry, deaths>>

\* The result for one entry; closing the lock descriptor releases the flock.
Says(j, what) ==
  /\ scan' = [scan EXCEPT ![j] = "pick"]
  /\ verdict' = [verdict EXCEPT ![j] = what]
  /\ names' = [names EXCEPT ![j] = {}]
  /\ Releases(entry[j], j)
  /\ UNCHANGED <<linked, files, old, ownerVars, todo, entry, deaths>>

Continues(j, from, to) ==
  /\ Goes(j, from, to)
  /\ UNCHANGED <<linked, files, holder, old, ownerVars, todo, entry, verdict, deaths>>

\* Mutant of InvalidOrVanished: an invalid entry ends the scan.
EndOnInvalid(j) ==
  /\ scan' = [scan EXCEPT ![j] = "idle"]
  /\ todo' = [todo EXCEPT ![j] = {}]
  /\ entry' = [entry EXCEPT ![j] = NoSession]
  /\ names' = [names EXCEPT ![j] = {}]
  /\ UNCHANGED <<linked, files, holder, old, ownerVars, verdict, deaths>>

InvalidOrVanished(j) ==
  Says(j, IF entry[j] \in linked THEN "invalid" ELSE "vanished")

OpenDirectory(j, s) ==
  /\ s \in todo[j]
  /\ Goes(j, "pick", IF s \in linked THEN "open" ELSE "pick")
  /\ todo' = [todo EXCEPT ![j] = @ \ {s}]
  /\ entry' = [entry EXCEPT ![j] = s]
  /\ verdict' = [verdict EXCEPT ![j] = IF s \in linked THEN "none" ELSE "vanished"]
  /\ UNCHANGED <<linked, files, holder, old, ownerVars, names, deaths>>

\* The lock file is opened first, then the marker is read, then every entry
\* that was listed is checked.
OpenLockFile(j) ==
  /\ Continues(j, "open", "read")
  /\ "lock" \in files[entry[j]]
  /\ UNCHANGED names
\* Mutant of ReadMarker: a session needs no marker yet.
MarkerOptional(j) ==
  /\ Continues(j, "read", "list")
  /\ UNCHANGED names
ReadMarker(j) ==
  /\ Continues(j, "read", "list")
  /\ "marker" \in files[entry[j]]
  /\ UNCHANGED names
ListTree(j) ==
  /\ Continues(j, "list", "stat")
  /\ Lists(j, files[entry[j]])
StatTree(j) ==
  /\ Continues(j, "stat", "try")
  /\ names[j] \subseteq files[entry[j]]
  /\ UNCHANGED names

Missing(j) ==
  \/ scan[j] = "open" /\ "lock" \notin files[entry[j]]
  \/ scan[j] = "read" /\ "marker" \notin files[entry[j]]
  \/ scan[j] = "stat" /\ ~(names[j] \subseteq files[entry[j]])
FindInvalid(j) == Missing(j) /\ InvalidOrVanished(j)

FindActive(j) ==
  /\ scan[j] = "try" /\ holder[entry[j]] # NoOne
  /\ Says(j, "active")

\* Mutant of TryLock: a lock that is taken is no obstacle.
TryLockAnyway(j) ==
  /\ Goes(j, "try", "judge")
  /\ UNCHANGED <<linked, files, holder, old, ownerVars, todo, entry, names, verdict, deaths>>

TryLock(j) ==
  /\ Goes(j, "try", "judge")
  /\ holder[entry[j]] = NoOne
  /\ holder' = [holder EXCEPT ![entry[j]] = j]
  /\ UNCHANGED <<linked, files, old, ownerVars, todo, entry, names, verdict, deaths>>

FindRecentOrStale(j) ==
  /\ scan[j] = "judge"
  /\ entry[j] \notin old \/ j \in Doctors
  /\ Says(j, IF entry[j] \in old THEN "stale" ELSE "recent")

Condemn(j) ==
  /\ entry[j] \in old /\ j \in Cleaners
  /\ Continues(j, "judge", "relist")
  /\ UNCHANGED names

\* _delete_open_session: validate, list, unlink one by one, remove.
Relist(j) ==
  /\ Continues(j, "relist", "unlink")
  /\ Lists(j, files[entry[j]])

ScannerUnlinks(j, f) ==
  /\ scan[j] = "unlink" /\ f \in names[j] \cap files[entry[j]]
  /\ files' = [files EXCEPT ![entry[j]] = @ \ {f}]
  /\ Lists(j, names[j] \ {f})
  /\ UNCHANGED <<linked, holder, old, ownerVars, scan, todo, entry, verdict, deaths>>

RemoveDirectory(j) ==
  /\ scan[j] = "unlink" /\ names[j] = {}
  /\ entry[j] \in linked /\ files[entry[j]] = {}
  /\ scan' = [scan EXCEPT ![j] = "pick"]
  /\ verdict' = [verdict EXCEPT ![j] = "removed"]
  /\ linked' = linked \ {entry[j]}
  /\ Releases(entry[j], j)
  /\ UNCHANGED <<files, old, ownerVars, todo, entry, names, deaths>>

\* An entry it listed, or the directory itself, is gone or not empty.
DeletionFails(j) ==
  /\ scan[j] = "unlink"
  /\ \/ ~(names[j] \subseteq files[entry[j]])
     \/ names[j] = {} /\ ~(entry[j] \in linked /\ files[entry[j]] = {})
  /\ Says(j, "failed")

End(j) ==
  /\ todo[j] = {}
  /\ Goes(j, "pick", "idle")
  /\ entry' = [entry EXCEPT ![j] = NoSession]
  /\ verdict' = [verdict EXCEPT ![j] = "none"]
  /\ UNCHANGED <<linked, files, holder, old, ownerVars, todo, names, deaths>>

\* The scanning process is killed.
ScannerDies(j) ==
  /\ scan[j] # "idle" /\ deaths < MaxDeaths
  /\ deaths' = deaths + 1
  /\ scan' = [scan EXCEPT ![j] = "idle"]
  /\ todo' = [todo EXCEPT ![j] = {}]
  /\ names' = [names EXCEPT ![j] = {}]
  /\ entry' = [entry EXCEPT ![j] = NoSession]
  /\ verdict' = [verdict EXCEPT ![j] = "none"]
  /\ holder' = [s \in Sessions |-> IF holder[s] = j THEN NoOne ELSE holder[s]]
  /\ UNCHANGED <<linked, files, old, ownerVars>>

-----------------------------------------------------------------------------
OwnerStep(s) ==
  \/ MakeDirectory(s) \/ CreateLockFile(s) \/ TakeLock(s)
  \/ WriteTemporary(s) \/ ReplaceMarker(s) \/ WriteMaterial(s)
  \/ CreateFails(s) \/ Close(s)
  \/ \E f \in Files : OwnerUnlinks(s, f)
  \/ OwnerRemovesDirectory(s)

ScanStep(j) ==
  \/ Begin(j) \/ End(j)
  \/ \E s \in Sessions : OpenDirectory(j, s)
  \/ OpenLockFile(j) \/ ReadMarker(j) \/ ListTree(j) \/ StatTree(j)
  \/ FindInvalid(j) \/ FindActive(j) \/ TryLock(j)
  \/ FindRecentOrStale(j) \/ Condemn(j) \/ Relist(j)
  \/ \E f \in Files : ScannerUnlinks(j, f)
  \/ RemoveDirectory(j) \/ DeletionFails(j)

Next ==
  \/ \E s \in Sessions : OwnerStep(s) \/ OwnerDies(s) \/ GrowOld(s)
  \/ \E j \in Scanners : ScanStep(j) \/ ScannerDies(j)

Spec == Init /\ [][Next]_vars

\* Time passes, and kantrip is run again and again: a scan that can go on
\* does, and a cleaner's turn at the root lock comes.
FairSpec ==
  /\ Spec
  /\ \A s \in Sessions : WF_vars(GrowOld(s))
  /\ \A j \in Cleaners : SF_vars(Begin(j)) /\ WF_vars(ScanStep(j))
  /\ \A j \in Doctors : WF_vars(scan[j] # "idle" /\ ScanStep(j))

-----------------------------------------------------------------------------
(* Properties *)

\* Every variable has its type.
TypeOK ==
  /\ linked \subseteq Sessions /\ old \subseteq Sessions
  /\ files \in [Sessions -> SUBSET Files]
  /\ holder \in [Sessions -> Scanners \cup {Owner, NoOne}]
  /\ owner \in [Sessions -> OwnerPlaces]
  /\ listed \in [Sessions -> SUBSET Files]
  /\ scan \in [Scanners -> ScanPlaces]
  /\ todo \in [Scanners -> SUBSET Sessions]
  /\ entry \in [Scanners -> Sessions \cup {NoSession}]
  /\ names \in [Scanners -> SUBSET Files]
  /\ verdict \in [Scanners -> Verdicts]
  /\ deaths \in 0..MaxDeaths

\* The owner's non-blocking flock never meets a scan that is trying the
\* lock: a scan asks for it only after it has read a marker, and the marker
\* is written under the lock.
StartNeverContended ==
  \A s \in Sessions : owner[s] = "locking" => holder[s] = NoOne

\* What the owner listed for deletion is still there when it deletes it, so
\* closing a session never fails because of a scan.
CloseNeverDisturbed ==
  \A s \in Sessions : owner[s] = "deleting" => listed[s] = files[s] /\ s \in linked

\* A session is called active only while its owner lives, or while another
\* doctor, which takes the same lock to find out, is looking at it.
LookedAt(s, j) == \E d \in Doctors \ {j} : entry[d] = s /\ scan[d] = "judge"
ActiveIsAlive ==
  [][\A j \in Scanners :
       (verdict[j] # "active" /\ verdict'[j] = "active")
         => owner[entry[j]] # "gone" \/ LookedAt(entry[j], j)]_vars

\* The scans and owners implement the contract of SessionStore: whatever is
\* deleted, by whom and after which checks, belongs to nobody any more, and a
\* directory is removed only when it is empty.
Lasting == Files \ {"temporary"}
LifeOf(s) ==
  CASE owner[s] = "idle"     -> "new"
    [] owner[s] = "deleting" -> "closing"
    [] owner[s] = "gone"     -> IF s \in linked THEN "left" ELSE "gone"
    [] OTHER                 -> "held"
Contract == INSTANCE SessionStore WITH
  Files <- Lasting,
  life  <- [s \in Sessions |-> LifeOf(s)],
  kept  <- [s \in Sessions |-> files[s] \cap Lasting]
ImplementsSessionStore == Contract!Spec

Abandoned(s) == owner[s] = "gone" /\ s \in linked
Intact(s) == {"lock", "marker"} \subseteq files[s]

\* A crashed session that still has its lock file and its marker is removed
\* by a later scan, whatever else the scans find.
IntactIsRemoved == \A s \in Sessions : (Abandoned(s) /\ Intact(s)) ~> s \notin linked

\* "Session files left by a crash are cleaned up on a later run": the material
\* written for the child does not outlive a crash for ever.
CrashIsCleanedUp ==
  \A s \in Sessions :
    (owner[s] = "gone" /\ "material" \in files[s]) ~> "material" \notin files[s]
=============================================================================
