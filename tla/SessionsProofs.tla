---------------------------- MODULE SessionsProofs ----------------------------
(***************************************************************************)
(* Proofs about Sessions: for any number of sessions, cleaners, doctors,   *)
(* limits and deaths, no scan disturbs an owner, and together they do what *)
(* SessionStore allows.                                                    *)
(***************************************************************************)
EXTENDS Sessions, TLAPS

Preparing == {"idle"} \cup Creating
Locking   == {"marking", "replacing"} \cup Owned
Passing   == {"list", "stat", "try"}
Deciding  == {"judge", "relist", "unlink"}

\* What a directory holds in the life of its owner: a marker is only written
\* under the lock, which the owner keeps until the directory is deleted or it
\* dies; a creation that failed has left no marker.
OwnerInv(s) ==
  /\ owner[s] = "idle" => s \notin linked
  /\ owner[s] \in {"idle", "made"} \/ s \notin linked => files[s] = {}
  /\ owner[s] \notin {"idle", "gone"} => s \in linked
  /\ "marker" \in files[s] => owner[s] \notin Preparing
  /\ owner[s] \in Locking => holder[s] = Owner
  /\ holder[s] = Owner => owner[s] \in Locking \cup {"deleting"}
  /\ owner[s] = "deleting" =>
       listed[s] = files[s] /\ (holder[s] = Owner \/ "marker" \notin files[s])

\* A scan gets past the marker only when there was one, and past the lock only
\* when its owner was gone: then it holds the lock.
ScanInv(j) ==
  /\ scan[j] \notin {"idle", "pick"} => entry[j] \in Sessions
  /\ scan[j] \in Passing =>
       /\ owner[entry[j]] \notin Preparing
       /\ owner[entry[j]] = "deleting" => holder[entry[j]] = Owner
  /\ scan[j] \in Deciding => owner[entry[j]] = "gone" /\ holder[entry[j]] = j
  /\ \A s \in Sessions : holder[s] = j => entry[j] = s /\ scan[j] \in Deciding
  /\ scan[j] \in {"relist", "unlink"} => j \in Cleaners

\* The root lock: a scan that deletes is alone.
RootInv ==
  \A k \in Cleaners : scan[k] # "idle" => \A j \in Scanners \ {k} : scan[j] = "idle"

SessionsInv ==
  /\ TypeOK /\ RootInv
  /\ \A s \in Sessions : OwnerInv(s)
  /\ \A j \in Scanners : ScanInv(j)

-----------------------------------------------------------------------------
(* The invariant is inductive *)

\* Every step keeps the types.
LEMMA TypeKept == SessionsInv /\ [Next]_vars => TypeOK'
<1> SUFFICES ASSUME SessionsInv, [Next]_vars PROVE TypeOK'
  OBVIOUS
<1> USE ScannersAssumption, LimitAssumption DEF SessionsInv, TypeOK, ScanInv, Scanners, Files, OwnerPlaces, ScanPlaces, Verdicts, Creating, Owned
<1>1. CASE UNCHANGED vars
  BY <1>1 DEF vars, ownerVars, scannerVars
<1>2. ASSUME NEW t \in Sessions, MakeDirectory(t) PROVE TypeOK'
  BY <1>2 DEF MakeDirectory, Moves, ownerVars, scannerVars
<1>3. ASSUME NEW t \in Sessions, CreateLockFile(t) PROVE TypeOK'
  BY <1>3 DEF CreateLockFile, Moves, Adds, ownerVars, scannerVars
<1>4. ASSUME NEW t \in Sessions, TakeLock(t) PROVE TypeOK'
  BY <1>4 DEF TakeLock, Moves, ownerVars, scannerVars
<1>5. ASSUME NEW t \in Sessions, WriteTemporary(t) PROVE TypeOK'
  BY <1>5 DEF WriteTemporary, Moves, Adds, ownerVars, scannerVars
<1>6. ASSUME NEW t \in Sessions, ReplaceMarker(t) PROVE TypeOK'
  BY <1>6 DEF ReplaceMarker, Moves, ownerVars, scannerVars
<1>7. ASSUME NEW t \in Sessions, WriteMaterial(t) PROVE TypeOK'
  BY <1>7 DEF WriteMaterial, Adds, ownerVars, scannerVars
<1>8. ASSUME NEW t \in Sessions, CreateFails(t) PROVE TypeOK'
  BY <1>8 DEF CreateFails, Moves, Releases, ownerVars, scannerVars
<1>9. ASSUME NEW t \in Sessions, Close(t) PROVE TypeOK'
  BY <1>9 DEF Close, Moves, ownerVars, scannerVars
<1>10. ASSUME NEW t \in Sessions, NEW f \in Files, OwnerUnlinks(t, f) PROVE TypeOK'
  BY <1>10 DEF OwnerUnlinks, ownerVars, scannerVars
<1>11. ASSUME NEW t \in Sessions, OwnerRemovesDirectory(t) PROVE TypeOK'
  BY <1>11 DEF OwnerRemovesDirectory, Moves, Releases, ownerVars, scannerVars
<1>12. ASSUME NEW t \in Sessions, OwnerDies(t) PROVE TypeOK'
  BY <1>12 DEF OwnerDies, Releases, ownerVars, scannerVars
<1>13. ASSUME NEW t \in Sessions, GrowOld(t) PROVE TypeOK'
  BY <1>13 DEF GrowOld, ownerVars, scannerVars
<1>14. ASSUME NEW k \in Scanners, Begin(k) PROVE TypeOK'
  BY <1>14 DEF Begin, Goes, ownerVars, scannerVars
<1>15. ASSUME NEW k \in Scanners, End(k) PROVE TypeOK'
  BY <1>15 DEF End, Goes, ownerVars, scannerVars
<1>16. ASSUME NEW k \in Scanners, NEW t \in Sessions, OpenDirectory(k, t) PROVE TypeOK'
  BY <1>16 DEF OpenDirectory, Goes, ownerVars, scannerVars
<1>17. ASSUME NEW k \in Scanners, OpenLockFile(k) PROVE TypeOK'
  BY <1>17 DEF OpenLockFile, Continues, Goes, ownerVars, scannerVars
<1>18. ASSUME NEW k \in Scanners, ReadMarker(k) PROVE TypeOK'
  BY <1>18 DEF ReadMarker, Continues, Goes, ownerVars, scannerVars
<1>19. ASSUME NEW k \in Scanners, ListTree(k) PROVE TypeOK'
  BY <1>19 DEF ListTree, Continues, Goes, Lists, ownerVars, scannerVars
<1>20. ASSUME NEW k \in Scanners, StatTree(k) PROVE TypeOK'
  BY <1>20 DEF StatTree, Continues, Goes, ownerVars, scannerVars
<1>21. ASSUME NEW k \in Scanners, FindInvalid(k) PROVE TypeOK'
  BY <1>21 DEF FindInvalid, Missing, InvalidOrVanished, Says, Releases, ownerVars, scannerVars
<1>22. ASSUME NEW k \in Scanners, FindActive(k) PROVE TypeOK'
  BY <1>22 DEF FindActive, Says, Releases, ownerVars, scannerVars
<1>23. ASSUME NEW k \in Scanners, TryLock(k) PROVE TypeOK'
  BY <1>23 DEF TryLock, Goes, ownerVars, scannerVars
<1>24. ASSUME NEW k \in Scanners, FindRecentOrStale(k) PROVE TypeOK'
  BY <1>24 DEF FindRecentOrStale, Says, Releases, ownerVars, scannerVars
<1>25. ASSUME NEW k \in Scanners, Condemn(k) PROVE TypeOK'
  BY <1>25 DEF Condemn, Continues, Goes, ownerVars, scannerVars
<1>26. ASSUME NEW k \in Scanners, Relist(k) PROVE TypeOK'
  BY <1>26 DEF Relist, Continues, Goes, Lists, ownerVars, scannerVars
<1>27. ASSUME NEW k \in Scanners, NEW f \in Files, ScannerUnlinks(k, f) PROVE TypeOK'
  BY <1>27 DEF ScannerUnlinks, Lists, ownerVars, scannerVars
<1>28. ASSUME NEW k \in Scanners, RemoveDirectory(k) PROVE TypeOK'
  BY <1>28 DEF RemoveDirectory, Releases, ownerVars, scannerVars
<1>29. ASSUME NEW k \in Scanners, DeletionFails(k) PROVE TypeOK'
  BY <1>29 DEF DeletionFails, Says, Releases, ownerVars, scannerVars
<1>30. ASSUME NEW k \in Scanners, ScannerDies(k) PROVE TypeOK'
  BY <1>30 DEF ScannerDies, ownerVars, scannerVars
<1> QED
  BY <1>1, <1>2, <1>3, <1>4, <1>5, <1>6, <1>7, <1>8, <1>9, <1>10, <1>11, <1>12, <1>13, <1>14,
     <1>15, <1>16, <1>17, <1>18, <1>19, <1>20, <1>21, <1>22, <1>23, <1>24, <1>25, <1>26,
     <1>27, <1>28, <1>29, <1>30 DEF Next, OwnerStep, ScanStep

\* No step lets a second scan in while one deletes.
LEMMA RootKept == SessionsInv /\ [Next]_vars => RootInv'
<1> SUFFICES ASSUME SessionsInv, [Next]_vars PROVE RootInv'
  OBVIOUS
<1> USE ScannersAssumption, LimitAssumption DEF SessionsInv, TypeOK, RootInv, RootAvailable, Scanners
<1>1. CASE UNCHANGED vars
  BY <1>1 DEF vars, ownerVars, scannerVars
<1>2. ASSUME NEW t \in Sessions, MakeDirectory(t) PROVE RootInv'
  BY <1>2 DEF MakeDirectory, Moves, ownerVars, scannerVars
<1>3. ASSUME NEW t \in Sessions, CreateLockFile(t) PROVE RootInv'
  BY <1>3 DEF CreateLockFile, Moves, Adds, ownerVars, scannerVars
<1>4. ASSUME NEW t \in Sessions, TakeLock(t) PROVE RootInv'
  BY <1>4 DEF TakeLock, Moves, ownerVars, scannerVars
<1>5. ASSUME NEW t \in Sessions, WriteTemporary(t) PROVE RootInv'
  BY <1>5 DEF WriteTemporary, Moves, Adds, ownerVars, scannerVars
<1>6. ASSUME NEW t \in Sessions, ReplaceMarker(t) PROVE RootInv'
  BY <1>6 DEF ReplaceMarker, Moves, ownerVars, scannerVars
<1>7. ASSUME NEW t \in Sessions, WriteMaterial(t) PROVE RootInv'
  BY <1>7 DEF WriteMaterial, Adds, ownerVars, scannerVars
<1>8. ASSUME NEW t \in Sessions, CreateFails(t) PROVE RootInv'
  BY <1>8 DEF CreateFails, Moves, Releases, ownerVars, scannerVars
<1>9. ASSUME NEW t \in Sessions, Close(t) PROVE RootInv'
  BY <1>9 DEF Close, Moves, ownerVars, scannerVars
<1>10. ASSUME NEW t \in Sessions, NEW f \in Files, OwnerUnlinks(t, f) PROVE RootInv'
  BY <1>10 DEF OwnerUnlinks, ownerVars, scannerVars
<1>11. ASSUME NEW t \in Sessions, OwnerRemovesDirectory(t) PROVE RootInv'
  BY <1>11 DEF OwnerRemovesDirectory, Moves, Releases, ownerVars, scannerVars
<1>12. ASSUME NEW t \in Sessions, OwnerDies(t) PROVE RootInv'
  BY <1>12 DEF OwnerDies, Releases, ownerVars, scannerVars
<1>13. ASSUME NEW t \in Sessions, GrowOld(t) PROVE RootInv'
  BY <1>13 DEF GrowOld, ownerVars, scannerVars
<1>14. ASSUME NEW k \in Scanners, Begin(k) PROVE RootInv'
  BY <1>14 DEF Begin, Goes, ownerVars, scannerVars
<1>15. ASSUME NEW k \in Scanners, End(k) PROVE RootInv'
  BY <1>15 DEF End, Goes, ownerVars, scannerVars
<1>16. ASSUME NEW k \in Scanners, NEW t \in Sessions, OpenDirectory(k, t) PROVE RootInv'
  BY <1>16 DEF OpenDirectory, Goes, ownerVars, scannerVars
<1>17. ASSUME NEW k \in Scanners, OpenLockFile(k) PROVE RootInv'
  BY <1>17 DEF OpenLockFile, Continues, Goes, ownerVars, scannerVars
<1>18. ASSUME NEW k \in Scanners, ReadMarker(k) PROVE RootInv'
  BY <1>18 DEF ReadMarker, Continues, Goes, ownerVars, scannerVars
<1>19. ASSUME NEW k \in Scanners, ListTree(k) PROVE RootInv'
  BY <1>19 DEF ListTree, Continues, Goes, Lists, ownerVars, scannerVars
<1>20. ASSUME NEW k \in Scanners, StatTree(k) PROVE RootInv'
  BY <1>20 DEF StatTree, Continues, Goes, ownerVars, scannerVars
<1>21. ASSUME NEW k \in Scanners, FindInvalid(k) PROVE RootInv'
  BY <1>21 DEF FindInvalid, Missing, InvalidOrVanished, Says, Releases, ownerVars, scannerVars
<1>22. ASSUME NEW k \in Scanners, FindActive(k) PROVE RootInv'
  BY <1>22 DEF FindActive, Says, Releases, ownerVars, scannerVars
<1>23. ASSUME NEW k \in Scanners, TryLock(k) PROVE RootInv'
  BY <1>23 DEF TryLock, Goes, ownerVars, scannerVars
<1>24. ASSUME NEW k \in Scanners, FindRecentOrStale(k) PROVE RootInv'
  BY <1>24 DEF FindRecentOrStale, Says, Releases, ownerVars, scannerVars
<1>25. ASSUME NEW k \in Scanners, Condemn(k) PROVE RootInv'
  BY <1>25 DEF Condemn, Continues, Goes, ownerVars, scannerVars
<1>26. ASSUME NEW k \in Scanners, Relist(k) PROVE RootInv'
  BY <1>26 DEF Relist, Continues, Goes, Lists, ownerVars, scannerVars
<1>27. ASSUME NEW k \in Scanners, NEW f \in Files, ScannerUnlinks(k, f) PROVE RootInv'
  BY <1>27 DEF ScannerUnlinks, Lists, ownerVars, scannerVars
<1>28. ASSUME NEW k \in Scanners, RemoveDirectory(k) PROVE RootInv'
  BY <1>28 DEF RemoveDirectory, Releases, ownerVars, scannerVars
<1>29. ASSUME NEW k \in Scanners, DeletionFails(k) PROVE RootInv'
  BY <1>29 DEF DeletionFails, Says, Releases, ownerVars, scannerVars
<1>30. ASSUME NEW k \in Scanners, ScannerDies(k) PROVE RootInv'
  BY <1>30 DEF ScannerDies, ownerVars, scannerVars
<1> QED
  BY <1>1, <1>2, <1>3, <1>4, <1>5, <1>6, <1>7, <1>8, <1>9, <1>10, <1>11, <1>12, <1>13, <1>14,
     <1>15, <1>16, <1>17, <1>18, <1>19, <1>20, <1>21, <1>22, <1>23, <1>24, <1>25, <1>26,
     <1>27, <1>28, <1>29, <1>30 DEF Next, OwnerStep, ScanStep

\* No step touches what an owner holds, but its own.
LEMMA OwnersKept == SessionsInv /\ [Next]_vars => \A s \in Sessions : OwnerInv(s)'
<1> SUFFICES ASSUME SessionsInv, [Next]_vars, NEW s \in Sessions PROVE OwnerInv(s)'
  OBVIOUS
<1> USE ScannersAssumption, LimitAssumption DEF SessionsInv, TypeOK, OwnerInv, ScanInv, Preparing, Locking, Passing, Deciding, Creating, Owned, Scanners
<1>1. CASE UNCHANGED vars
  BY <1>1 DEF vars, ownerVars, scannerVars
<1>2. ASSUME NEW t \in Sessions, MakeDirectory(t) PROVE OwnerInv(s)'
  BY <1>2 DEF MakeDirectory, Moves, ownerVars, scannerVars
<1>3. ASSUME NEW t \in Sessions, CreateLockFile(t) PROVE OwnerInv(s)'
  BY <1>3 DEF CreateLockFile, Moves, Adds, ownerVars, scannerVars
<1>4. ASSUME NEW t \in Sessions, TakeLock(t) PROVE OwnerInv(s)'
  BY <1>4 DEF TakeLock, Moves, ownerVars, scannerVars
<1>5. ASSUME NEW t \in Sessions, WriteTemporary(t) PROVE OwnerInv(s)'
  BY <1>5 DEF WriteTemporary, Moves, Adds, ownerVars, scannerVars
<1>6. ASSUME NEW t \in Sessions, ReplaceMarker(t) PROVE OwnerInv(s)'
  BY <1>6 DEF ReplaceMarker, Moves, ownerVars, scannerVars
<1>7. ASSUME NEW t \in Sessions, WriteMaterial(t) PROVE OwnerInv(s)'
  BY <1>7 DEF WriteMaterial, Adds, ownerVars, scannerVars
<1>8. ASSUME NEW t \in Sessions, CreateFails(t) PROVE OwnerInv(s)'
  BY <1>8 DEF CreateFails, Moves, Releases, ownerVars, scannerVars
<1>9. ASSUME NEW t \in Sessions, Close(t) PROVE OwnerInv(s)'
  BY <1>9 DEF Close, Moves, ownerVars, scannerVars
<1>10. ASSUME NEW t \in Sessions, NEW f \in Files, OwnerUnlinks(t, f) PROVE OwnerInv(s)'
  <2>1. CASE s = t
    <3>1. /\ files'[t] = files[t] \ {f} /\ listed'[t] = listed[t] \ {f}
          /\ owner[t] = "deleting" /\ UNCHANGED <<linked, holder, owner>>
      BY <1>10 DEF OwnerUnlinks, ownerVars, scannerVars
    <3> QED
      BY <2>1, <3>1
  <2>2. CASE s # t
    BY <2>2, <1>10 DEF OwnerUnlinks, ownerVars, scannerVars
  <2> QED
    BY <2>1, <2>2
<1>11. ASSUME NEW t \in Sessions, OwnerRemovesDirectory(t) PROVE OwnerInv(s)'
  BY <1>11 DEF OwnerRemovesDirectory, Moves, Releases, ownerVars, scannerVars
<1>12. ASSUME NEW t \in Sessions, OwnerDies(t) PROVE OwnerInv(s)'
  BY <1>12 DEF OwnerDies, Releases, ownerVars, scannerVars
<1>13. ASSUME NEW t \in Sessions, GrowOld(t) PROVE OwnerInv(s)'
  BY <1>13 DEF GrowOld, ownerVars, scannerVars
<1>14. ASSUME NEW k \in Scanners, Begin(k) PROVE OwnerInv(s)'
  BY <1>14 DEF Begin, Goes, ownerVars, scannerVars
<1>15. ASSUME NEW k \in Scanners, End(k) PROVE OwnerInv(s)'
  BY <1>15 DEF End, Goes, ownerVars, scannerVars
<1>16. ASSUME NEW k \in Scanners, NEW t \in Sessions, OpenDirectory(k, t) PROVE OwnerInv(s)'
  BY <1>16 DEF OpenDirectory, Goes, ownerVars, scannerVars
<1>17. ASSUME NEW k \in Scanners, OpenLockFile(k) PROVE OwnerInv(s)'
  BY <1>17 DEF OpenLockFile, Continues, Goes, ownerVars, scannerVars
<1>18. ASSUME NEW k \in Scanners, ReadMarker(k) PROVE OwnerInv(s)'
  BY <1>18 DEF ReadMarker, Continues, Goes, ownerVars, scannerVars
<1>19. ASSUME NEW k \in Scanners, ListTree(k) PROVE OwnerInv(s)'
  BY <1>19 DEF ListTree, Continues, Goes, Lists, ownerVars, scannerVars
<1>20. ASSUME NEW k \in Scanners, StatTree(k) PROVE OwnerInv(s)'
  BY <1>20 DEF StatTree, Continues, Goes, ownerVars, scannerVars
<1>21. ASSUME NEW k \in Scanners, FindInvalid(k) PROVE OwnerInv(s)'
  BY <1>21 DEF FindInvalid, Missing, InvalidOrVanished, Says, Releases, ownerVars, scannerVars
<1>22. ASSUME NEW k \in Scanners, FindActive(k) PROVE OwnerInv(s)'
  BY <1>22 DEF FindActive, Says, Releases, ownerVars, scannerVars
<1>23. ASSUME NEW k \in Scanners, TryLock(k) PROVE OwnerInv(s)'
  BY <1>23 DEF TryLock, Goes, ownerVars, scannerVars
<1>24. ASSUME NEW k \in Scanners, FindRecentOrStale(k) PROVE OwnerInv(s)'
  BY <1>24 DEF FindRecentOrStale, Says, Releases, ownerVars, scannerVars
<1>25. ASSUME NEW k \in Scanners, Condemn(k) PROVE OwnerInv(s)'
  BY <1>25 DEF Condemn, Continues, Goes, ownerVars, scannerVars
<1>26. ASSUME NEW k \in Scanners, Relist(k) PROVE OwnerInv(s)'
  BY <1>26 DEF Relist, Continues, Goes, Lists, ownerVars, scannerVars
<1>27. ASSUME NEW k \in Scanners, NEW f \in Files, ScannerUnlinks(k, f) PROVE OwnerInv(s)'
  BY <1>27 DEF ScannerUnlinks, Lists, ownerVars, scannerVars
<1>28. ASSUME NEW k \in Scanners, RemoveDirectory(k) PROVE OwnerInv(s)'
  BY <1>28 DEF RemoveDirectory, Releases, ownerVars, scannerVars
<1>29. ASSUME NEW k \in Scanners, DeletionFails(k) PROVE OwnerInv(s)'
  BY <1>29 DEF DeletionFails, Says, Releases, ownerVars, scannerVars
<1>30. ASSUME NEW k \in Scanners, ScannerDies(k) PROVE OwnerInv(s)'
  BY <1>30 DEF ScannerDies, ownerVars, scannerVars
<1> QED
  BY <1>1, <1>2, <1>3, <1>4, <1>5, <1>6, <1>7, <1>8, <1>9, <1>10, <1>11, <1>12, <1>13, <1>14,
     <1>15, <1>16, <1>17, <1>18, <1>19, <1>20, <1>21, <1>22, <1>23, <1>24, <1>25, <1>26,
     <1>27, <1>28, <1>29, <1>30 DEF Next, OwnerStep, ScanStep

\* No owner gets back what a scan found gone.
LEMMA ScansKept == SessionsInv /\ [Next]_vars => \A j \in Scanners : ScanInv(j)'
<1> SUFFICES ASSUME SessionsInv, [Next]_vars, NEW j \in Scanners PROVE ScanInv(j)'
  OBVIOUS
<1> USE ScannersAssumption, LimitAssumption DEF SessionsInv, TypeOK, OwnerInv, ScanInv, Preparing, Locking, Passing, Deciding, Creating, Owned, Scanners
<1>1. CASE UNCHANGED vars
  BY <1>1 DEF vars, ownerVars, scannerVars
<1>2. ASSUME NEW t \in Sessions, MakeDirectory(t) PROVE ScanInv(j)'
  BY <1>2 DEF MakeDirectory, Moves, ownerVars, scannerVars
<1>3. ASSUME NEW t \in Sessions, CreateLockFile(t) PROVE ScanInv(j)'
  BY <1>3 DEF CreateLockFile, Moves, Adds, ownerVars, scannerVars
<1>4. ASSUME NEW t \in Sessions, TakeLock(t) PROVE ScanInv(j)'
  BY <1>4 DEF TakeLock, Moves, ownerVars, scannerVars
<1>5. ASSUME NEW t \in Sessions, WriteTemporary(t) PROVE ScanInv(j)'
  BY <1>5 DEF WriteTemporary, Moves, Adds, ownerVars, scannerVars
<1>6. ASSUME NEW t \in Sessions, ReplaceMarker(t) PROVE ScanInv(j)'
  BY <1>6 DEF ReplaceMarker, Moves, ownerVars, scannerVars
<1>7. ASSUME NEW t \in Sessions, WriteMaterial(t) PROVE ScanInv(j)'
  BY <1>7 DEF WriteMaterial, Adds, ownerVars, scannerVars
<1>8. ASSUME NEW t \in Sessions, CreateFails(t) PROVE ScanInv(j)'
  BY <1>8 DEF CreateFails, Moves, Releases, ownerVars, scannerVars
<1>9. ASSUME NEW t \in Sessions, Close(t) PROVE ScanInv(j)'
  BY <1>9 DEF Close, Moves, ownerVars, scannerVars
<1>10. ASSUME NEW t \in Sessions, NEW f \in Files, OwnerUnlinks(t, f) PROVE ScanInv(j)'
  BY <1>10 DEF OwnerUnlinks, ownerVars, scannerVars
<1>11. ASSUME NEW t \in Sessions, OwnerRemovesDirectory(t) PROVE ScanInv(j)'
  BY <1>11 DEF OwnerRemovesDirectory, Moves, Releases, ownerVars, scannerVars
<1>12. ASSUME NEW t \in Sessions, OwnerDies(t) PROVE ScanInv(j)'
  BY <1>12 DEF OwnerDies, Releases, ownerVars, scannerVars
<1>13. ASSUME NEW t \in Sessions, GrowOld(t) PROVE ScanInv(j)'
  BY <1>13 DEF GrowOld, ownerVars, scannerVars
<1>14. ASSUME NEW k \in Scanners, Begin(k) PROVE ScanInv(j)'
  BY <1>14 DEF Begin, Goes, ownerVars, scannerVars
<1>15. ASSUME NEW k \in Scanners, End(k) PROVE ScanInv(j)'
  BY <1>15 DEF End, Goes, ownerVars, scannerVars
<1>16. ASSUME NEW k \in Scanners, NEW t \in Sessions, OpenDirectory(k, t) PROVE ScanInv(j)'
  BY <1>16 DEF OpenDirectory, Goes, ownerVars, scannerVars
<1>17. ASSUME NEW k \in Scanners, OpenLockFile(k) PROVE ScanInv(j)'
  BY <1>17 DEF OpenLockFile, Continues, Goes, ownerVars, scannerVars
<1>18. ASSUME NEW k \in Scanners, ReadMarker(k) PROVE ScanInv(j)'
  BY <1>18 DEF ReadMarker, Continues, Goes, ownerVars, scannerVars
<1>19. ASSUME NEW k \in Scanners, ListTree(k) PROVE ScanInv(j)'
  BY <1>19 DEF ListTree, Continues, Goes, Lists, ownerVars, scannerVars
<1>20. ASSUME NEW k \in Scanners, StatTree(k) PROVE ScanInv(j)'
  BY <1>20 DEF StatTree, Continues, Goes, ownerVars, scannerVars
<1>21. ASSUME NEW k \in Scanners, FindInvalid(k) PROVE ScanInv(j)'
  BY <1>21 DEF FindInvalid, Missing, InvalidOrVanished, Says, Releases, ownerVars, scannerVars
<1>22. ASSUME NEW k \in Scanners, FindActive(k) PROVE ScanInv(j)'
  BY <1>22 DEF FindActive, Says, Releases, ownerVars, scannerVars
<1>23. ASSUME NEW k \in Scanners, TryLock(k) PROVE ScanInv(j)'
  <2>1. scan[k] = "try" /\ entry[k] \in Sessions /\ holder[entry[k]] = NoOne
    BY <1>23 DEF TryLock, Goes, ownerVars, scannerVars
  <2>2. owner[entry[k]] = "gone"
    BY <2>1 DEF OwnerPlaces
  <2>3. /\ scan' = [scan EXCEPT ![k] = "judge"] /\ holder' = [holder EXCEPT ![entry[k]] = k]
        /\ UNCHANGED <<entry, owner>>
    BY <1>23 DEF TryLock, Goes, ownerVars, scannerVars
  <2>4. CASE j = k
    BY <2>1, <2>2, <2>3, <2>4
  <2>5. CASE j # k
    <3>1. scan'[j] = scan[j] /\ entry'[j] = entry[j]
      BY <2>3, <2>5
    <3>2. \A s \in Sessions : holder'[s] = j => holder[s] = j
      BY <2>3, <2>5
    <3>3. scan[j] \in Passing \cup Deciding => holder'[entry[j]] = holder[entry[j]] \/ owner[entry[j]] = "gone"
      BY <2>1, <2>2, <2>3
    <3>4. scan[j] \in Deciding => holder'[entry[j]] = j
      BY <2>1, <2>3
    <3> QED
      BY <2>3, <3>1, <3>2, <3>3, <3>4
  <2> QED
    BY <2>4, <2>5
<1>24. ASSUME NEW k \in Scanners, FindRecentOrStale(k) PROVE ScanInv(j)'
  BY <1>24 DEF FindRecentOrStale, Says, Releases, ownerVars, scannerVars
<1>25. ASSUME NEW k \in Scanners, Condemn(k) PROVE ScanInv(j)'
  BY <1>25 DEF Condemn, Continues, Goes, ownerVars, scannerVars
<1>26. ASSUME NEW k \in Scanners, Relist(k) PROVE ScanInv(j)'
  BY <1>26 DEF Relist, Continues, Goes, Lists, ownerVars, scannerVars
<1>27. ASSUME NEW k \in Scanners, NEW f \in Files, ScannerUnlinks(k, f) PROVE ScanInv(j)'
  BY <1>27 DEF ScannerUnlinks, Lists, ownerVars, scannerVars
<1>28. ASSUME NEW k \in Scanners, RemoveDirectory(k) PROVE ScanInv(j)'
  BY <1>28 DEF RemoveDirectory, Releases, ownerVars, scannerVars
<1>29. ASSUME NEW k \in Scanners, DeletionFails(k) PROVE ScanInv(j)'
  BY <1>29 DEF DeletionFails, Says, Releases, ownerVars, scannerVars
<1>30. ASSUME NEW k \in Scanners, ScannerDies(k) PROVE ScanInv(j)'
  BY <1>30 DEF ScannerDies, ownerVars, scannerVars
<1> QED
  BY <1>1, <1>2, <1>3, <1>4, <1>5, <1>6, <1>7, <1>8, <1>9, <1>10, <1>11, <1>12, <1>13, <1>14,
     <1>15, <1>16, <1>17, <1>18, <1>19, <1>20, <1>21, <1>22, <1>23, <1>24, <1>25, <1>26,
     <1>27, <1>28, <1>29, <1>30 DEF Next, OwnerStep, ScanStep

-----------------------------------------------------------------------------
(* What a scan says *)

ActiveStepOK ==
  \A j \in Scanners :
    (verdict[j] # "active" /\ verdict'[j] = "active") =>
      owner[entry[j]] # "gone" \/ LookedAt(entry[j], j)

\* Only another doctor makes a session look active that is not.
LEMMA ActiveStep == SessionsInv /\ [Next]_vars => ActiveStepOK
<1> SUFFICES ASSUME SessionsInv, [Next]_vars, NEW j \in Scanners,
                    verdict[j] # "active", verdict'[j] = "active" PROVE owner[entry[j]] # "gone" \/ LookedAt(entry[j], j)
  BY DEF ActiveStepOK
<1> USE ScannersAssumption, LimitAssumption DEF SessionsInv, TypeOK, Scanners, ActiveStepOK
<1>1. CASE UNCHANGED vars
  BY <1>1 DEF vars, ownerVars, scannerVars
<1>2. ASSUME NEW t \in Sessions, MakeDirectory(t)
      PROVE  owner[entry[j]] # "gone" \/ LookedAt(entry[j], j)
  BY <1>2 DEF MakeDirectory, Moves, ownerVars, scannerVars
<1>3. ASSUME NEW t \in Sessions, CreateLockFile(t)
      PROVE  owner[entry[j]] # "gone" \/ LookedAt(entry[j], j)
  BY <1>3 DEF CreateLockFile, Moves, Adds, ownerVars, scannerVars
<1>4. ASSUME NEW t \in Sessions, TakeLock(t)
      PROVE  owner[entry[j]] # "gone" \/ LookedAt(entry[j], j)
  BY <1>4 DEF TakeLock, Moves, ownerVars, scannerVars
<1>5. ASSUME NEW t \in Sessions, WriteTemporary(t)
      PROVE  owner[entry[j]] # "gone" \/ LookedAt(entry[j], j)
  BY <1>5 DEF WriteTemporary, Moves, Adds, ownerVars, scannerVars
<1>6. ASSUME NEW t \in Sessions, ReplaceMarker(t)
      PROVE  owner[entry[j]] # "gone" \/ LookedAt(entry[j], j)
  BY <1>6 DEF ReplaceMarker, Moves, ownerVars, scannerVars
<1>7. ASSUME NEW t \in Sessions, WriteMaterial(t)
      PROVE  owner[entry[j]] # "gone" \/ LookedAt(entry[j], j)
  BY <1>7 DEF WriteMaterial, Adds, ownerVars, scannerVars
<1>8. ASSUME NEW t \in Sessions, CreateFails(t)
      PROVE  owner[entry[j]] # "gone" \/ LookedAt(entry[j], j)
  BY <1>8 DEF CreateFails, Moves, Releases, ownerVars, scannerVars
<1>9. ASSUME NEW t \in Sessions, Close(t)
      PROVE  owner[entry[j]] # "gone" \/ LookedAt(entry[j], j)
  BY <1>9 DEF Close, Moves, ownerVars, scannerVars
<1>10. ASSUME NEW t \in Sessions, NEW f \in Files, OwnerUnlinks(t, f)
      PROVE  owner[entry[j]] # "gone" \/ LookedAt(entry[j], j)
  BY <1>10 DEF OwnerUnlinks, ownerVars, scannerVars
<1>11. ASSUME NEW t \in Sessions, OwnerRemovesDirectory(t)
      PROVE  owner[entry[j]] # "gone" \/ LookedAt(entry[j], j)
  BY <1>11 DEF OwnerRemovesDirectory, Moves, Releases, ownerVars, scannerVars
<1>12. ASSUME NEW t \in Sessions, OwnerDies(t)
      PROVE  owner[entry[j]] # "gone" \/ LookedAt(entry[j], j)
  BY <1>12 DEF OwnerDies, Releases, ownerVars, scannerVars
<1>13. ASSUME NEW t \in Sessions, GrowOld(t)
      PROVE  owner[entry[j]] # "gone" \/ LookedAt(entry[j], j)
  BY <1>13 DEF GrowOld, ownerVars, scannerVars
<1>14. ASSUME NEW k \in Scanners, Begin(k)
      PROVE  owner[entry[j]] # "gone" \/ LookedAt(entry[j], j)
  BY <1>14 DEF Begin, Goes, ownerVars, scannerVars
<1>15. ASSUME NEW k \in Scanners, End(k)
      PROVE  owner[entry[j]] # "gone" \/ LookedAt(entry[j], j)
  BY <1>15 DEF End, Goes, ownerVars, scannerVars
<1>16. ASSUME NEW k \in Scanners, NEW t \in Sessions, OpenDirectory(k, t)
      PROVE  owner[entry[j]] # "gone" \/ LookedAt(entry[j], j)
  BY <1>16 DEF OpenDirectory, Goes, ownerVars, scannerVars
<1>17. ASSUME NEW k \in Scanners, OpenLockFile(k)
      PROVE  owner[entry[j]] # "gone" \/ LookedAt(entry[j], j)
  BY <1>17 DEF OpenLockFile, Continues, Goes, ownerVars, scannerVars
<1>18. ASSUME NEW k \in Scanners, ReadMarker(k)
      PROVE  owner[entry[j]] # "gone" \/ LookedAt(entry[j], j)
  BY <1>18 DEF ReadMarker, Continues, Goes, ownerVars, scannerVars
<1>19. ASSUME NEW k \in Scanners, ListTree(k)
      PROVE  owner[entry[j]] # "gone" \/ LookedAt(entry[j], j)
  BY <1>19 DEF ListTree, Continues, Goes, Lists, ownerVars, scannerVars
<1>20. ASSUME NEW k \in Scanners, StatTree(k)
      PROVE  owner[entry[j]] # "gone" \/ LookedAt(entry[j], j)
  BY <1>20 DEF StatTree, Continues, Goes, ownerVars, scannerVars
<1>21. ASSUME NEW k \in Scanners, FindInvalid(k)
      PROVE  owner[entry[j]] # "gone" \/ LookedAt(entry[j], j)
  BY <1>21 DEF FindInvalid, Missing, InvalidOrVanished, Says, Releases, ownerVars, scannerVars
<1>22. ASSUME NEW k \in Scanners, FindActive(k)
      PROVE  owner[entry[j]] # "gone" \/ LookedAt(entry[j], j)
  <2>1. k = j
    BY <1>22 DEF FindActive, Says, Releases, ownerVars, scannerVars
  <2>2. scan[j] = "try" /\ entry[j] \in Sessions /\ holder[entry[j]] # NoOne
    BY <2>1, <1>22 DEF FindActive, Says, Releases, ownerVars, scannerVars, ScanInv
  <2>3. CASE holder[entry[j]] = Owner
    BY <2>2, <2>3 DEF OwnerInv, Locking, Owned
  <2>4. CASE holder[entry[j]] # Owner
    <3>1. PICK m \in Scanners : holder[entry[j]] = m
      BY <2>2, <2>4
    <3>2. entry[m] = entry[j] /\ scan[m] \in Deciding /\ (scan[m] = "judge" \/ m \in Cleaners)
      BY <2>2, <3>1 DEF ScanInv, Deciding
    <3>3. m # j /\ scan[m] # "idle"
      BY <2>2, <3>2 DEF Deciding
    <3>4. m \in Doctors
      BY <2>2, <3>3 DEF RootInv
    <3> QED
      BY <3>2, <3>3, <3>4 DEF LookedAt
  <2> QED
    BY <2>3, <2>4
<1>23. ASSUME NEW k \in Scanners, TryLock(k)
      PROVE  owner[entry[j]] # "gone" \/ LookedAt(entry[j], j)
  BY <1>23 DEF TryLock, Goes, ownerVars, scannerVars
<1>24. ASSUME NEW k \in Scanners, FindRecentOrStale(k)
      PROVE  owner[entry[j]] # "gone" \/ LookedAt(entry[j], j)
  BY <1>24 DEF FindRecentOrStale, Says, Releases, ownerVars, scannerVars
<1>25. ASSUME NEW k \in Scanners, Condemn(k)
      PROVE  owner[entry[j]] # "gone" \/ LookedAt(entry[j], j)
  BY <1>25 DEF Condemn, Continues, Goes, ownerVars, scannerVars
<1>26. ASSUME NEW k \in Scanners, Relist(k)
      PROVE  owner[entry[j]] # "gone" \/ LookedAt(entry[j], j)
  BY <1>26 DEF Relist, Continues, Goes, Lists, ownerVars, scannerVars
<1>27. ASSUME NEW k \in Scanners, NEW f \in Files, ScannerUnlinks(k, f)
      PROVE  owner[entry[j]] # "gone" \/ LookedAt(entry[j], j)
  BY <1>27 DEF ScannerUnlinks, Lists, ownerVars, scannerVars
<1>28. ASSUME NEW k \in Scanners, RemoveDirectory(k)
      PROVE  owner[entry[j]] # "gone" \/ LookedAt(entry[j], j)
  BY <1>28 DEF RemoveDirectory, Releases, ownerVars, scannerVars
<1>29. ASSUME NEW k \in Scanners, DeletionFails(k)
      PROVE  owner[entry[j]] # "gone" \/ LookedAt(entry[j], j)
  BY <1>29 DEF DeletionFails, Says, Releases, ownerVars, scannerVars
<1>30. ASSUME NEW k \in Scanners, ScannerDies(k)
      PROVE  owner[entry[j]] # "gone" \/ LookedAt(entry[j], j)
  BY <1>30 DEF ScannerDies, ownerVars, scannerVars
<1> QED
  BY <1>1, <1>2, <1>3, <1>4, <1>5, <1>6, <1>7, <1>8, <1>9, <1>10, <1>11, <1>12, <1>13, <1>14,
     <1>15, <1>16, <1>17, <1>18, <1>19, <1>20, <1>21, <1>22, <1>23, <1>24, <1>25, <1>26,
     <1>27, <1>28, <1>29, <1>30 DEF Next, OwnerStep, ScanStep

-----------------------------------------------------------------------------
(* The contract *)

LastingOf(s) == files[s] \cap Lasting
Keeps(s) == LifeOf(s)' = LifeOf(s) /\ LastingOf(s)' = LastingOf(s)
Same == \A s \in Sessions : Keeps(s)
Turns(s, from, to) == LifeOf(s) \in from /\ LifeOf(s)' = to /\ LastingOf(s)' = LastingOf(s)

\* A step of SessionStore for the session t, or none.
OneStep(t) ==
  /\ \A s \in Sessions \ {t} : Keeps(s)
  /\ \/ Keeps(t)
     \/ Turns(t, {"new"}, "held") \/ Turns(t, {"held"}, "closing")
     \/ Turns(t, {"held", "closing"}, "left")
     \/ Turns(t, {"closing", "left"}, "gone") /\ LastingOf(t) = {}
     \/ \E f \in Lasting : LifeOf(t) = "held" /\ LifeOf(t)' = "held"
                             /\ LastingOf(t)' = LastingOf(t) \cup {f}
     \/ \E f \in Lasting : LifeOf(t) \in {"closing", "left"} /\ LifeOf(t)' = LifeOf(t)
                             /\ LastingOf(t)' = LastingOf(t) \ {f}

\* What the contract sees of a step.
Seen == (\E t \in Sessions : OneStep(t)) \/ UNCHANGED <<linked, files, owner>>

\* Nothing happens to any session.
LEMMA SameIsStutter == Same => UNCHANGED Contract!storeVars
BY DEF Same, Keeps, LastingOf, Contract!storeVars

\* What the contract sees of a session depends on three variables.
LEMMA QuietIsStutter == UNCHANGED <<linked, files, owner>> => UNCHANGED Contract!storeVars
BY DEF LifeOf, Contract!storeVars

\* A step for one session is one of the contract's.
LEMMA OneIsStep ==
  ASSUME NEW t \in Sessions, OneStep(t)
  PROVE  [Contract!Next]_(Contract!storeVars)
<1> DEFINE life == [s \in Sessions |-> LifeOf(s)]
           kept == [s \in Sessions |-> LastingOf(s)]
<1>1. ASSUME NEW from, NEW to, Turns(t, from, to)
      PROVE  Contract!Becomes(t, from, to) /\ kept' = kept
  BY <1>1 DEF OneStep, Turns, Keeps, Contract!Becomes
<1>2. CASE Keeps(t)
  <2>1. Same
    BY <1>2 DEF OneStep, Same
  <2> QED
    BY <2>1, SameIsStutter
<1>3. CASE Turns(t, {"new"}, "held")
  BY <1>1, <1>3 DEF LastingOf, Contract!Next, Contract!StoreStep, Contract!Make
<1>4. CASE Turns(t, {"held"}, "closing")
  BY <1>1, <1>4 DEF LastingOf, Contract!Next, Contract!StoreStep, Contract!Leave
<1>5. CASE Turns(t, {"held", "closing"}, "left")
  BY <1>1, <1>5 DEF LastingOf, Contract!Next, Contract!StoreStep, Contract!Abandon
<1>6. CASE Turns(t, {"closing", "left"}, "gone") /\ LastingOf(t) = {}
  BY <1>1, <1>6 DEF LastingOf, Contract!Next, Contract!StoreStep, Contract!Remove
<1>7. ASSUME NEW f \in Lasting, LifeOf(t) = "held", LifeOf(t)' = "held",
             LastingOf(t)' = LastingOf(t) \cup {f}
      PROVE  Contract!Write(t, f)
  BY <1>7 DEF OneStep, Keeps, LastingOf, Contract!Write
<1>8. ASSUME NEW f \in Lasting, LifeOf(t) \in {"closing", "left"}, LifeOf(t)' = LifeOf(t),
             LastingOf(t)' = LastingOf(t) \ {f}
      PROVE  Contract!Delete(t, f)
  BY <1>8 DEF OneStep, Keeps, LastingOf, Contract!Delete
<1> QED
  BY <1>2, <1>3, <1>4, <1>5, <1>6, <1>7, <1>8 DEF OneStep, Contract!Next, Contract!StoreStep


\* Every step is seen by the contract as one of one session, or not at all.
LEMMA StepSeen ==
  ASSUME SessionsInv, [Next]_vars
  PROVE  Seen
<1> USE ScannersAssumption DEF SessionsInv, TypeOK, OwnerInv, ScanInv, Lasting, LifeOf, LastingOf, Keeps, Turns, Files,
        Preparing, Locking, Passing, Deciding, Creating, Owned, OwnerPlaces
<1>1. ASSUME NEW t \in Sessions, MakeDirectory(t) PROVE OneStep(t)
  BY <1>1 DEF MakeDirectory, Moves, ownerVars, scannerVars, OneStep
<1>2. ASSUME NEW t \in Sessions, CreateLockFile(t) PROVE OneStep(t)
  <2>1. \A s \in Sessions \ {t} : Keeps(s)
    BY <1>2 DEF CreateLockFile, Moves, Adds, ownerVars, scannerVars, OneStep
  <2>2. LifeOf(t) = "held" /\ LifeOf(t)' = "held"
    BY <1>2 DEF CreateLockFile, Moves, Adds, ownerVars, scannerVars, OneStep
  <2>3. LastingOf(t)' = LastingOf(t) \cup {"lock"} /\ "lock" \in Lasting
    BY <1>2 DEF CreateLockFile, Moves, Adds, ownerVars, scannerVars, OneStep
  <2> QED
    BY <2>1, <2>2, <2>3 DEF OneStep
<1>3. ASSUME NEW t \in Sessions, TakeLock(t) PROVE OneStep(t)
  BY <1>3 DEF TakeLock, Moves, ownerVars, scannerVars, OneStep
<1>4. ASSUME NEW t \in Sessions, WriteTemporary(t) PROVE OneStep(t)
  BY <1>4 DEF WriteTemporary, Moves, Adds, ownerVars, scannerVars, OneStep
<1>5. ASSUME NEW t \in Sessions, ReplaceMarker(t) PROVE OneStep(t)
  <2>1. \A s \in Sessions \ {t} : Keeps(s)
    BY <1>5 DEF ReplaceMarker, Moves, ownerVars, scannerVars, OneStep
  <2>2. LifeOf(t) = "held" /\ LifeOf(t)' = "held"
    BY <1>5 DEF ReplaceMarker, Moves, ownerVars, scannerVars, OneStep
  <2>3. LastingOf(t)' = LastingOf(t) \cup {"marker"} /\ "marker" \in Lasting
    BY <1>5 DEF ReplaceMarker, Moves, ownerVars, scannerVars, OneStep
  <2> QED
    BY <2>1, <2>2, <2>3 DEF OneStep
<1>6. ASSUME NEW t \in Sessions, WriteMaterial(t) PROVE OneStep(t)
  <2>1. \A s \in Sessions \ {t} : Keeps(s)
    BY <1>6 DEF WriteMaterial, Adds, ownerVars, scannerVars, OneStep
  <2>2. LifeOf(t) = "held" /\ LifeOf(t)' = "held"
    BY <1>6 DEF WriteMaterial, Adds, ownerVars, scannerVars, OneStep
  <2>3. LastingOf(t)' = LastingOf(t) \cup {"material"} /\ "material" \in Lasting
    BY <1>6 DEF WriteMaterial, Adds, ownerVars, scannerVars, OneStep
  <2> QED
    BY <2>1, <2>2, <2>3 DEF OneStep
<1>7. ASSUME NEW t \in Sessions, CreateFails(t) PROVE OneStep(t)
  BY <1>7 DEF CreateFails, Moves, Releases, ownerVars, scannerVars, OneStep
<1>8. ASSUME NEW t \in Sessions, Close(t) PROVE OneStep(t)
  BY <1>8 DEF Close, Moves, ownerVars, scannerVars, OneStep
<1>9. ASSUME NEW t \in Sessions, NEW f \in Files, OwnerUnlinks(t, f) PROVE OneStep(t)
  <2>1. \A s \in Sessions \ {t} : Keeps(s)
    BY <1>9 DEF OwnerUnlinks, ownerVars, scannerVars, OneStep
  <2>2. LifeOf(t) \in {"closing", "left"} /\ LifeOf(t)' = LifeOf(t)
    BY <1>9 DEF OwnerUnlinks, ownerVars, scannerVars, OneStep
  <2>3. files'[t] = files[t] \ {f}
    BY <1>9 DEF OwnerUnlinks, ownerVars, scannerVars, OneStep
  <2>4. CASE f \in Lasting
    <3>1. LastingOf(t)' = LastingOf(t) \ {f}
      BY <2>3
    <3> QED
      BY <2>1, <2>2, <2>4, <3>1 DEF OneStep
  <2>5. CASE f \notin Lasting
    BY <2>1, <2>2, <2>3, <2>5 DEF OneStep
  <2> QED
    BY <2>4, <2>5
<1>10. ASSUME NEW t \in Sessions, OwnerRemovesDirectory(t) PROVE OneStep(t)
  BY <1>10 DEF OwnerRemovesDirectory, Moves, Releases, ownerVars, scannerVars, OneStep
<1>11. ASSUME NEW t \in Sessions, OwnerDies(t) PROVE OneStep(t)
  BY <1>11 DEF OwnerDies, Releases, ownerVars, scannerVars, OneStep
<1>12. ASSUME NEW t \in Sessions, GrowOld(t) PROVE UNCHANGED <<linked, files, owner>>
  BY <1>12 DEF GrowOld, ownerVars, scannerVars
<1>13. ASSUME NEW k \in Scanners, Begin(k) PROVE UNCHANGED <<linked, files, owner>>
  BY <1>13 DEF Begin, Goes, ownerVars, scannerVars
<1>14. ASSUME NEW k \in Scanners, End(k) PROVE UNCHANGED <<linked, files, owner>>
  BY <1>14 DEF End, Goes, ownerVars, scannerVars
<1>15. ASSUME NEW k \in Scanners, NEW t \in Sessions, OpenDirectory(k, t)
      PROVE  UNCHANGED <<linked, files, owner>>
  BY <1>15 DEF OpenDirectory, Goes, ownerVars, scannerVars
<1>16. ASSUME NEW k \in Scanners, OpenLockFile(k) PROVE UNCHANGED <<linked, files, owner>>
  BY <1>16 DEF OpenLockFile, Continues, Goes, ownerVars, scannerVars
<1>17. ASSUME NEW k \in Scanners, ReadMarker(k) PROVE UNCHANGED <<linked, files, owner>>
  BY <1>17 DEF ReadMarker, Continues, Goes, ownerVars, scannerVars
<1>18. ASSUME NEW k \in Scanners, ListTree(k) PROVE UNCHANGED <<linked, files, owner>>
  BY <1>18 DEF ListTree, Continues, Goes, Lists, ownerVars, scannerVars
<1>19. ASSUME NEW k \in Scanners, StatTree(k) PROVE UNCHANGED <<linked, files, owner>>
  BY <1>19 DEF StatTree, Continues, Goes, ownerVars, scannerVars
<1>20. ASSUME NEW k \in Scanners, FindInvalid(k) PROVE UNCHANGED <<linked, files, owner>>
  BY <1>20 DEF FindInvalid, Missing, InvalidOrVanished, Says, Releases, ownerVars, scannerVars
<1>21. ASSUME NEW k \in Scanners, FindActive(k) PROVE UNCHANGED <<linked, files, owner>>
  BY <1>21 DEF FindActive, Says, Releases, ownerVars, scannerVars
<1>22. ASSUME NEW k \in Scanners, TryLock(k) PROVE UNCHANGED <<linked, files, owner>>
  BY <1>22 DEF TryLock, Goes, ownerVars, scannerVars
<1>23. ASSUME NEW k \in Scanners, FindRecentOrStale(k) PROVE UNCHANGED <<linked, files, owner>>
  BY <1>23 DEF FindRecentOrStale, Says, Releases, ownerVars, scannerVars
<1>24. ASSUME NEW k \in Scanners, Condemn(k) PROVE UNCHANGED <<linked, files, owner>>
  BY <1>24 DEF Condemn, Continues, Goes, ownerVars, scannerVars
<1>25. ASSUME NEW k \in Scanners, Relist(k) PROVE UNCHANGED <<linked, files, owner>>
  BY <1>25 DEF Relist, Continues, Goes, Lists, ownerVars, scannerVars
<1>26. ASSUME NEW k \in Scanners, NEW f \in Files, NEW t \in Sessions, t = entry[k], ScannerUnlinks(k, f)
      PROVE  OneStep(t)
  <2>1. \A s \in Sessions \ {t} : Keeps(s)
    BY <1>26 DEF ScannerUnlinks, Lists, ownerVars, scannerVars, OneStep
  <2>2. LifeOf(t) \in {"closing", "left"} /\ LifeOf(t)' = LifeOf(t)
    BY <1>26 DEF ScannerUnlinks, Lists, ownerVars, scannerVars, OneStep
  <2>3. files'[t] = files[t] \ {f}
    BY <1>26 DEF ScannerUnlinks, Lists, ownerVars, scannerVars, OneStep
  <2>4. CASE f \in Lasting
    <3>1. LastingOf(t)' = LastingOf(t) \ {f}
      BY <2>3
    <3> QED
      BY <2>1, <2>2, <2>4, <3>1 DEF OneStep
  <2>5. CASE f \notin Lasting
    BY <2>1, <2>2, <2>3, <2>5 DEF OneStep
  <2> QED
    BY <2>4, <2>5
<1>27. ASSUME NEW k \in Scanners, NEW t \in Sessions, t = entry[k], RemoveDirectory(k)
      PROVE  OneStep(t)
  BY <1>27 DEF RemoveDirectory, Releases, ownerVars, scannerVars, OneStep
<1>28. ASSUME NEW k \in Scanners, DeletionFails(k) PROVE UNCHANGED <<linked, files, owner>>
  BY <1>28 DEF DeletionFails, Says, Releases, ownerVars, scannerVars
<1>29. ASSUME NEW k \in Scanners, ScannerDies(k) PROVE UNCHANGED <<linked, files, owner>>
  BY <1>29 DEF ScannerDies, ownerVars, scannerVars
<1>30. ASSUME NEW k \in Scanners, scan[k] = "unlink" PROVE entry[k] \in Sessions
  BY <1>30
<1>31. CASE UNCHANGED vars
  BY <1>31 DEF Seen, vars, ownerVars, scannerVars
<1>32. ASSUME NEW t \in Sessions, OwnerStep(t) \/ OwnerDies(t) \/ GrowOld(t) PROVE Seen
  BY <1>32, <1>1, <1>2, <1>3, <1>4, <1>5, <1>6, <1>7, <1>8, <1>9, <1>10, <1>11, <1>12 DEF
     Seen, OwnerStep
<1>33. ASSUME NEW k \in Scanners, NEW f \in Files, ScannerUnlinks(k, f) PROVE Seen
  <2>1. PICK t \in Sessions : t = entry[k]
    BY <1>33, <1>30 DEF ScannerUnlinks
  <2>2. OneStep(t)
    BY <1>33, <1>26, <2>1
  <2> QED
    BY <2>2 DEF Seen
<1>34. ASSUME NEW k \in Scanners, RemoveDirectory(k) PROVE Seen
  <2>1. PICK t \in Sessions : t = entry[k]
    BY <1>34, <1>30 DEF RemoveDirectory
  <2>2. OneStep(t)
    BY <1>34, <1>27, <2>1
  <2> QED
    BY <2>2 DEF Seen
<1>35. ASSUME NEW k \in Scanners, ScanStep(k) \/ ScannerDies(k) PROVE Seen
  BY <1>35, <1>33, <1>34, <1>13, <1>14, <1>15, <1>16, <1>17, <1>18, <1>19, <1>20, <1>21,
     <1>22, <1>23, <1>24, <1>25, <1>28, <1>29 DEF Seen, ScanStep
<1> QED
  BY <1>31, <1>32, <1>35 DEF Next

\* Every step is a step of SessionStore, or none.
LEMMA StepsAsStore == SessionsInv /\ [Next]_vars => [Contract!Next]_(Contract!storeVars)
BY StepSeen, OneIsStep, QuietIsStutter DEF Seen

-----------------------------------------------------------------------------
(* The theorems *)

\* The inductive invariant holds in every reachable state.
THEOREM Invariance == Spec => []SessionsInv
<1>1. Init => SessionsInv
  <2> SUFFICES ASSUME Init PROVE SessionsInv
    OBVIOUS
  <2> USE ScannersAssumption, LimitAssumption DEF Init
  <2>1. TypeOK
    BY DEF TypeOK, OwnerPlaces, ScanPlaces, Verdicts
  <2>2. RootInv
    BY DEF RootInv, Scanners
  <2>3. ASSUME NEW s \in Sessions PROVE OwnerInv(s)
    BY DEF OwnerInv, Preparing, Locking, Creating, Owned
  <2>4. ASSUME NEW j \in Scanners PROVE ScanInv(j)
    BY DEF ScanInv, Passing, Deciding
  <2> QED
    BY <2>1, <2>2, <2>3, <2>4 DEF SessionsInv
<1>2. SessionsInv /\ [Next]_vars => SessionsInv'
  BY TypeKept, RootKept, OwnersKept, ScansKept DEF SessionsInv
<1> QED
  BY <1>1, <1>2, PTL DEF Spec

\* Every variable keeps its type.
THEOREM TypeCorrect == Spec => []TypeOK
<1>1. SessionsInv => TypeOK
  BY DEF SessionsInv
<1> QED
  BY <1>1, Invariance, PTL

\* No scan ever holds the lock that a new session asks for.
THEOREM StartsUncontended == Spec => []StartNeverContended
<1>1. SessionsInv => StartNeverContended
  BY DEF SessionsInv, TypeOK, StartNeverContended, OwnerInv, ScanInv, Preparing, Creating,
     Locking,
         Owned
<1> QED
  BY <1>1, Invariance, PTL

\* What an owner has listed for deletion stays until it deletes it.
THEOREM ClosesUndisturbed == Spec => []CloseNeverDisturbed
<1>1. SessionsInv => CloseNeverDisturbed
  BY DEF SessionsInv, CloseNeverDisturbed, OwnerInv
<1> QED
  BY <1>1, Invariance, PTL

\* A session is called active only while its owner lives, or while another
\* doctor looks at it.
THEOREM ActiveMeansAlive == Spec => ActiveIsAlive
<1>1. SessionsInv /\ [Next]_vars => ActiveStepOK
  BY ActiveStep
<1>2. ActiveStepOK => [\A j \in Scanners :
        (verdict[j] # "active" /\ verdict'[j] = "active")
          => owner[entry[j]] # "gone" \/ LookedAt(entry[j], j)]_vars
  BY DEF ActiveStepOK
<1> QED
  BY <1>1, <1>2, Invariance, PTL DEF Spec, ActiveIsAlive

\* Owners, janitors and doctors together do only what SessionStore allows:
\* whatever is deleted belongs to nobody any more.
THEOREM Implementation == Spec => ImplementsSessionStore
<1>1. Init => Contract!Init
  BY DEF Init, Contract!Init, LifeOf
<1> QED
  BY <1>1, StepsAsStore, Invariance, PTL DEF Spec, ImplementsSessionStore, Contract!Spec
=============================================================================
