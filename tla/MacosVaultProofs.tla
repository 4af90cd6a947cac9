--------------------------- MODULE MacosVaultProofs ---------------------------
(***************************************************************************)
(* Proofs about MacosVault: for any number of values of any number of      *)
(* pieces, and whether or not a batch outlives the process that started    *)
(* it.                                                                     *)
(***************************************************************************)
EXTENDS MacosVault, WellFoundedInduction, TLAPS

\* The flags have their type.
Flags ==
  /\ blank \in BOOLEAN /\ policy \in BOOLEAN /\ listed \in BOOLEAN
  /\ unsecured \in BOOLEAN /\ bad \in BOOLEAN /\ refused \in BOOLEAN

\* So has everything else.
Data ==
  /\ keychain \in {"missing", "locked", "unlocked"}
  /\ items \in [Refs -> SUBSET Pieces] /\ pending \in [Refs -> SUBSET Pieces]
  /\ size \in [Refs -> 1..MaxPieces] /\ life \in [Refs -> Lives]
  /\ pc \in Places /\ op \in Calls \cup {"none"} /\ ref \in Refs \cup {NoRef}
  /\ attempts \in 0..UnlockAttempts /\ cursor \in 0..MaxPieces /\ refusals \in Nat

\* A prompt is shown only before a refusal.
AskInv ==
  /\ pc = "unlock" => ~refused
  /\ refusals = 0 \/ (refused /\ refusals = 1)

\* What a call does to its value, and where only one kind of call comes.
CallInv ==
  /\ IF pc \in {"idle", "failed"} THEN op = "none" ELSE op \in Calls /\ ref \in Refs
  /\ op = "set" => life[ref] = "staged"
  /\ op = "delete" => life[ref] \in {"staged", "retired", "lost"}
  /\ pc \in {"create", "check", "secure", "list", "batch"} => op = "set"
  /\ pc \in {"descend", "ascend"} => op = "delete"

\* A keychain that is not there holds nothing; past `_ready` it is there, and
\* secured unless the call that creates it has not come so far.
KeychainInv ==
  /\ pc \notin {"idle", "failed", "ready", "create"} => keychain # "missing"
  /\ keychain = "missing" => \A r \in Refs : items[r] = {} /\ life[r] # "stored"
  /\ pc \in {"check", "secure"} => \A r \in Refs : life[r] # "stored"
  /\ pc = "secure" => ~blank
  /\ (keychain # "missing" /\ pc \notin {"check", "secure"}) => unsecured \/ (~blank /\ policy)

\* No batch works on a value that was stored; a stored value is whole, and a
\* deletion that was cut short leaves its first pieces.
PiecesInv ==
  \A r \in Refs :
    /\ items[r] \subseteq 0..(size[r] - 1) /\ pending[r] \subseteq 0..(size[r] - 1)
    /\ life[r] = "unused" => items[r] = {}
    /\ life[r] \in {"unused", "stored", "retired", "erased"} => pending[r] = {}
    /\ life[r] = "stored" => 0..(size[r] - 1) \subseteq items[r]
    /\ life[r] = "retired" => \A i \in items[r] : 0..i \subseteq items[r]
    /\ life[r] = "erased" => items[r] = {}

\* What a batch without a failure has still to write, and what a deletion that
\* goes down has still to delete.
WorkInv ==
  /\ (pc = "batch" /\ ~bad) => 0..(size[ref] - 1) \subseteq items[ref] \cup pending[ref]
  /\ pc = "descend" => cursor \in 0..(size[ref] - 1)
  /\ (pc = "descend" /\ life[ref] = "retired") => items[ref] \subseteq 0..cursor
  /\ (pc = "ascend" /\ life[ref] = "retired") => items[ref] = {}

MVInv == Flags /\ Data /\ AskInv /\ CallInv /\ KeychainInv /\ PiecesInv /\ WorkInv

-----------------------------------------------------------------------------
(* Pieces *)

\* The next line of a batch writes one of its pieces.
LEMMA NextPieceFits ==
  ASSUME Data, NEW r \in Refs, pending[r] # {}
  PROVE  NextPiece(r) \in pending[r]
<1>1. CASE pending[r] \ {0} = {}
  BY <1>1 DEF NextPiece
<1>2. CASE pending[r] \ {0} # {}
  <2> DEFINE T == pending[r] \ {0}
  <2>1. T \subseteq Nat
    BY BoundsAssumption DEF Data, Pieces
  <2> DEFINE R == {ss \in Nat \X Nat : ss[1] < ss[2]}
  <2>2. IsWellFoundedOn(R, Nat)
    BY NatLessThanWellFounded DEF OpToRel
  <2>3. PICK x \in T : \A y \in T : ~(<<y, x>> \in R)
    <3> HIDE DEF R, T
    <3> QED
      BY <1>2, <2>1, <2>2, WFMin DEF T
  <2>5. ASSUME NEW y \in T PROVE x <= y
    <3>1. x \in Nat /\ y \in Nat /\ <<y, x>> \in Nat \X Nat
      BY <2>1
    <3>2. ~(y < x)
      BY <2>3, <3>1
    <3> QED
      BY <3>1, <3>2
  <2>6. Min(T) \in T
    BY <2>5 DEF Min
  <2> QED
    BY <1>2, <2>6 DEF NextPiece
<1> QED
  BY <1>1, <1>2

-----------------------------------------------------------------------------
(* The invariant is inductive *)

\* Every step keeps the type of the flags.
LEMMA FlagsStep == MVInv /\ [Next]_vars => Flags'
<1> SUFFICES ASSUME MVInv, [Next]_vars PROVE Flags'
  OBVIOUS
<1> USE BoundsAssumption, NullAssumption DEF MVInv, Flags,
        vars, vaultVars, entryVars, callVars, workVars, askVars
<1>1. CASE UNCHANGED vars
  BY <1>1
<1>2. ASSUME NEW r \in Refs, NEW n \in 1..MaxPieces, StartSet(r, n) PROVE Flags'
  BY <1>2 DEF StartSet, Starts, Goes
<1>3. ASSUME NEW r \in Refs, StartGet(r) \/ StartDelete(r) PROVE Flags'
  BY <1>3 DEF StartGet, StartDelete, Starts, Goes
<1>4. CASE DeleteFromMissing
  BY <1>4 DEF DeleteFromMissing, Settled, Returns
<1>5. CASE NotReady
  BY <1>5 DEF NotReady, Reaches, Raises
<1>6. CASE Ready
  BY <1>6 DEF Ready, Reaches
<1>7. CASE Unlock
  BY <1>7 DEF Unlock, Goes
<1>8. CASE WrongPassword
  BY <1>8 DEF WrongPassword
<1>9. CASE UnlockRefused
  BY <1>9 DEF UnlockRefused, Raises
<1>10. ASSUME NEW empty \in BOOLEAN, CreateKeychain(empty) PROVE Flags'
  BY <1>10 DEF CreateKeychain, Goes
<1>11. CASE RejectBlank
  BY <1>11 DEF RejectBlank, Raises
<1>12. CASE AcceptPassword
  BY <1>12 DEF AcceptPassword, Goes
<1>13. CASE SetPolicy
  BY <1>13 DEF SetPolicy, Goes
<1>14. CASE AddToList
  BY <1>14 DEF AddToList, Goes
<1>15. CASE CreateFails
  BY <1>15 DEF CreateFails, Raises
<1>16. CASE AccessFails
  BY <1>16 DEF AccessFails, Raises
<1>17. CASE Read
  BY <1>17 DEF Read, Returns
<1>18. CASE StartBatch
  BY <1>18 DEF StartBatch, Goes
<1>19. ASSUME NEW r \in Refs, WritePiece(r) PROVE Flags'
  BY <1>19, NextPieceFits DEF WritePiece
<1>20. ASSUME NEW r \in Refs, WritePieceFails(r) PROVE Flags'
  BY <1>20, NextPieceFits DEF WritePieceFails
<1>21. CASE EndBatch
  BY <1>21 DEF EndBatch, BatchFailed, Raises, Returns
<1>22. CASE FindHead
  BY <1>22 DEF FindHead
<1>23. CASE Descend
  BY <1>23 DEF Descend, DeletesPiece, Settled, Returns
<1>24. CASE Ascend
  BY <1>24 DEF Ascend, DeletesPiece, Settled, Returns
<1>25. CASE DeleteFails
  BY <1>25 DEF DeleteFails, Raises
<1>26. CASE ProcessEnds
  BY <1>26 DEF ProcessEnds
<1>27. CASE ForgetMissingVault
  BY <1>27 DEF ForgetMissingVault
<1>28. CASE LockChanges
  BY <1>28 DEF LockChanges
<1>29. CASE KeychainRemoved
  BY <1>29 DEF KeychainRemoved
<1> QED
  BY <1>1, <1>2, <1>3, <1>4, <1>5, <1>6, <1>7, <1>8, <1>9, <1>10, <1>11, <1>12, <1>13, <1>14,
     <1>15, <1>16, <1>17, <1>18, <1>19, <1>20, <1>21, <1>22, <1>23, <1>24, <1>25, <1>26,
     <1>27, <1>28, <1>29 DEF Next

\* Every step keeps the types.
LEMMA DataStep == MVInv /\ [Next]_vars => Data'
<1> SUFFICES ASSUME MVInv, [Next]_vars PROVE Data'
  OBVIOUS
<1> USE BoundsAssumption, NullAssumption DEF MVInv, Data, CallInv, WorkInv, PiecesInv,
        vars, vaultVars, entryVars, callVars, workVars, askVars, Lives, Places, Pieces, Calls
<1>1. CASE UNCHANGED vars
  BY <1>1
<1>2. ASSUME NEW r \in Refs, NEW n \in 1..MaxPieces, StartSet(r, n) PROVE Data'
  BY <1>2 DEF StartSet, Starts, Goes
<1>3. ASSUME NEW r \in Refs, StartGet(r) \/ StartDelete(r) PROVE Data'
  BY <1>3 DEF StartGet, StartDelete, Starts, Goes
<1>4. CASE DeleteFromMissing
  BY <1>4 DEF DeleteFromMissing, Settled, Returns
<1>5. CASE NotReady
  BY <1>5 DEF NotReady, Reaches, Raises
<1>6. CASE Ready
  BY <1>6 DEF Ready, Reaches
<1>7. CASE Unlock
  BY <1>7 DEF Unlock, Goes
<1>8. CASE WrongPassword
  BY <1>8 DEF WrongPassword
<1>9. CASE UnlockRefused
  BY <1>9 DEF UnlockRefused, Raises
<1>10. ASSUME NEW empty \in BOOLEAN, CreateKeychain(empty) PROVE Data'
  BY <1>10 DEF CreateKeychain, Goes
<1>11. CASE RejectBlank
  <2>1. /\ pc' \in {"idle", "failed"} /\ op' = "none" /\ ref' = NoRef
        /\ attempts' = 0 /\ cursor' = 0
    BY <1>11 DEF RejectBlank, Raises
  <2>2. keychain' \in {"missing", keychain} /\ items' \in {items, [r \in Refs |-> {}]}
    BY <1>11 DEF RejectBlank, Raises
  <2>3. UNCHANGED <<size, pending, life, refusals>>
    BY <1>11 DEF RejectBlank, Raises
  <2> QED
    BY <2>1, <2>2, <2>3
<1>12. CASE AcceptPassword
  BY <1>12 DEF AcceptPassword, Goes
<1>13. CASE SetPolicy
  BY <1>13 DEF SetPolicy, Goes
<1>14. CASE AddToList
  BY <1>14 DEF AddToList, Goes
<1>15. CASE CreateFails
  BY <1>15 DEF CreateFails, Raises
<1>16. CASE AccessFails
  BY <1>16 DEF AccessFails, Raises
<1>17. CASE Read
  BY <1>17 DEF Read, Returns
<1>18. CASE StartBatch
  BY <1>18 DEF StartBatch, Goes
<1>19. ASSUME NEW r \in Refs, WritePiece(r) PROVE Data'
  BY <1>19, NextPieceFits DEF WritePiece
<1>20. ASSUME NEW r \in Refs, WritePieceFails(r) PROVE Data'
  BY <1>20, NextPieceFits DEF WritePieceFails
<1>21. CASE EndBatch
  BY <1>21 DEF EndBatch, BatchFailed, Raises, Returns
<1>22. CASE FindHead
  BY <1>22 DEF FindHead
<1>23. CASE Descend
  BY <1>23 DEF Descend, DeletesPiece, Settled, Returns
<1>24. CASE Ascend
  BY <1>24 DEF Ascend, DeletesPiece, Settled, Returns
<1>25. CASE DeleteFails
  BY <1>25 DEF DeleteFails, Raises
<1>26. CASE ProcessEnds
  BY <1>26 DEF ProcessEnds
<1>27. CASE ForgetMissingVault
  BY <1>27 DEF ForgetMissingVault
<1>28. CASE LockChanges
  BY <1>28 DEF LockChanges
<1>29. CASE KeychainRemoved
  BY <1>29 DEF KeychainRemoved
<1> QED
  BY <1>1, <1>2, <1>3, <1>4, <1>5, <1>6, <1>7, <1>8, <1>9, <1>10, <1>11, <1>12, <1>13, <1>14,
     <1>15, <1>16, <1>17, <1>18, <1>19, <1>20, <1>21, <1>22, <1>23, <1>24, <1>25, <1>26,
     <1>27, <1>28, <1>29 DEF Next

\* No step prompts again after a refusal.
LEMMA AskStep == MVInv /\ [Next]_vars => AskInv'
<1> SUFFICES ASSUME MVInv, [Next]_vars PROVE AskInv'
  OBVIOUS
<1> USE BoundsAssumption, NullAssumption DEF MVInv, Data, AskInv,
        vars, vaultVars, entryVars, callVars, workVars, askVars
<1>1. CASE UNCHANGED vars
  BY <1>1
<1>2. ASSUME NEW r \in Refs, NEW n \in 1..MaxPieces, StartSet(r, n) PROVE AskInv'
  BY <1>2 DEF StartSet, Starts, Goes
<1>3. ASSUME NEW r \in Refs, StartGet(r) \/ StartDelete(r) PROVE AskInv'
  BY <1>3 DEF StartGet, StartDelete, Starts, Goes
<1>4. CASE DeleteFromMissing
  BY <1>4 DEF DeleteFromMissing, Settled, Returns
<1>5. CASE NotReady
  BY <1>5 DEF NotReady, Reaches, Raises
<1>6. CASE Ready
  BY <1>6 DEF Ready, Reaches
<1>7. CASE Unlock
  BY <1>7 DEF Unlock, Goes
<1>8. CASE WrongPassword
  BY <1>8 DEF WrongPassword
<1>9. CASE UnlockRefused
  BY <1>9 DEF UnlockRefused, Raises
<1>10. ASSUME NEW empty \in BOOLEAN, CreateKeychain(empty) PROVE AskInv'
  BY <1>10 DEF CreateKeychain, Goes
<1>11. CASE RejectBlank
  BY <1>11 DEF RejectBlank, Raises
<1>12. CASE AcceptPassword
  BY <1>12 DEF AcceptPassword, Goes
<1>13. CASE SetPolicy
  BY <1>13 DEF SetPolicy, Goes
<1>14. CASE AddToList
  BY <1>14 DEF AddToList, Goes
<1>15. CASE CreateFails
  BY <1>15 DEF CreateFails, Raises
<1>16. CASE AccessFails
  BY <1>16 DEF AccessFails, Raises
<1>17. CASE Read
  BY <1>17 DEF Read, Returns
<1>18. CASE StartBatch
  BY <1>18 DEF StartBatch, Goes
<1>19. ASSUME NEW r \in Refs, WritePiece(r) PROVE AskInv'
  BY <1>19, NextPieceFits DEF WritePiece
<1>20. ASSUME NEW r \in Refs, WritePieceFails(r) PROVE AskInv'
  BY <1>20, NextPieceFits DEF WritePieceFails
<1>21. CASE EndBatch
  BY <1>21 DEF EndBatch, BatchFailed, Raises, Returns
<1>22. CASE FindHead
  BY <1>22 DEF FindHead
<1>23. CASE Descend
  BY <1>23 DEF Descend, DeletesPiece, Settled, Returns
<1>24. CASE Ascend
  BY <1>24 DEF Ascend, DeletesPiece, Settled, Returns
<1>25. CASE DeleteFails
  BY <1>25 DEF DeleteFails, Raises
<1>26. CASE ProcessEnds
  BY <1>26 DEF ProcessEnds
<1>27. CASE ForgetMissingVault
  BY <1>27 DEF ForgetMissingVault
<1>28. CASE LockChanges
  BY <1>28 DEF LockChanges
<1>29. CASE KeychainRemoved
  BY <1>29 DEF KeychainRemoved
<1> QED
  BY <1>1, <1>2, <1>3, <1>4, <1>5, <1>6, <1>7, <1>8, <1>9, <1>10, <1>11, <1>12, <1>13, <1>14,
     <1>15, <1>16, <1>17, <1>18, <1>19, <1>20, <1>21, <1>22, <1>23, <1>24, <1>25, <1>26,
     <1>27, <1>28, <1>29 DEF Next

\* No step changes the value of a call.
LEMMA CallStep == MVInv /\ [Next]_vars => CallInv'
<1> SUFFICES ASSUME MVInv, [Next]_vars PROVE CallInv'
  OBVIOUS
<1> USE BoundsAssumption, NullAssumption DEF MVInv, Data, CallInv,
        vars, vaultVars, entryVars, callVars, workVars, askVars, Calls
<1>1. CASE UNCHANGED vars
  BY <1>1
<1>2. ASSUME NEW r \in Refs, NEW n \in 1..MaxPieces, StartSet(r, n) PROVE CallInv'
  BY <1>2 DEF StartSet, Starts, Goes
<1>3. ASSUME NEW r \in Refs, StartGet(r) \/ StartDelete(r) PROVE CallInv'
  BY <1>3 DEF StartGet, StartDelete, Starts, Goes
<1>4. CASE DeleteFromMissing
  BY <1>4 DEF DeleteFromMissing, Settled, Returns
<1>5. CASE NotReady
  BY <1>5 DEF NotReady, Reaches, Raises
<1>6. CASE Ready
  BY <1>6 DEF Ready, Reaches
<1>7. CASE Unlock
  BY <1>7 DEF Unlock, Goes
<1>8. CASE WrongPassword
  BY <1>8 DEF WrongPassword
<1>9. CASE UnlockRefused
  BY <1>9 DEF UnlockRefused, Raises
<1>10. ASSUME NEW empty \in BOOLEAN, CreateKeychain(empty) PROVE CallInv'
  BY <1>10 DEF CreateKeychain, Goes
<1>11. CASE RejectBlank
  BY <1>11 DEF RejectBlank, Raises
<1>12. CASE AcceptPassword
  BY <1>12 DEF AcceptPassword, Goes
<1>13. CASE SetPolicy
  BY <1>13 DEF SetPolicy, Goes
<1>14. CASE AddToList
  BY <1>14 DEF AddToList, Goes
<1>15. CASE CreateFails
  BY <1>15 DEF CreateFails, Raises
<1>16. CASE AccessFails
  BY <1>16 DEF AccessFails, Raises
<1>17. CASE Read
  BY <1>17 DEF Read, Returns
<1>18. CASE StartBatch
  BY <1>18 DEF StartBatch, Goes
<1>19. ASSUME NEW r \in Refs, WritePiece(r) PROVE CallInv'
  BY <1>19, NextPieceFits DEF WritePiece
<1>20. ASSUME NEW r \in Refs, WritePieceFails(r) PROVE CallInv'
  BY <1>20, NextPieceFits DEF WritePieceFails
<1>21. CASE EndBatch
  BY <1>21 DEF EndBatch, BatchFailed, Raises, Returns
<1>22. CASE FindHead
  BY <1>22 DEF FindHead
<1>23. CASE Descend
  BY <1>23 DEF Descend, DeletesPiece, Settled, Returns
<1>24. CASE Ascend
  BY <1>24 DEF Ascend, DeletesPiece, Settled, Returns
<1>25. CASE DeleteFails
  BY <1>25 DEF DeleteFails, Raises
<1>26. CASE ProcessEnds
  BY <1>26 DEF ProcessEnds
<1>27. CASE ForgetMissingVault
  BY <1>27 DEF ForgetMissingVault
<1>28. CASE LockChanges
  BY <1>28 DEF LockChanges
<1>29. CASE KeychainRemoved
  BY <1>29 DEF KeychainRemoved
<1> QED
  BY <1>1, <1>2, <1>3, <1>4, <1>5, <1>6, <1>7, <1>8, <1>9, <1>10, <1>11, <1>12, <1>13, <1>14,
     <1>15, <1>16, <1>17, <1>18, <1>19, <1>20, <1>21, <1>22, <1>23, <1>24, <1>25, <1>26,
     <1>27, <1>28, <1>29 DEF Next

\* No step puts the calls past a keychain that is there and secured.
LEMMA KeychainStep == MVInv /\ [Next]_vars => KeychainInv'
<1> SUFFICES ASSUME MVInv, [Next]_vars PROVE KeychainInv'
  OBVIOUS
<1> USE BoundsAssumption, NullAssumption DEF MVInv, Data, CallInv, KeychainInv,
        vars, vaultVars, entryVars, callVars, workVars, askVars
<1>1. CASE UNCHANGED vars
  BY <1>1
<1>2. ASSUME NEW r \in Refs, NEW n \in 1..MaxPieces, StartSet(r, n) PROVE KeychainInv'
  BY <1>2 DEF StartSet, Starts, Goes
<1>3. ASSUME NEW r \in Refs, StartGet(r) \/ StartDelete(r) PROVE KeychainInv'
  BY <1>3 DEF StartGet, StartDelete, Starts, Goes
<1>4. CASE DeleteFromMissing
  BY <1>4 DEF DeleteFromMissing, Settled, Returns
<1>5. CASE NotReady
  BY <1>5 DEF NotReady, Reaches, Raises
<1>6. CASE Ready
  BY <1>6 DEF Ready, Reaches
<1>7. CASE Unlock
  BY <1>7 DEF Unlock, Goes
<1>8. CASE WrongPassword
  BY <1>8 DEF WrongPassword
<1>9. CASE UnlockRefused
  BY <1>9 DEF UnlockRefused, Raises
<1>10. ASSUME NEW empty \in BOOLEAN, CreateKeychain(empty) PROVE KeychainInv'
  BY <1>10 DEF CreateKeychain, Goes
<1>11. CASE RejectBlank
  BY <1>11 DEF RejectBlank, Raises
<1>12. CASE AcceptPassword
  BY <1>12 DEF AcceptPassword, Goes
<1>13. CASE SetPolicy
  BY <1>13 DEF SetPolicy, Goes
<1>14. CASE AddToList
  BY <1>14 DEF AddToList, Goes
<1>15. CASE CreateFails
  BY <1>15 DEF CreateFails, Raises
<1>16. CASE AccessFails
  BY <1>16 DEF AccessFails, Raises
<1>17. CASE Read
  BY <1>17 DEF Read, Returns
<1>18. CASE StartBatch
  BY <1>18 DEF StartBatch, Goes
<1>19. ASSUME NEW r \in Refs, WritePiece(r) PROVE KeychainInv'
  BY <1>19, NextPieceFits DEF WritePiece
<1>20. ASSUME NEW r \in Refs, WritePieceFails(r) PROVE KeychainInv'
  BY <1>20, NextPieceFits DEF WritePieceFails
<1>21. CASE EndBatch
  BY <1>21 DEF EndBatch, BatchFailed, Raises, Returns
<1>22. CASE FindHead
  BY <1>22 DEF FindHead
<1>23. CASE Descend
  BY <1>23 DEF Descend, DeletesPiece, Settled, Returns
<1>24. CASE Ascend
  BY <1>24 DEF Ascend, DeletesPiece, Settled, Returns
<1>25. CASE DeleteFails
  BY <1>25 DEF DeleteFails, Raises
<1>26. CASE ProcessEnds
  BY <1>26 DEF ProcessEnds
<1>27. CASE ForgetMissingVault
  BY <1>27 DEF ForgetMissingVault
<1>28. CASE LockChanges
  BY <1>28 DEF LockChanges
<1>29. CASE KeychainRemoved
  BY <1>29 DEF KeychainRemoved
<1> QED
  BY <1>1, <1>2, <1>3, <1>4, <1>5, <1>6, <1>7, <1>8, <1>9, <1>10, <1>11, <1>12, <1>13, <1>14,
     <1>15, <1>16, <1>17, <1>18, <1>19, <1>20, <1>21, <1>22, <1>23, <1>24, <1>25, <1>26,
     <1>27, <1>28, <1>29 DEF Next

\* No step leaves a stored value in part or an erased one at all.
LEMMA PiecesStep == MVInv /\ [Next]_vars => PiecesInv'
<1> SUFFICES ASSUME MVInv, [Next]_vars PROVE PiecesInv'
  OBVIOUS
<1> USE BoundsAssumption, NullAssumption DEF MVInv, Data, CallInv, KeychainInv, PiecesInv, WorkInv,
        vars, vaultVars, entryVars, callVars, workVars, askVars, Lives, Pieces
<1>1. CASE UNCHANGED vars
  BY <1>1
<1>2. ASSUME NEW r \in Refs, NEW n \in 1..MaxPieces, StartSet(r, n) PROVE PiecesInv'
  BY <1>2 DEF StartSet, Starts, Goes
<1>3. ASSUME NEW r \in Refs, StartGet(r) \/ StartDelete(r) PROVE PiecesInv'
  BY <1>3 DEF StartGet, StartDelete, Starts, Goes
<1>4. CASE DeleteFromMissing
  BY <1>4 DEF DeleteFromMissing, Settled, Returns
<1>5. CASE NotReady
  BY <1>5 DEF NotReady, Reaches, Raises
<1>6. CASE Ready
  BY <1>6 DEF Ready, Reaches
<1>7. CASE Unlock
  BY <1>7 DEF Unlock, Goes
<1>8. CASE WrongPassword
  BY <1>8 DEF WrongPassword
<1>9. CASE UnlockRefused
  BY <1>9 DEF UnlockRefused, Raises
<1>10. ASSUME NEW empty \in BOOLEAN, CreateKeychain(empty) PROVE PiecesInv'
  BY <1>10 DEF CreateKeychain, Goes
<1>11. CASE RejectBlank
  BY <1>11 DEF RejectBlank, Raises
<1>12. CASE AcceptPassword
  BY <1>12 DEF AcceptPassword, Goes
<1>13. CASE SetPolicy
  BY <1>13 DEF SetPolicy, Goes
<1>14. CASE AddToList
  BY <1>14 DEF AddToList, Goes
<1>15. CASE CreateFails
  BY <1>15 DEF CreateFails, Raises
<1>16. CASE AccessFails
  BY <1>16 DEF AccessFails, Raises
<1>17. CASE Read
  BY <1>17 DEF Read, Returns
<1>18. CASE StartBatch
  BY <1>18 DEF StartBatch, Goes
<1>19. ASSUME NEW r \in Refs, WritePiece(r) PROVE PiecesInv'
  BY <1>19, NextPieceFits DEF WritePiece
<1>20. ASSUME NEW r \in Refs, WritePieceFails(r) PROVE PiecesInv'
  BY <1>20, NextPieceFits DEF WritePieceFails
<1>21. CASE EndBatch
  BY <1>21 DEF EndBatch, BatchFailed, Raises, Returns
<1>22. CASE FindHead
  BY <1>22 DEF FindHead
<1>23. CASE Descend
  BY <1>23 DEF Descend, DeletesPiece, Settled, Returns
<1>24. CASE Ascend
  BY <1>24 DEF Ascend, DeletesPiece, Settled, Returns
<1>25. CASE DeleteFails
  BY <1>25 DEF DeleteFails, Raises
<1>26. CASE ProcessEnds
  BY <1>26 DEF ProcessEnds
<1>27. CASE ForgetMissingVault
  BY <1>27 DEF ForgetMissingVault
<1>28. CASE LockChanges
  BY <1>28 DEF LockChanges
<1>29. CASE KeychainRemoved
  BY <1>29 DEF KeychainRemoved
<1> QED
  BY <1>1, <1>2, <1>3, <1>4, <1>5, <1>6, <1>7, <1>8, <1>9, <1>10, <1>11, <1>12, <1>13, <1>14,
     <1>15, <1>16, <1>17, <1>18, <1>19, <1>20, <1>21, <1>22, <1>23, <1>24, <1>25, <1>26,
     <1>27, <1>28, <1>29 DEF Next

\* A batch and a deletion keep count of their pieces.
LEMMA WorkStep == MVInv /\ [Next]_vars => WorkInv'
<1> SUFFICES ASSUME MVInv, [Next]_vars PROVE WorkInv'
  OBVIOUS
<1> USE BoundsAssumption, NullAssumption DEF MVInv, Data, CallInv, PiecesInv, WorkInv,
        vars, vaultVars, entryVars, callVars, workVars, askVars, Lives, Pieces
<1>1. CASE UNCHANGED vars
  BY <1>1
<1>2. ASSUME NEW r \in Refs, NEW n \in 1..MaxPieces, StartSet(r, n) PROVE WorkInv'
  BY <1>2 DEF StartSet, Starts, Goes
<1>3. ASSUME NEW r \in Refs, StartGet(r) \/ StartDelete(r) PROVE WorkInv'
  BY <1>3 DEF StartGet, StartDelete, Starts, Goes
<1>4. CASE DeleteFromMissing
  BY <1>4 DEF DeleteFromMissing, Settled, Returns
<1>5. CASE NotReady
  BY <1>5 DEF NotReady, Reaches, Raises
<1>6. CASE Ready
  BY <1>6 DEF Ready, Reaches
<1>7. CASE Unlock
  BY <1>7 DEF Unlock, Goes
<1>8. CASE WrongPassword
  BY <1>8 DEF WrongPassword
<1>9. CASE UnlockRefused
  BY <1>9 DEF UnlockRefused, Raises
<1>10. ASSUME NEW empty \in BOOLEAN, CreateKeychain(empty) PROVE WorkInv'
  BY <1>10 DEF CreateKeychain, Goes
<1>11. CASE RejectBlank
  BY <1>11 DEF RejectBlank, Raises
<1>12. CASE AcceptPassword
  BY <1>12 DEF AcceptPassword, Goes
<1>13. CASE SetPolicy
  BY <1>13 DEF SetPolicy, Goes
<1>14. CASE AddToList
  BY <1>14 DEF AddToList, Goes
<1>15. CASE CreateFails
  BY <1>15 DEF CreateFails, Raises
<1>16. CASE AccessFails
  BY <1>16 DEF AccessFails, Raises
<1>17. CASE Read
  BY <1>17 DEF Read, Returns
<1>18. CASE StartBatch
  BY <1>18 DEF StartBatch, Goes
<1>19. ASSUME NEW r \in Refs, WritePiece(r) PROVE WorkInv'
  BY <1>19, NextPieceFits DEF WritePiece
<1>20. ASSUME NEW r \in Refs, WritePieceFails(r) PROVE WorkInv'
  BY <1>20, NextPieceFits DEF WritePieceFails
<1>21. CASE EndBatch
  BY <1>21 DEF EndBatch, BatchFailed, Raises, Returns
<1>22. CASE FindHead
  BY <1>22 DEF FindHead
<1>23. CASE Descend
  BY <1>23 DEF Descend, DeletesPiece, Settled, Returns
<1>24. CASE Ascend
  BY <1>24 DEF Ascend, DeletesPiece, Settled, Returns
<1>25. CASE DeleteFails
  BY <1>25 DEF DeleteFails, Raises
<1>26. CASE ProcessEnds
  BY <1>26 DEF ProcessEnds
<1>27. CASE ForgetMissingVault
  BY <1>27 DEF ForgetMissingVault
<1>28. CASE LockChanges
  BY <1>28 DEF LockChanges
<1>29. CASE KeychainRemoved
  BY <1>29 DEF KeychainRemoved
<1> QED
  BY <1>1, <1>2, <1>3, <1>4, <1>5, <1>6, <1>7, <1>8, <1>9, <1>10, <1>11, <1>12, <1>13, <1>14,
     <1>15, <1>16, <1>17, <1>18, <1>19, <1>20, <1>21, <1>22, <1>23, <1>24, <1>25, <1>26,
     <1>27, <1>28, <1>29 DEF Next
-----------------------------------------------------------------------------
(* The theorems *)

\* The inductive invariant holds in every reachable state.
THEOREM Invariance == Spec => []MVInv
<1>1. Init => MVInv
  <2> SUFFICES ASSUME Init PROVE MVInv
    OBVIOUS
  <2>1. Flags
    BY DEF Init, Flags
  <2>2. Data
    BY BoundsAssumption DEF Init, Data, Lives, Places, Pieces, Calls
  <2>3. AskInv /\ CallInv /\ KeychainInv /\ WorkInv
    BY DEF Init, AskInv, CallInv, KeychainInv, WorkInv
  <2>4. PiecesInv
    BY DEF Init, PiecesInv
  <2> QED
    BY <2>1, <2>2, <2>3, <2>4 DEF MVInv
<1>2. MVInv /\ [Next]_vars => MVInv'
  BY FlagsStep, DataStep, AskStep, CallStep, KeychainStep, PiecesStep, WorkStep DEF MVInv
<1> QED
  BY <1>1, <1>2, PTL DEF Spec

\* Every variable keeps its type.
THEOREM TypeCorrect == Spec => []TypeOK
<1>1. MVInv => TypeOK
  BY DEF MVInv, Flags, Data, TypeOK
<1> QED
  BY <1>1, Invariance, PTL

\* A value whose `set` returned has every piece, for any number of pieces,
\* any interruption and any other batch that goes on.
THEOREM StoredValuesAreWhole == Spec => []StoredReadsWhole
<1>1. MVInv => StoredReadsWhole
  BY DEF MVInv, PiecesInv, StoredReadsWhole
<1> QED
  BY <1>1, Invariance, PTL

\* Nothing is left of a value that was stored when its deletion has returned.
THEOREM ErasureIsComplete == Spec => []RetiredIsGone
<1>1. MVInv => RetiredIsGone
  BY DEF MVInv, PiecesInv, RetiredIsGone
<1> QED
  BY <1>1, Invariance, PTL

\* A process prompts no more after one refusal.
THEOREM OneRefusal == Spec => []RefusedOnce
<1>1. MVInv => RefusedOnce
  BY DEF MVInv, AskInv, RefusedOnce
<1> QED
  BY <1>1, Invariance, PTL

\* Values are stored in a keychain with a password that locks by itself,
\* unless the call that created the keychain was cut short.
THEOREM StoresAreSecured == Spec => []StoredInSecuredVault
<1>1. MVInv => StoredInSecuredVault
  BY DEF MVInv, Data, KeychainInv, StoredInSecuredVault
<1> QED
  BY <1>1, Invariance, PTL
=============================================================================
