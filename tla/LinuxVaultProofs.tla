--------------------------- MODULE LinuxVaultProofs ---------------------------
(***************************************************************************)
(* Proofs about LinuxVault: for any number of credentials, any number of   *)
(* processes one after the other, and whatever the user does to the vault. *)
(***************************************************************************)
EXTENDS LinuxVault, TLAPS

\* The flags have their type.
Flags ==
  /\ kde \in BOOLEAN /\ firstUse \in BOOLEAN /\ listed \in BOOLEAN /\ twin \in BOOLEAN
  /\ locked \in BOOLEAN /\ unchecked \in BOOLEAN /\ unseen \in BOOLEAN
  /\ unkept \in BOOLEAN /\ terminal \in BOOLEAN /\ refused \in BOOLEAN

\* So has everything else.
Data ==
  /\ vault \in {"none", "safe", "bare", "gpg"} /\ away \in {"none", "safe", "bare", "gpg"}
  /\ default \in {"vault", "login"} /\ previous \in {"vault", "login"}
  /\ stray \subseteq {"creation", "unlock"}
  /\ items \subseteq Refs /\ life \in [Refs -> Lives]
  /\ pc \in Places /\ op \in {"none", "set", "get", "delete"} /\ ref \in Refs \cup {NoRef}
  /\ asked \in {"none", "creation", "unlock"}
  /\ outcome \in {"none", "opened", "created", "elsewhere", "refused", "failed"}
  /\ refusals \in Nat

\* A window is asked for only before a refusal, and what ended without a good
\* answer is on its way to become one.
RefusedInv ==
  /\ pc \in {"create", "unlock", "waiting"} => ~refused
  /\ pc = "dismissing" => outcome = "refused"
  /\ refusals <= 1
  /\ refusals = 0 \/ refused \/ pc = "dismissing" \/ (pc = "restore" /\ outcome = "refused")

\* The places of a call that goes to an entry of an existing vault, and looks
\* at no header any more.
ToAnEntry ==
  \/ pc \in {"unlock", "access"}
  \/ pc = "waiting" /\ asked = "unlock"
  \/ pc = "restore" /\ outcome = "opened"

\* A call on its way to an entry has seen a header without GPG, or is marked.
OpenInv == (ToAnEntry /\ "gpg" \in {vault, away}) => unseen

\* The vault's file is in its place or away, and its weakness is its
\* provider's; a bare keyring was not seen by a check, and a GPG wallet that
\* holds something not by a call.
FileInv ==
  /\ away # "none" => vault = "none"
  /\ IF kde THEN "bare" \notin {vault, away} ELSE "gpg" \notin {vault, away}
  /\ "bare" \in {vault, away} => unchecked \/ unseen
  /\ ("gpg" \in {vault, away} /\ items # {}) => unseen

\* Outside the window and its `finally` the default is the vault only when
\* marked; so is what a window's `finally` puts back.
DefaultInv ==
  /\ default = "vault" => kde
  /\ firstUse => kde
  /\ DefaultIsKept
  /\ previous = "vault" => unkept

\* A call names its credential; one that is being stored is not known yet, and
\* one that is being deleted is not needed any more.
CallInv ==
  /\ op # "none" => ref \in Refs
  /\ op = "set" => life[ref] = "staged"
  /\ op = "delete" => life[ref] # "stored"
  /\ pc \notin {"idle", "failed"} => op # "none"

\* A stored credential without an entry belonged to a wallet that was removed
\* with it and has no successor yet; the keyring a GNOME window has just made
\* is empty.
KeptInv ==
  /\ \A r \in Refs : life[r] = "stored" =>
       r \in items \/ (kde /\ unseen /\ vault = "none" /\ away = "none")
  /\ (~kde /\ pc \in {"restore", "check"} /\ outcome = "created") => items = {}

LVInv == Flags /\ Data /\ RefusedInv /\ OpenInv /\ FileInv /\ DefaultInv /\ CallInv /\ KeptInv

-----------------------------------------------------------------------------
(* The invariant is inductive *)

\* A window that makes a vault marks the call that has looked already.
LEMMA CreatesMarks ==
  ASSUME LVInv, NEW window, NEW where, Answered(window, where)
  PROVE  /\ unseen' \in BOOLEAN
         /\ \/ UNCHANGED <<vault, away, unseen>>
            \/ away' = "none" /\ (pc \in PastHeader => unseen')
<1>1. CASE UNCHANGED <<vault, away, unseen>>
  BY <1>1 DEF LVInv, Flags
<1>2. CASE away' = "none" /\ unseen' = (pc \in PastHeader)
  <2>1. CASE pc \in PastHeader
    BY <1>2, <2>1
  <2>2. CASE pc \notin PastHeader
    BY <1>2, <2>2
  <2> QED
    BY <2>1, <2>2
<1>3. \/ UNCHANGED <<vault, away, unseen>>
      \/ away' = "none" /\ unseen' = (pc \in PastHeader)
  BY DEF Answered, Creates
<1> QED
  BY <1>1, <1>2, <1>3

\* Every step keeps the type of the flags.
LEMMA FlagsStep == LVInv /\ [Next]_vars => Flags'
<1> SUFFICES ASSUME LVInv, [Next]_vars PROVE Flags'
  OBVIOUS
<1> USE NullAssumption DEF LVInv, Flags,
        vars, providerVars, vaultVars, deskVars, entryVars, callVars, askVars, procVars
<1>1. CASE UNCHANGED vars
  BY <1>1
<1>2. ASSUME NEW r \in Refs, StartCall(r) PROVE Flags'
  BY <1>2 DEF StartCall, StartSet, StartGet, StartDelete
<1>3. CASE DeleteFromMissing
  BY <1>3 DEF DeleteFromMissing, Returns, Ends
<1>4. CASE NotReady
  BY <1>4 DEF NotReady, Raises, Ends, Reaches
<1>5. CASE RefusesGpg
  BY <1>5 DEF RefusesGpg, Refuses, Raises, Ends, Reaches
<1>6. CASE RefusesGhost
  BY <1>6 DEF RefusesGhost, Refuses, Raises, Ends, Reaches
<1>7. CASE Ready
  BY <1>7 DEF Ready, Reaches, Missing, Ambiguous, NoGpgSeen, Leads
<1>8. CASE NoTerminal
  BY <1>8 DEF NoTerminal, Refuses, Raises, Ends
<1>9. CASE Ask
  BY <1>9 DEF Ask
<1>10. CASE OpenedWithoutWindow
  BY <1>10 DEF OpenedWithoutWindow, Opens
<1>11. CASE UserAnswers
  <2>1. unseen' \in BOOLEAN
    <3>1. PICK window, where : Answered(window, where)
      BY <1>11 DEF UserAnswers
    <3> QED
      BY <3>1, CreatesMarks DEF LVInv
  <2>2. /\ kde' \in BOOLEAN /\ firstUse' \in BOOLEAN /\ listed' \in BOOLEAN
        /\ twin' \in BOOLEAN /\ locked' \in BOOLEAN /\ unchecked' \in BOOLEAN
        /\ unkept' \in BOOLEAN /\ terminal' \in BOOLEAN /\ refused' \in BOOLEAN
    BY <1>11 DEF UserAnswers, Answered, Creates, Opens
  <2> QED
    BY <2>1, <2>2
<1>12. CASE UserDismisses
  BY <1>12 DEF UserDismisses
<1>13. CASE NoAnswer
  BY <1>13 DEF NoAnswer
<1>14. CASE WindowFails
  BY <1>14 DEF WindowFails, Abandoned
<1>15. CASE DismissWindow
  BY <1>15 DEF DismissWindow, Abandoned
<1>16. CASE LateAnswer
  <2>1. unseen' \in BOOLEAN
    <3>1. PICK window, where : Answered(window, where)
      BY <1>16 DEF LateAnswer
    <3> QED
      BY <3>1, CreatesMarks DEF LVInv
  <2>2. unkept' = unkept \/ unkept' = (unkept \/ (pc \notin Guarded /\ default' = "vault"))
    BY <1>16 DEF LateAnswer
  <2>3. unkept' \in BOOLEAN
    BY <2>2, Zenon
  <2>4. /\ UNCHANGED <<kde, firstUse, terminal, refused>>
        /\ listed' \in BOOLEAN /\ twin' \in BOOLEAN /\ locked' \in BOOLEAN
        /\ unchecked' \in BOOLEAN
    BY <1>16 DEF LateAnswer, Answered, Creates, Opens
  <2> QED
    BY <2>1, <2>3, <2>4
<1>17. CASE CloseStray
  BY <1>17 DEF CloseStray
<1>18. CASE RestoreDefault
  BY <1>18 DEF RestoreDefault, KeepDefault
<1>19. CASE RestoreAndRaise
  BY <1>19 DEF RestoreAndRaise, LeavesWindow, KeepDefault, Refuses, Raises, Ends
<1>20. CASE RejectCreated
  BY <1>20 DEF RejectCreated, Rejects, RemovesCreated, LeavesCreated, Weak, Refuses, Raises, Ends
<1>21. CASE AcceptCreated
  <2>1. unseen' \in BOOLEAN
    BY <1>21 DEF AcceptCreated, Accepts
  <2>2. /\ kde' \in BOOLEAN /\ firstUse' \in BOOLEAN /\ listed' \in BOOLEAN
        /\ twin' \in BOOLEAN /\ locked' \in BOOLEAN /\ unchecked' \in BOOLEAN
        /\ unkept' \in BOOLEAN /\ terminal' \in BOOLEAN /\ refused' \in BOOLEAN
    BY <1>21 DEF AcceptCreated, Accepts
  <2> QED
    BY <2>1, <2>2
<1>22. CASE AccessFails
  BY <1>22 DEF AccessFails, Raises, Ends, Usable
<1>23. CASE Store
  BY <1>23 DEF Store, Returns, Ends, Usable
<1>24. CASE Read
  BY <1>24 DEF Read, Returns, Ends, Usable
<1>25. CASE Delete
  BY <1>25 DEF Delete, Returns, Ends, Usable
<1>26. CASE ProcessEnds
  BY <1>26 DEF ProcessEnds, Ends, Abandoned
<1>27. CASE Locks
  BY <1>27 DEF Locks
<1>28. CASE Relogin
  BY <1>28 DEF Relogin
<1>29. CASE MoveAway
  BY <1>29 DEF MoveAway
<1>30. CASE MoveBack
  BY <1>30 DEF MoveBack
<1>31. CASE RemoveTwin
  BY <1>31 DEF RemoveTwin
<1> QED
  BY <1>1, <1>2, <1>3, <1>4, <1>5, <1>6, <1>7, <1>8, <1>9, <1>10, <1>11, <1>12, <1>13,
     <1>14, <1>15, <1>16, <1>17, <1>18, <1>19, <1>20, <1>21, <1>22, <1>23, <1>24, <1>25,
     <1>26, <1>27, <1>28, <1>29, <1>30, <1>31 DEF Next

\* Every step keeps the types.
LEMMA DataStep == LVInv /\ [Next]_vars => Data'
<1> SUFFICES ASSUME LVInv, [Next]_vars PROVE Data'
  OBVIOUS
<1> USE NullAssumption DEF LVInv, Data, CallInv,
        vars, providerVars, vaultVars, deskVars, entryVars, callVars, askVars, procVars, Lives, Places
<1>1. CASE UNCHANGED vars
  BY <1>1
<1>2. ASSUME NEW r \in Refs, StartCall(r) PROVE Data'
  BY <1>2 DEF StartCall, StartSet, StartGet, StartDelete
<1>3. CASE DeleteFromMissing
  BY <1>3 DEF DeleteFromMissing, Returns, Ends
<1>4. CASE NotReady
  BY <1>4 DEF NotReady, Raises, Ends, Reaches
<1>5. CASE RefusesGpg
  BY <1>5 DEF RefusesGpg, Refuses, Raises, Ends, Reaches
<1>6. CASE RefusesGhost
  BY <1>6 DEF RefusesGhost, Refuses, Raises, Ends, Reaches
<1>7. CASE Ready
  BY <1>7 DEF Ready, Reaches, Missing, Ambiguous, NoGpgSeen, Leads
<1>8. CASE NoTerminal
  BY <1>8 DEF NoTerminal, Refuses, Raises, Ends
<1>9. CASE Ask
  BY <1>9 DEF Ask
<1>10. CASE OpenedWithoutWindow
  BY <1>10 DEF OpenedWithoutWindow, Opens
<1>11. CASE UserAnswers
  BY <1>11 DEF UserAnswers, Answered, Creates, Opens
<1>12. CASE UserDismisses
  BY <1>12 DEF UserDismisses
<1>13. CASE NoAnswer
  BY <1>13 DEF NoAnswer
<1>14. CASE WindowFails
  BY <1>14 DEF WindowFails, Abandoned
<1>15. CASE DismissWindow
  BY <1>15 DEF DismissWindow, Abandoned
<1>16. CASE LateAnswer
  <2>1. default' \in {"vault", "login"} /\ asked' \in {"none", asked} /\ stray' \subseteq stray
    BY <1>16 DEF LateAnswer, Answered, Creates, Opens
  <2>2. UNCHANGED <<previous, outcome, pc, op, ref, refusals>>
    BY <1>16 DEF LateAnswer, Answered, Creates, Opens
  <2>3. \/ UNCHANGED <<vault, away, items, life>>
        \/ /\ vault' \in {"safe", "bare", "gpg"} /\ away' = "none" /\ items' = {}
           /\ life' = [r \in Refs |-> IF life[r] = "stored" THEN "lost" ELSE life[r]]
    BY <1>16 DEF LateAnswer, Answered, Creates, Opens
  <2> QED
    BY <2>1, <2>2, <2>3
<1>17. CASE CloseStray
  BY <1>17 DEF CloseStray
<1>18. CASE RestoreDefault
  BY <1>18 DEF RestoreDefault, KeepDefault
<1>19. CASE RestoreAndRaise
  BY <1>19 DEF RestoreAndRaise, LeavesWindow, KeepDefault, Refuses, Raises, Ends
<1>20. CASE RejectCreated
  BY <1>20 DEF RejectCreated, Rejects, RemovesCreated, LeavesCreated, Weak, Refuses, Raises, Ends
<1>21. CASE AcceptCreated
  BY <1>21 DEF AcceptCreated, Accepts, Weak
<1>22. CASE AccessFails
  BY <1>22 DEF AccessFails, Raises, Ends, Usable
<1>23. CASE Store
  BY <1>23 DEF Store, Returns, Ends, Usable
<1>24. CASE Read
  BY <1>24 DEF Read, Returns, Ends, Usable
<1>25. CASE Delete
  BY <1>25 DEF Delete, Returns, Ends, Usable
<1>26. CASE ProcessEnds
  BY <1>26 DEF ProcessEnds, Ends, Abandoned
<1>27. CASE Locks
  BY <1>27 DEF Locks
<1>28. CASE Relogin
  BY <1>28 DEF Relogin
<1>29. CASE MoveAway
  BY <1>29 DEF MoveAway
<1>30. CASE MoveBack
  BY <1>30 DEF MoveBack
<1>31. CASE RemoveTwin
  BY <1>31 DEF RemoveTwin
<1> QED
  BY <1>1, <1>2, <1>3, <1>4, <1>5, <1>6, <1>7, <1>8, <1>9, <1>10, <1>11, <1>12, <1>13,
     <1>14, <1>15, <1>16, <1>17, <1>18, <1>19, <1>20, <1>21, <1>22, <1>23, <1>24, <1>25,
     <1>26, <1>27, <1>28, <1>29, <1>30, <1>31 DEF Next

\* No step asks again after a refusal.
LEMMA RefusedStep == LVInv /\ [Next]_vars => RefusedInv'
<1> SUFFICES ASSUME LVInv, [Next]_vars PROVE RefusedInv'
  OBVIOUS
<1> USE NullAssumption DEF LVInv, Data, RefusedInv,
        vars, providerVars, vaultVars, deskVars, entryVars, callVars, askVars, procVars
<1>1. CASE UNCHANGED vars
  BY <1>1
<1>2. ASSUME NEW r \in Refs, StartCall(r) PROVE RefusedInv'
  BY <1>2 DEF StartCall, StartSet, StartGet, StartDelete
<1>3. CASE DeleteFromMissing
  BY <1>3 DEF DeleteFromMissing, Returns, Ends
<1>4. CASE NotReady
  BY <1>4 DEF NotReady, Raises, Ends, Reaches
<1>5. CASE RefusesGpg
  BY <1>5 DEF RefusesGpg, Refuses, Raises, Ends, Reaches
<1>6. CASE RefusesGhost
  BY <1>6 DEF RefusesGhost, Refuses, Raises, Ends, Reaches
<1>7. CASE Ready
  BY <1>7 DEF Ready, Reaches, Missing, Ambiguous, NoGpgSeen, Leads
<1>8. CASE NoTerminal
  BY <1>8 DEF NoTerminal, Refuses, Raises, Ends
<1>9. CASE Ask
  BY <1>9 DEF Ask
<1>10. CASE OpenedWithoutWindow
  BY <1>10 DEF OpenedWithoutWindow, Opens
<1>11. CASE UserAnswers
  BY <1>11 DEF UserAnswers, Answered, Creates, Opens
<1>12. CASE UserDismisses
  BY <1>12 DEF UserDismisses
<1>13. CASE NoAnswer
  BY <1>13 DEF NoAnswer
<1>14. CASE WindowFails
  BY <1>14 DEF WindowFails, Abandoned
<1>15. CASE DismissWindow
  BY <1>15 DEF DismissWindow, Abandoned
<1>16. CASE LateAnswer
  BY <1>16 DEF LateAnswer, Answered, Creates, Opens
<1>17. CASE CloseStray
  BY <1>17 DEF CloseStray
<1>18. CASE RestoreDefault
  BY <1>18 DEF RestoreDefault, KeepDefault
<1>19. CASE RestoreAndRaise
  BY <1>19 DEF RestoreAndRaise, LeavesWindow, KeepDefault, Refuses, Raises, Ends
<1>20. CASE RejectCreated
  BY <1>20 DEF RejectCreated, Rejects, RemovesCreated, LeavesCreated, Weak, Refuses, Raises, Ends
<1>21. CASE AcceptCreated
  BY <1>21 DEF AcceptCreated, Accepts, Weak
<1>22. CASE AccessFails
  BY <1>22 DEF AccessFails, Raises, Ends, Usable
<1>23. CASE Store
  BY <1>23 DEF Store, Returns, Ends, Usable
<1>24. CASE Read
  BY <1>24 DEF Read, Returns, Ends, Usable
<1>25. CASE Delete
  BY <1>25 DEF Delete, Returns, Ends, Usable
<1>26. CASE ProcessEnds
  BY <1>26 DEF ProcessEnds, Ends, Abandoned
<1>27. CASE Locks
  BY <1>27 DEF Locks
<1>28. CASE Relogin
  BY <1>28 DEF Relogin
<1>29. CASE MoveAway
  BY <1>29 DEF MoveAway
<1>30. CASE MoveBack
  BY <1>30 DEF MoveBack
<1>31. CASE RemoveTwin
  BY <1>31 DEF RemoveTwin
<1> QED
  BY <1>1, <1>2, <1>3, <1>4, <1>5, <1>6, <1>7, <1>8, <1>9, <1>10, <1>11, <1>12, <1>13,
     <1>14, <1>15, <1>16, <1>17, <1>18, <1>19, <1>20, <1>21, <1>22, <1>23, <1>24, <1>25,
     <1>26, <1>27, <1>28, <1>29, <1>30, <1>31 DEF Next

\* A call is marked when the header it passes may be one of a GPG wallet.
LEMMA OpenStep == LVInv /\ [Next]_vars => OpenInv'
<1> SUFFICES ASSUME LVInv, [Next]_vars PROVE OpenInv'
  OBVIOUS
<1> USE NullAssumption DEF LVInv, Data, RefusedInv, OpenInv, FileInv, ToAnEntry, Places,
        vars, providerVars, vaultVars, deskVars, entryVars, callVars, askVars, procVars
<1>1. CASE UNCHANGED vars
  BY <1>1
<1>2. ASSUME NEW r \in Refs, StartCall(r) PROVE OpenInv'
  BY <1>2 DEF StartCall, StartSet, StartGet, StartDelete
<1>3. CASE DeleteFromMissing
  BY <1>3 DEF DeleteFromMissing, Returns, Ends
<1>4. CASE NotReady
  BY <1>4 DEF NotReady, Raises, Ends, Reaches
<1>5. CASE RefusesGpg
  BY <1>5 DEF RefusesGpg, Refuses, Raises, Ends, Reaches
<1>6. CASE RefusesGhost
  BY <1>6 DEF RefusesGhost, Refuses, Raises, Ends, Reaches
<1>7. CASE Ready
  BY <1>7 DEF Ready, Reaches, Missing, Ambiguous, NoGpgSeen, Leads
<1>8. CASE NoTerminal
  BY <1>8 DEF NoTerminal, Refuses, Raises, Ends
<1>9. CASE Ask
  BY <1>9 DEF Ask
<1>10. CASE OpenedWithoutWindow
  BY <1>10 DEF OpenedWithoutWindow, Opens
<1>11. CASE UserAnswers
  BY <1>11 DEF UserAnswers, Answered, Creates, Opens, PastHeader
<1>12. CASE UserDismisses
  BY <1>12 DEF UserDismisses
<1>13. CASE NoAnswer
  BY <1>13 DEF NoAnswer
<1>14. CASE WindowFails
  BY <1>14 DEF WindowFails, Abandoned
<1>15. CASE DismissWindow
  BY <1>15 DEF DismissWindow, Abandoned
<1>16. CASE LateAnswer
  <2>1. UNCHANGED <<pc, outcome>> /\ asked' \in {"none", asked}
    BY <1>16 DEF LateAnswer
  <2>2. PICK window, where : Answered(window, where)
    BY <1>16 DEF LateAnswer
  <2>3. \/ UNCHANGED <<vault, away, unseen>>
        \/ away' = "none" /\ (pc \in PastHeader => unseen')
    BY <2>2, CreatesMarks DEF LVInv
  <2> QED
    BY <2>1, <2>3 DEF PastHeader
<1>17. CASE CloseStray
  BY <1>17 DEF CloseStray
<1>18. CASE RestoreDefault
  BY <1>18 DEF RestoreDefault, KeepDefault
<1>19. CASE RestoreAndRaise
  BY <1>19 DEF RestoreAndRaise, LeavesWindow, KeepDefault, Refuses, Raises, Ends
<1>20. CASE RejectCreated
  BY <1>20 DEF RejectCreated, Rejects, RemovesCreated, LeavesCreated, Weak, Refuses, Raises, Ends
<1>21. CASE AcceptCreated
  BY <1>21 DEF AcceptCreated, Accepts, Weak
<1>22. CASE AccessFails
  BY <1>22 DEF AccessFails, Raises, Ends, Usable
<1>23. CASE Store
  BY <1>23 DEF Store, Returns, Ends, Usable
<1>24. CASE Read
  BY <1>24 DEF Read, Returns, Ends, Usable
<1>25. CASE Delete
  BY <1>25 DEF Delete, Returns, Ends, Usable
<1>26. CASE ProcessEnds
  BY <1>26 DEF ProcessEnds, Ends, Abandoned
<1>27. CASE Locks
  BY <1>27 DEF Locks
<1>28. CASE Relogin
  BY <1>28 DEF Relogin
<1>29. CASE MoveAway
  BY <1>29 DEF MoveAway
<1>30. CASE MoveBack
  BY <1>30 DEF MoveBack
<1>31. CASE RemoveTwin
  BY <1>31 DEF RemoveTwin
<1> QED
  BY <1>1, <1>2, <1>3, <1>4, <1>5, <1>6, <1>7, <1>8, <1>9, <1>10, <1>11, <1>12, <1>13,
     <1>14, <1>15, <1>16, <1>17, <1>18, <1>19, <1>20, <1>21, <1>22, <1>23, <1>24, <1>25,
     <1>26, <1>27, <1>28, <1>29, <1>30, <1>31 DEF Next

\* No step accepts a bare keyring or fills a GPG wallet unmarked.
LEMMA FileStep == LVInv /\ [Next]_vars => FileInv'
<1> SUFFICES ASSUME LVInv, [Next]_vars PROVE FileInv'
  OBVIOUS
<1> USE NullAssumption DEF LVInv, Data, OpenInv, FileInv, ToAnEntry, Places,
        vars, providerVars, vaultVars, deskVars, entryVars, callVars, askVars, procVars
<1>1. CASE UNCHANGED vars
  BY <1>1
<1>2. ASSUME NEW r \in Refs, StartCall(r) PROVE FileInv'
  BY <1>2 DEF StartCall, StartSet, StartGet, StartDelete
<1>3. CASE DeleteFromMissing
  BY <1>3 DEF DeleteFromMissing, Returns, Ends
<1>4. CASE NotReady
  BY <1>4 DEF NotReady, Raises, Ends, Reaches
<1>5. CASE RefusesGpg
  BY <1>5 DEF RefusesGpg, Refuses, Raises, Ends, Reaches
<1>6. CASE RefusesGhost
  BY <1>6 DEF RefusesGhost, Refuses, Raises, Ends, Reaches
<1>7. CASE Ready
  BY <1>7 DEF Ready, Reaches, Missing, Ambiguous, NoGpgSeen, Leads
<1>8. CASE NoTerminal
  BY <1>8 DEF NoTerminal, Refuses, Raises, Ends
<1>9. CASE Ask
  BY <1>9 DEF Ask
<1>10. CASE OpenedWithoutWindow
  BY <1>10 DEF OpenedWithoutWindow, Opens
<1>11. CASE UserAnswers
  BY <1>11 DEF UserAnswers, Answered, Creates, Opens, PastHeader
<1>12. CASE UserDismisses
  BY <1>12 DEF UserDismisses
<1>13. CASE NoAnswer
  BY <1>13 DEF NoAnswer
<1>14. CASE WindowFails
  BY <1>14 DEF WindowFails, Abandoned
<1>15. CASE DismissWindow
  BY <1>15 DEF DismissWindow, Abandoned
<1>16. CASE LateAnswer
  BY <1>16 DEF LateAnswer, Answered, Creates, Opens, PastHeader
<1>17. CASE CloseStray
  BY <1>17 DEF CloseStray
<1>18. CASE RestoreDefault
  BY <1>18 DEF RestoreDefault, KeepDefault
<1>19. CASE RestoreAndRaise
  BY <1>19 DEF RestoreAndRaise, LeavesWindow, KeepDefault, Refuses, Raises, Ends
<1>20. CASE RejectCreated
  BY <1>20 DEF RejectCreated, Rejects, RemovesCreated, LeavesCreated, Weak, Refuses, Raises, Ends
<1>21. CASE AcceptCreated
  BY <1>21 DEF AcceptCreated, Accepts, Weak
<1>22. CASE AccessFails
  BY <1>22 DEF AccessFails, Raises, Ends, Usable
<1>23. CASE Store
  BY <1>23 DEF Store, Returns, Ends, Usable
<1>24. CASE Read
  BY <1>24 DEF Read, Returns, Ends, Usable
<1>25. CASE Delete
  BY <1>25 DEF Delete, Returns, Ends, Usable
<1>26. CASE ProcessEnds
  BY <1>26 DEF ProcessEnds, Ends, Abandoned
<1>27. CASE Locks
  BY <1>27 DEF Locks
<1>28. CASE Relogin
  BY <1>28 DEF Relogin
<1>29. CASE MoveAway
  BY <1>29 DEF MoveAway
<1>30. CASE MoveBack
  BY <1>30 DEF MoveBack
<1>31. CASE RemoveTwin
  BY <1>31 DEF RemoveTwin
<1> QED
  BY <1>1, <1>2, <1>3, <1>4, <1>5, <1>6, <1>7, <1>8, <1>9, <1>10, <1>11, <1>12, <1>13,
     <1>14, <1>15, <1>16, <1>17, <1>18, <1>19, <1>20, <1>21, <1>22, <1>23, <1>24, <1>25,
     <1>26, <1>27, <1>28, <1>29, <1>30, <1>31 DEF Next

\* Every end of a window puts the default back, or marks that it did not.
LEMMA DefaultStep == LVInv /\ [Next]_vars => DefaultInv'
<1> SUFFICES ASSUME LVInv, [Next]_vars PROVE DefaultInv'
  OBVIOUS
<1> USE NullAssumption DEF LVInv, Flags, Data, DefaultInv, DefaultIsKept, Guarded,
        vars, providerVars, vaultVars, deskVars, entryVars, callVars, askVars, procVars
<1>1. CASE UNCHANGED vars
  BY <1>1
<1>2. ASSUME NEW r \in Refs, StartCall(r) PROVE DefaultInv'
  BY <1>2 DEF StartCall, StartSet, StartGet, StartDelete
<1>3. CASE DeleteFromMissing
  BY <1>3 DEF DeleteFromMissing, Returns, Ends
<1>4. CASE NotReady
  BY <1>4 DEF NotReady, Raises, Ends, Reaches
<1>5. CASE RefusesGpg
  BY <1>5 DEF RefusesGpg, Refuses, Raises, Ends, Reaches
<1>6. CASE RefusesGhost
  BY <1>6 DEF RefusesGhost, Refuses, Raises, Ends, Reaches
<1>7. CASE Ready
  BY <1>7 DEF Ready, Reaches, Missing, Ambiguous, NoGpgSeen, Leads
<1>8. CASE NoTerminal
  BY <1>8 DEF NoTerminal, Refuses, Raises, Ends
<1>9. CASE Ask
  BY <1>9 DEF Ask
<1>10. CASE OpenedWithoutWindow
  BY <1>10 DEF OpenedWithoutWindow, Opens
<1>11. CASE UserAnswers
  BY <1>11 DEF UserAnswers, Answered, Creates, Opens
<1>12. CASE UserDismisses
  BY <1>12 DEF UserDismisses
<1>13. CASE NoAnswer
  BY <1>13 DEF NoAnswer
<1>14. CASE WindowFails
  BY <1>14 DEF WindowFails, Abandoned
<1>15. CASE DismissWindow
  BY <1>15 DEF DismissWindow, Abandoned
<1>16. CASE LateAnswer
  BY <1>16 DEF LateAnswer, Answered, Creates, Opens
<1>17. CASE CloseStray
  BY <1>17 DEF CloseStray
<1>18. CASE RestoreDefault
  BY <1>18 DEF RestoreDefault, KeepDefault
<1>19. CASE RestoreAndRaise
  BY <1>19 DEF RestoreAndRaise, LeavesWindow, KeepDefault, Refuses, Raises, Ends
<1>20. CASE RejectCreated
  BY <1>20 DEF RejectCreated, Rejects, RemovesCreated, LeavesCreated, Weak, Refuses, Raises, Ends
<1>21. CASE AcceptCreated
  BY <1>21 DEF AcceptCreated, Accepts, Weak
<1>22. CASE AccessFails
  BY <1>22 DEF AccessFails, Raises, Ends, Usable
<1>23. CASE Store
  BY <1>23 DEF Store, Returns, Ends, Usable
<1>24. CASE Read
  BY <1>24 DEF Read, Returns, Ends, Usable
<1>25. CASE Delete
  BY <1>25 DEF Delete, Returns, Ends, Usable
<1>26. CASE ProcessEnds
  BY <1>26 DEF ProcessEnds, Ends, Abandoned
<1>27. CASE Locks
  BY <1>27 DEF Locks
<1>28. CASE Relogin
  BY <1>28 DEF Relogin
<1>29. CASE MoveAway
  BY <1>29 DEF MoveAway
<1>30. CASE MoveBack
  BY <1>30 DEF MoveBack
<1>31. CASE RemoveTwin
  BY <1>31 DEF RemoveTwin
<1> QED
  BY <1>1, <1>2, <1>3, <1>4, <1>5, <1>6, <1>7, <1>8, <1>9, <1>10, <1>11, <1>12, <1>13,
     <1>14, <1>15, <1>16, <1>17, <1>18, <1>19, <1>20, <1>21, <1>22, <1>23, <1>24, <1>25,
     <1>26, <1>27, <1>28, <1>29, <1>30, <1>31 DEF Next

\* No step changes the credential of a call.
LEMMA CallStep == LVInv /\ [Next]_vars => CallInv'
<1> SUFFICES ASSUME LVInv, [Next]_vars PROVE CallInv'
  OBVIOUS
<1> USE NullAssumption DEF LVInv, Data, CallInv,
        vars, providerVars, vaultVars, deskVars, entryVars, callVars, askVars, procVars
<1>1. CASE UNCHANGED vars
  BY <1>1
<1>2. ASSUME NEW r \in Refs, StartCall(r) PROVE CallInv'
  BY <1>2 DEF StartCall, StartSet, StartGet, StartDelete
<1>3. CASE DeleteFromMissing
  BY <1>3 DEF DeleteFromMissing, Returns, Ends
<1>4. CASE NotReady
  BY <1>4 DEF NotReady, Raises, Ends, Reaches
<1>5. CASE RefusesGpg
  BY <1>5 DEF RefusesGpg, Refuses, Raises, Ends, Reaches
<1>6. CASE RefusesGhost
  BY <1>6 DEF RefusesGhost, Refuses, Raises, Ends, Reaches
<1>7. CASE Ready
  BY <1>7 DEF Ready, Reaches, Missing, Ambiguous, NoGpgSeen, Leads
<1>8. CASE NoTerminal
  BY <1>8 DEF NoTerminal, Refuses, Raises, Ends
<1>9. CASE Ask
  BY <1>9 DEF Ask
<1>10. CASE OpenedWithoutWindow
  BY <1>10 DEF OpenedWithoutWindow, Opens
<1>11. CASE UserAnswers
  BY <1>11 DEF UserAnswers, Answered, Creates, Opens
<1>12. CASE UserDismisses
  BY <1>12 DEF UserDismisses
<1>13. CASE NoAnswer
  BY <1>13 DEF NoAnswer
<1>14. CASE WindowFails
  BY <1>14 DEF WindowFails, Abandoned
<1>15. CASE DismissWindow
  BY <1>15 DEF DismissWindow, Abandoned
<1>16. CASE LateAnswer
  BY <1>16 DEF LateAnswer, Answered, Creates, Opens
<1>17. CASE CloseStray
  BY <1>17 DEF CloseStray
<1>18. CASE RestoreDefault
  BY <1>18 DEF RestoreDefault, KeepDefault
<1>19. CASE RestoreAndRaise
  BY <1>19 DEF RestoreAndRaise, LeavesWindow, KeepDefault, Refuses, Raises, Ends
<1>20. CASE RejectCreated
  BY <1>20 DEF RejectCreated, Rejects, RemovesCreated, LeavesCreated, Weak, Refuses, Raises, Ends
<1>21. CASE AcceptCreated
  BY <1>21 DEF AcceptCreated, Accepts, Weak
<1>22. CASE AccessFails
  BY <1>22 DEF AccessFails, Raises, Ends, Usable
<1>23. CASE Store
  BY <1>23 DEF Store, Returns, Ends, Usable
<1>24. CASE Read
  BY <1>24 DEF Read, Returns, Ends, Usable
<1>25. CASE Delete
  BY <1>25 DEF Delete, Returns, Ends, Usable
<1>26. CASE ProcessEnds
  BY <1>26 DEF ProcessEnds, Ends, Abandoned
<1>27. CASE Locks
  BY <1>27 DEF Locks
<1>28. CASE Relogin
  BY <1>28 DEF Relogin
<1>29. CASE MoveAway
  BY <1>29 DEF MoveAway
<1>30. CASE MoveBack
  BY <1>30 DEF MoveBack
<1>31. CASE RemoveTwin
  BY <1>31 DEF RemoveTwin
<1> QED
  BY <1>1, <1>2, <1>3, <1>4, <1>5, <1>6, <1>7, <1>8, <1>9, <1>10, <1>11, <1>12, <1>13,
     <1>14, <1>15, <1>16, <1>17, <1>18, <1>19, <1>20, <1>21, <1>22, <1>23, <1>24, <1>25,
     <1>26, <1>27, <1>28, <1>29, <1>30, <1>31 DEF Next

\* No step removes a vault that holds a needed credential.
LEMMA KeptStep == LVInv /\ [Next]_vars => KeptInv'
<1> SUFFICES ASSUME LVInv, [Next]_vars PROVE KeptInv'
  OBVIOUS
<1> USE NullAssumption DEF LVInv, Data, RefusedInv, CallInv, FileInv, KeptInv, Places,
        vars, providerVars, vaultVars, deskVars, entryVars, callVars, askVars, procVars
<1>1. CASE UNCHANGED vars
  BY <1>1
<1>2. ASSUME NEW r \in Refs, StartCall(r) PROVE KeptInv'
  BY <1>2 DEF StartCall, StartSet, StartGet, StartDelete
<1>3. CASE DeleteFromMissing
  BY <1>3 DEF DeleteFromMissing, Returns, Ends
<1>4. CASE NotReady
  BY <1>4 DEF NotReady, Raises, Ends, Reaches
<1>5. CASE RefusesGpg
  BY <1>5 DEF RefusesGpg, Refuses, Raises, Ends, Reaches
<1>6. CASE RefusesGhost
  BY <1>6 DEF RefusesGhost, Refuses, Raises, Ends, Reaches
<1>7. CASE Ready
  BY <1>7 DEF Ready, Reaches, Missing, Ambiguous, NoGpgSeen, Leads
<1>8. CASE NoTerminal
  BY <1>8 DEF NoTerminal, Refuses, Raises, Ends
<1>9. CASE Ask
  BY <1>9 DEF Ask
<1>10. CASE OpenedWithoutWindow
  BY <1>10 DEF OpenedWithoutWindow, Opens
<1>11. CASE UserAnswers
  BY <1>11 DEF UserAnswers, Answered, Creates, Opens, PastHeader
<1>12. CASE UserDismisses
  BY <1>12 DEF UserDismisses
<1>13. CASE NoAnswer
  BY <1>13 DEF NoAnswer
<1>14. CASE WindowFails
  BY <1>14 DEF WindowFails, Abandoned
<1>15. CASE DismissWindow
  BY <1>15 DEF DismissWindow, Abandoned
<1>16. CASE LateAnswer
  BY <1>16 DEF LateAnswer, Answered, Creates, Opens, PastHeader
<1>17. CASE CloseStray
  BY <1>17 DEF CloseStray
<1>18. CASE RestoreDefault
  BY <1>18 DEF RestoreDefault, KeepDefault
<1>19. CASE RestoreAndRaise
  BY <1>19 DEF RestoreAndRaise, LeavesWindow, KeepDefault, Refuses, Raises, Ends
<1>20. CASE RejectCreated
  BY <1>20 DEF RejectCreated, Rejects, RemovesCreated, LeavesCreated, Weak, Refuses, Raises, Ends
<1>21. CASE AcceptCreated
  BY <1>21 DEF AcceptCreated, Accepts, Weak
<1>22. CASE AccessFails
  BY <1>22 DEF AccessFails, Raises, Ends, Usable
<1>23. CASE Store
  BY <1>23 DEF Store, Returns, Ends, Usable
<1>24. CASE Read
  BY <1>24 DEF Read, Returns, Ends, Usable
<1>25. CASE Delete
  BY <1>25 DEF Delete, Returns, Ends, Usable
<1>26. CASE ProcessEnds
  BY <1>26 DEF ProcessEnds, Ends, Abandoned
<1>27. CASE Locks
  BY <1>27 DEF Locks
<1>28. CASE Relogin
  BY <1>28 DEF Relogin
<1>29. CASE MoveAway
  BY <1>29 DEF MoveAway
<1>30. CASE MoveBack
  BY <1>30 DEF MoveBack
<1>31. CASE RemoveTwin
  BY <1>31 DEF RemoveTwin
<1> QED
  BY <1>1, <1>2, <1>3, <1>4, <1>5, <1>6, <1>7, <1>8, <1>9, <1>10, <1>11, <1>12, <1>13,
     <1>14, <1>15, <1>16, <1>17, <1>18, <1>19, <1>20, <1>21, <1>22, <1>23, <1>24, <1>25,
     <1>26, <1>27, <1>28, <1>29, <1>30, <1>31 DEF Next

-----------------------------------------------------------------------------
(* The theorems *)

\* The inductive invariant holds in every reachable state.
THEOREM Invariance == Spec => []LVInv
<1>1. Init => LVInv
  <2> SUFFICES ASSUME Init PROVE LVInv
    OBVIOUS
  <2>1. Flags
    BY DEF Init, Flags
  <2>2. Data
    BY DEF Init, Data, Lives, Places
  <2>3. RefusedInv /\ OpenInv /\ FileInv /\ CallInv
    BY DEF Init, RefusedInv, OpenInv, ToAnEntry, FileInv, CallInv
  <2>4. DefaultInv
    <3>1. firstUse \in {kde, FALSE} /\ default = "login" /\ previous = "login"
      BY DEF Init
    <3>2. kde \in BOOLEAN /\ firstUse \in BOOLEAN
      BY DEF Init
    <3>3. firstUse => kde
      BY <3>1, <3>2
    <3> QED
      BY <3>1, <3>3 DEF DefaultInv, DefaultIsKept
  <2>5. KeptInv
    <3>1. \A r \in Refs : life[r] = "unused"
      BY DEF Init
    <3> QED
      BY <3>1 DEF Init, KeptInv
  <2> QED
    BY <2>1, <2>2, <2>3, <2>4, <2>5 DEF LVInv
<1>2. LVInv /\ [Next]_vars => LVInv'
  BY FlagsStep, DataStep, RefusedStep, OpenStep, FileStep, DefaultStep, CallStep, KeptStep
     DEF LVInv
<1> QED
  BY <1>1, <1>2, PTL DEF Spec

\* Every variable keeps its type.
THEOREM TypeCorrect == Spec => []TypeOK
<1>1. LVInv => TypeOK
  BY DEF LVInv, Flags, Data, TypeOK
<1> QED
  BY <1>1, Invariance, PTL

\* A process that got no good answer to a window never shows another one: one
\* cancelled window ends a loop over any number of credentials.
THEOREM OneRefusal == Spec => []AskedOnce
<1>1. LVInv => AskedOnce
  BY DEF LVInv, RefusedInv, AskedOnce
<1> QED
  BY <1>1, Invariance, PTL

\* After a call that ended, however its window did, the vault is KDE's default
\* only where no `finally` could change it.
THEOREM DefaultsAreKept == Spec => []DefaultIsKept
<1>1. LVInv => DefaultIsKept
  BY DEF LVInv, DefaultInv
<1> QED
  BY <1>1, Invariance, PTL

\* A keyring without a password or a GPG wallet holds a credential only when
\* no check has seen its header, whatever late answers make and whenever the
\* file is moved.
THEOREM StoresAreProtected == Spec => []StoredUnderPassword
<1>1. LVInv => StoredUnderPassword
  BY DEF LVInv, FileInv, StoredUnderPassword
<1> QED
  BY <1>1, Invariance, PTL

\* The check of a new vault never takes a stored credential with it, unless a
\* call had stored it in a GPG wallet whose header it could not read.
THEOREM StoredAreKept == Spec => []StoredIsKept
<1>1. LVInv => StoredIsKept
  BY DEF LVInv, KeptInv, StoredIsKept
<1> QED
  BY <1>1, Invariance, PTL
=============================================================================
