----------------------------- MODULE MacosVault -----------------------------
(***************************************************************************)
(* The macOS credential vault: a keychain file that is reached one         *)
(* `/usr/bin/security` command at a time (macos_vault.py).                 *)
(*                                                                         *)
(* A value is split into pieces.  Piece 0 is the head, which also holds    *)
(* the number of pieces; the others are entries of their own.  One process *)
(* at a time calls the vault, since every caller that stores or deletes    *)
(* holds the maintenance lock; it may be killed between any two commands,  *)
(* and the keychain may lock, unlock or disappear under it.  `life` is     *)
(* what the caller's journal and profiles know of a reference: a reference *)
(* is never stored twice, and its deletion is repeated until `delete` has  *)
(* returned.                                                               *)
(***************************************************************************)
EXTENDS Naturals, FiniteSetsExt

CONSTANTS Refs,
          MaxPieces,       \* bound: pieces of one value (MAX_PIECES)
          UnlockAttempts,  \* UNLOCK_ATTEMPTS
          Orphans,         \* whether `security -i` may outlive a killed kantrip
          NoRef

ASSUME BoundsAssumption ==
  MaxPieces \in Nat \ {0} /\ UnlockAttempts \in Nat \ {0} /\ Orphans \in BOOLEAN
ASSUME NullAssumption == NoRef \notin Refs

VARIABLES
  keychain,  \* missing, locked or unlocked
  blank,     \* its password is empty
  policy,    \* it locks after 15 minutes and on sleep
  listed,    \* it is in the keychain search list
  unsecured, \* history: a call that created it ended before SetPolicy
  items,     \* ref -> pieces the keychain holds
  size,      \* ref -> pieces its value needs, as the head says
  pending,   \* ref -> pieces a running `security -i` has still to write
  life,      \* ref -> what the callers know of it
  pc, op, ref,
  attempts,  \* unlock attempts left
  cursor,    \* the next piece to delete
  bad,       \* a command of the running batch failed
  refused,   \* _refusal of this process is set
  refusals   \* history: prompts this process had refused

vaultVars == <<keychain, blank, policy, listed, unsecured>>
entryVars == <<items, size, pending, life>>
callVars  == <<op, ref>>
workVars  == <<attempts, cursor, bad>>
askVars   == <<refused, refusals>>
vars == <<vaultVars, entryVars, pc, callVars, workVars, askVars>>

Pieces == 0..(MaxPieces - 1)
Calls == {"set", "get", "delete"}

\* `staged` references are journaled but not completely stored, `retired`
\* ones were; `lost` went with their vault.
Lives == {"unused", "staged", "stored", "retired", "lost", "erased", "discarded"}
Places == {"idle", "failed", "ready", "unlock", "create", "check", "secure",
           "list", "access", "batch", "descend", "ascend"}

Init ==
  /\ keychain = "missing"
  /\ blank = FALSE /\ policy = FALSE /\ listed = FALSE /\ unsecured = FALSE
  /\ items = [r \in Refs |-> {}]
  /\ size = [r \in Refs |-> 1]
  /\ pending = [r \in Refs |-> {}]
  /\ life = [r \in Refs |-> "unused"]
  /\ pc = "idle" /\ op = "none" /\ ref = NoRef
  /\ attempts = 0 /\ cursor = 0 /\ bad = FALSE
  /\ refused = FALSE /\ refusals = 0

Goes(from, to) == pc = from /\ pc' = to

\* The call raises.  Staging stops at the first value that cannot be stored;
\* the loops over deletions and over reads go on with the next reference.
Raises ==
  /\ pc' = IF op = "set" THEN "failed" ELSE "idle"
  /\ op' = "none" /\ ref' = NoRef
  /\ attempts' = 0 /\ cursor' = 0 /\ bad' = FALSE

Returns ==
  /\ pc' = "idle"
  /\ op' = "none" /\ ref' = NoRef
  /\ attempts' = 0 /\ cursor' = 0 /\ bad' = FALSE

-----------------------------------------------------------------------------
(* A call begins *)

Starts(o, r) ==
  /\ Goes("idle", "ready")
  /\ op' = o /\ ref' = r
  /\ UNCHANGED <<vaultVars, items, pending, workVars, askVars>>

StartSet(r, n) ==
  /\ life[r] = "unused"
  /\ Starts("set", r)
  /\ size' = [size EXCEPT ![r] = n]
  /\ life' = [life EXCEPT ![r] = "staged"]

StartGet(r) ==
  /\ life[r] \in {"stored", "lost"}
  /\ Starts("get", r)
  /\ UNCHANGED <<size, life>>

StartDelete(r) ==
  /\ life[r] \in {"staged", "stored", "retired", "lost"}
  /\ Starts("delete", r)
  /\ life' = [life EXCEPT ![r] = IF @ = "stored" THEN "retired" ELSE @]
  /\ UNCHANGED size

-----------------------------------------------------------------------------
(* _ready: no item is touched before the state of the vault is known *)

\* "A secret cannot outlive its vault."
Settled ==
  life' = [life EXCEPT ![ref] = IF @ = "retired" THEN "erased" ELSE "discarded"]

DeleteFromMissing ==
  /\ pc = "ready" /\ op = "delete" /\ keychain = "missing"
  /\ Settled
  /\ Returns
  /\ UNCHANGED <<vaultVars, items, size, pending, askVars>>

Reaches == pc = "ready" /\ ~(op = "delete" /\ keychain = "missing")

\* An earlier refusal, or a missing vault that may not be created.
NotReady ==
  /\ Reaches
  /\ refused \/ (keychain = "missing" /\ op = "get")
  /\ Raises
  /\ UNCHANGED <<vaultVars, entryVars, askVars>>

Ready ==
  /\ Reaches /\ ~refused
  /\ \/ keychain = "unlocked" /\ pc' = "access" /\ UNCHANGED attempts
     \/ keychain = "locked" /\ pc' = "unlock" /\ attempts' = UnlockAttempts
     \/ keychain = "missing" /\ op = "set" /\ pc' = "create" /\ UNCHANGED attempts
  /\ UNCHANGED <<vaultVars, entryVars, callVars, cursor, bad, askVars>>

Unlock ==
  /\ Goes("unlock", "access")
  /\ keychain # "missing"
  /\ keychain' = "unlocked"
  /\ UNCHANGED <<blank, policy, listed, unsecured, entryVars, callVars, workVars, askVars>>

WrongPassword ==
  /\ pc = "unlock" /\ attempts > 1
  /\ attempts' = attempts - 1
  /\ UNCHANGED <<vaultVars, entryVars, pc, callVars, cursor, bad, askVars>>

\* Mutant of UnlockRefused: the refusal is not remembered.
RefusalForgotten ==
  /\ pc = "unlock"
  /\ refusals' = refusals + 1
  /\ Raises
  /\ UNCHANGED <<vaultVars, entryVars, refused>>

\* The last attempt was wrong, the prompt was cancelled, or no terminal.
UnlockRefused ==
  /\ pc = "unlock"
  /\ refused' = TRUE
  /\ refusals' = refusals + 1
  /\ Raises
  /\ UNCHANGED <<vaultVars, entryVars>>

-----------------------------------------------------------------------------
(* _create and _secure_new_vault *)

CreateKeychain(empty) ==
  /\ Goes("create", "check")
  /\ keychain = "missing"
  /\ keychain' = "unlocked" /\ blank' = empty /\ policy' = FALSE
  /\ UNCHANGED <<listed, unsecured, entryVars, callVars, workVars, askVars>>

\* The result of delete-keychain is not looked at.
RejectBlank ==
  /\ pc = "check" /\ blank
  /\ \/ /\ keychain' = "missing" /\ blank' = FALSE /\ policy' = FALSE
        /\ items' = [r \in Refs |-> {}]
        /\ UNCHANGED unsecured
     \/ unsecured' = TRUE /\ UNCHANGED <<keychain, blank, policy, items>>
  /\ Raises
  /\ UNCHANGED <<listed, size, pending, life, askVars>>

\* Mutant of AcceptPassword: the empty password is not tried.
AcceptAny ==
  /\ Goes("check", "secure")
  /\ UNCHANGED <<vaultVars, entryVars, callVars, workVars, askVars>>

AcceptPassword ==
  /\ Goes("check", "secure") /\ ~blank
  /\ UNCHANGED <<vaultVars, entryVars, callVars, workVars, askVars>>

SetPolicy ==
  /\ Goes("secure", "list") /\ keychain = "unlocked"
  /\ policy' = TRUE
  /\ UNCHANGED <<keychain, blank, listed, unsecured, entryVars, callVars, workVars, askVars>>

AddToList ==
  /\ Goes("list", "access")
  /\ listed' = TRUE
  /\ UNCHANGED <<keychain, blank, policy, unsecured, entryVars, callVars, workVars, askVars>>

CreateFails ==
  /\ pc \in {"create", "secure", "list"}
  /\ unsecured' = (unsecured \/ pc = "secure")
  /\ Raises
  /\ UNCHANGED <<keychain, blank, policy, listed, entryVars, askVars>>

-----------------------------------------------------------------------------
(* Items *)

AccessFails ==
  /\ pc = "access"
  /\ Raises
  /\ UNCHANGED <<vaultVars, entryVars, askVars>>

\* One find per piece, each of which may fail.
Read ==
  /\ pc = "access" /\ op = "get"
  /\ Returns
  /\ UNCHANGED <<vaultVars, entryVars, askVars>>

StartBatch ==
  /\ op = "set" /\ Goes("access", "batch")
  /\ pending' = [pending EXCEPT ![ref] = 0..(size[ref] - 1)]
  /\ UNCHANGED <<vaultVars, items, size, life, callVars, workVars, askVars>>

\* Pieces in ascending order, the head last.
NextPiece(r) == IF pending[r] = {0} THEN 0 ELSE Min(pending[r] \ {0})

WritePiece(r) ==
  /\ pending[r] # {} /\ keychain = "unlocked"
  /\ items' = [items EXCEPT ![r] = @ \cup {NextPiece(r)}]
  /\ pending' = [pending EXCEPT ![r] = @ \ {NextPiece(r)}]
  /\ UNCHANGED <<vaultVars, size, life, pc, callVars, workVars, askVars>>

\* `security -i` goes on with its next line.
WritePieceFails(r) ==
  /\ pending[r] # {}
  /\ pending' = [pending EXCEPT ![r] = @ \ {NextPiece(r)}]
  /\ bad' = (bad \/ (pc = "batch" /\ r = ref))
  /\ UNCHANGED <<vaultVars, items, size, life, pc, callVars, attempts, cursor, askVars>>

\* Mutant of BatchFailed: only the exit status is looked at, which is 0.
ExitStatusOnly == FALSE

\* `security -i` exits 0 even when a command fails; its stderr tells.
BatchFailed == bad

EndBatch ==
  /\ pc = "batch" /\ pending[ref] = {}
  /\ IF BatchFailed THEN Raises /\ UNCHANGED life
     ELSE Returns /\ life' = [life EXCEPT ![ref] = "stored"]
  /\ UNCHANGED <<vaultVars, items, size, pending, askVars>>

\* delete: with a head from the last piece down to the head, without one
\* from piece 1 up to the first that is not there.
FindHead ==
  /\ pc = "access" /\ op = "delete"
  /\ IF 0 \in items[ref]
     THEN pc' = "descend" /\ cursor' = size[ref] - 1
     ELSE pc' = "ascend" /\ cursor' = 1
  /\ UNCHANGED <<vaultVars, entryVars, callVars, attempts, bad, askVars>>

DeletesPiece(i) ==
  /\ keychain = "unlocked"
  /\ items' = [items EXCEPT ![ref] = @ \ {i}]
  /\ UNCHANGED <<vaultVars, size, pending, askVars>>

\* Mutant of Descend: the head goes first, the last piece last.
HeadFirst ==
  /\ pc = "descend"
  /\ DeletesPiece(size[ref] - 1 - cursor)
  /\ IF cursor = 0 THEN Settled /\ Returns
     ELSE /\ cursor' = cursor - 1
          /\ UNCHANGED <<life, pc, callVars, attempts, bad>>

Descend ==
  /\ pc = "descend"
  /\ DeletesPiece(cursor)
  /\ IF cursor = 0 THEN Settled /\ Returns
     ELSE /\ cursor' = cursor - 1
          /\ UNCHANGED <<life, pc, callVars, attempts, bad>>

Ascend ==
  /\ pc = "ascend"
  /\ DeletesPiece(cursor)
  /\ IF cursor \notin items[ref] THEN Settled /\ Returns
     ELSE /\ cursor' = cursor + 1
          /\ UNCHANGED <<life, pc, callVars, attempts, bad>>

DeleteFails ==
  /\ pc \in {"descend", "ascend"}
  /\ Raises
  /\ UNCHANGED <<vaultVars, entryVars, askVars>>

-----------------------------------------------------------------------------
(* Around the calls *)

\* A process ends, or is interrupted or killed between two commands; the
\* batch it was waiting for dies with it or goes on.
ProcessEnds ==
  /\ pc' = "idle" /\ op' = "none" /\ ref' = NoRef
  /\ attempts' = 0 /\ cursor' = 0 /\ bad' = FALSE
  /\ refused' = FALSE /\ refusals' = 0
  /\ \/ pc # "batch" /\ UNCHANGED pending
     \/ pc = "batch" /\ Orphans /\ UNCHANGED pending
     \/ pc = "batch" /\ pending' = [pending EXCEPT ![ref] = {}]
  /\ unsecured' = (unsecured \/ pc \in {"check", "secure"})
  /\ UNCHANGED <<keychain, blank, policy, listed, items, size, life>>

\* doctor --repair, when the vault is gone but still listed.
ForgetMissingVault ==
  /\ pc = "idle" /\ keychain = "missing" /\ listed
  /\ listed' = FALSE
  /\ UNCHANGED <<keychain, blank, policy, unsecured, entryVars, pc, callVars, workVars, askVars>>

\* Fifteen idle minutes, sleep, or the user at another terminal.
LockChanges ==
  /\ keychain # "missing"
  /\ keychain' \in {"locked", "unlocked"}
  /\ UNCHANGED <<blank, policy, listed, unsecured, entryVars, pc, callVars, workVars, askVars>>

\* The user deletes the keychain, with `security` or as a file.
KeychainRemoved ==
  /\ pc = "idle" /\ keychain # "missing"
  /\ keychain' = "missing" /\ blank' = FALSE /\ policy' = FALSE /\ unsecured' = FALSE
  /\ listed' \in {listed, FALSE}
  /\ items' = [r \in Refs |-> {}]
  /\ life' = [r \in Refs |-> IF life[r] = "stored" THEN "lost" ELSE life[r]]
  /\ UNCHANGED <<size, pending, pc, callVars, workVars, askVars>>

Next ==
  \/ \E r \in Refs, n \in 1..MaxPieces : StartSet(r, n)
  \/ \E r \in Refs : StartGet(r) \/ StartDelete(r)
  \/ DeleteFromMissing \/ NotReady \/ Ready
  \/ Unlock \/ WrongPassword \/ UnlockRefused
  \/ \E empty \in BOOLEAN : CreateKeychain(empty)
  \/ RejectBlank \/ AcceptPassword \/ SetPolicy \/ AddToList \/ CreateFails
  \/ AccessFails \/ Read \/ StartBatch
  \/ \E r \in Refs : WritePiece(r) \/ WritePieceFails(r)
  \/ EndBatch \/ FindHead \/ Descend \/ Ascend \/ DeleteFails
  \/ ProcessEnds \/ ForgetMissingVault \/ LockChanges \/ KeychainRemoved

Spec == Init /\ [][Next]_vars

-----------------------------------------------------------------------------
(* Properties *)

\* Every variable has its type.
TypeOK ==
  /\ keychain \in {"missing", "locked", "unlocked"}
  /\ blank \in BOOLEAN /\ policy \in BOOLEAN /\ listed \in BOOLEAN
  /\ unsecured \in BOOLEAN
  /\ items \in [Refs -> SUBSET Pieces]
  /\ size \in [Refs -> 1..MaxPieces]
  /\ pending \in [Refs -> SUBSET Pieces]
  /\ life \in [Refs -> Lives]
  /\ pc \in Places /\ op \in Calls \cup {"none"} /\ ref \in Refs \cup {NoRef}
  /\ attempts \in 0..UnlockAttempts /\ cursor \in 0..MaxPieces
  /\ bad \in BOOLEAN /\ refused \in BOOLEAN /\ refusals \in Nat

\* A value whose `set` returned is there with every piece, although the batch
\* that wrote it goes on after a failed command and exits 0.
StoredReadsWhole ==
  \A r \in Refs : life[r] = "stored" => items[r] = 0..(size[r] - 1)

\* Of a value that was stored completely nothing is left once a `delete` of
\* it has returned, however often deletions were interrupted before.
RetiredIsGone == \A r \in Refs : life[r] = "erased" => items[r] = {}

\* "A refused, cancelled, or unanswered prompt is final for the process": a
\* loop over several credentials does not prompt again for each one.
RefusedOnce == refusals <= 1

\* "Idempotently delete one exact credential entry", also one whose write
\* was interrupted: the journal record is dropped when `delete` returns.
DiscardedIsGone == \A r \in Refs : life[r] = "discarded" => items[r] = {}

\* "An empty password is refused and the new vault is removed", "The vault
\* locks after 15 idle minutes and when the Mac sleeps": every value is stored
\* in such a vault, unless the call that created the vault was itself cut short
\* (or its delete-keychain failed) and left one that later calls take as it is.
StoredInSecuredVault ==
  \A r \in Refs : life[r] = "stored" => unsecured \/ (~blank /\ policy)
=============================================================================
