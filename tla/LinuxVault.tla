------------------------------ MODULE LinuxVault ------------------------------
(***************************************************************************)
(* The Linux credential vault: a collection of the desktop's Secret        *)
(* Service (linux_vault.py), which asks for its password in a window.      *)
(*                                                                         *)
(* The provider, its windows and its files are external.  One process at a *)
(* time calls the vault, since every caller that stores or deletes holds   *)
(* the maintenance lock; it may be killed between any two D-Bus calls.  The *)
(* user may answer, ignore or cancel a window, move the vault's file away  *)
(* and back, or lock the vault at any moment, and log out between calls.   *)
(***************************************************************************)
EXTENDS Naturals

CONSTANTS Refs, NoRef

ASSUME NullAssumption == NoRef \notin Refs

VARIABLES
  kde,       \* the provider is KDE Wallet, not GNOME Keyring
  firstUse,  \* KDE makes a wallet it creates or opens the default one
  vault,     \* none, safe, bare (GNOME, empty password) or gpg (KDE)
  away,      \* what the moved vault file holds, or none
  listed,    \* the provider lists the vault
  twin,      \* GNOME: another keyring has its label or its path
  locked,
  default,   \* the default collection: vault or login
  stray,     \* windows nobody waits for any more
  items,     \* references with an entry in the vault's file
  life,      \* ref -> what the callers know of it
  terminal,  \* this process has a controlling terminal
  pc, op, ref,
  asked,     \* the window this process waits for
  previous,  \* the default collection before the window
  outcome,   \* how the window ended for the call
  refused,   \* _refusal of this process is set
  refusals,  \* history: windows of this process without a good answer
  unchecked, \* history: the vault was created and never checked
  unseen,    \* history: a call passed a header it could not read, or that
             \* was written after it had looked
  unkept     \* history: the vault became the default where nothing undid it

providerVars == <<kde, firstUse>>
vaultVars    == <<vault, away, listed, twin, locked, unchecked, unseen>>
deskVars     == <<default, stray, unkept>>
entryVars    == <<items, life>>
callVars     == <<op, ref>>
askVars      == <<asked, previous, outcome>>
procVars     == <<terminal, refused, refusals>>
vars == <<providerVars, vaultVars, deskVars, entryVars, pc, callVars, askVars,
          procVars>>

Lives  == {"unused", "staged", "stored", "retired", "erased", "dropped", "lost"}
Places == {"idle", "failed", "ready", "create", "unlock", "waiting",
           "dismissing", "restore", "check", "access"}

\* The places of a call that has looked at the header of the vault, and those
\* inside _default_kept.
PastHeader == Places \ {"idle", "failed", "ready"}
Guarded    == {"waiting", "dismissing", "restore"}

Init ==
  /\ kde \in BOOLEAN /\ firstUse \in {kde, FALSE}
  /\ vault = "none" /\ away = "none" /\ listed = FALSE /\ twin = FALSE
  /\ locked = FALSE /\ unchecked = FALSE /\ unseen = FALSE
  /\ default = "login" /\ stray = {} /\ unkept = FALSE
  /\ items = {} /\ life = [r \in Refs |-> "unused"]
  /\ pc = "idle" /\ op = "none" /\ ref = NoRef
  /\ asked = "none" /\ previous = "login" /\ outcome = "none"
  /\ terminal \in BOOLEAN /\ refused = FALSE /\ refusals = 0

\* The call is over; staging stops at the first value that cannot be stored.
Ends(place) ==
  /\ pc' = place
  /\ op' = "none" /\ ref' = NoRef
  /\ asked' = "none" /\ previous' = "login" /\ outcome' = "none"

Returns == Ends("idle")
Raises  == Ends(IF op = "set" THEN "failed" ELSE "idle")

\* A VaultError on the way to an open vault is kept for the process.
Refuses == Raises /\ refused' = TRUE /\ UNCHANGED <<terminal, refusals>>

-----------------------------------------------------------------------------
(* A call begins *)

StartSet(r) ==
  /\ life[r] = "unused"
  /\ op' = "set" /\ life' = [life EXCEPT ![r] = "staged"]

StartGet(r) ==
  /\ life[r] \in {"stored", "lost"}
  /\ op' = "get" /\ UNCHANGED life

StartDelete(r) ==
  /\ life[r] \in {"staged", "stored", "retired", "lost"}
  /\ op' = "delete"
  /\ life' = [life EXCEPT ![r] = IF @ = "stored" THEN "retired" ELSE @]

StartCall(r) ==
  /\ pc = "idle" /\ pc' = "ready"
  /\ StartSet(r) \/ StartGet(r) \/ StartDelete(r)
  /\ ref' = r
  /\ UNCHANGED <<providerVars, vaultVars, deskVars, items, askVars, procVars>>

-----------------------------------------------------------------------------
(* _locate and _ready *)

\* GNOME: "Kantrip cannot tell which keyring is its vault".
Ambiguous == ~kde /\ twin

Missing == vault = "none" \/ ~listed

\* delete: "A secret cannot outlive its vault; retiring it is already done."
DeleteFromMissing ==
  /\ pc = "ready" /\ op = "delete" /\ ~Ambiguous /\ Missing
  /\ life' = [life EXCEPT ![ref] = "dropped"]
  /\ Returns
  /\ UNCHANGED <<providerVars, vaultVars, deskVars, items, procVars>>

Reaches == pc = "ready" /\ ~(op = "delete" /\ ~Ambiguous /\ Missing)

\* An earlier refusal; two candidates; a missing vault that is not created.
NotReady ==
  /\ Reaches
  /\ refused \/ Ambiguous \/ (Missing /\ op # "set")
  /\ Raises
  /\ UNCHANGED <<providerVars, vaultVars, deskVars, entryVars, procVars>>

\* The header of the wallet file is looked at, whatever the state.
RefusesGpg ==
  /\ Reaches /\ ~refused /\ vault = "gpg"
  /\ Refuses
  /\ UNCHANGED <<providerVars, vaultVars, deskVars, entryVars>>

\* KDE lists a wallet whose file is gone.
RefusesGhost ==
  /\ Reaches /\ ~refused /\ vault = "none" /\ listed /\ op = "set"
  /\ Refuses
  /\ UNCHANGED <<providerVars, vaultVars, deskVars, entryVars>>

\* Where an open, a locked and a missing vault lead.
Leads ==
  /\ \/ ~Missing /\ ~locked /\ pc' = "access"
     \/ ~Missing /\ locked /\ pc' = "unlock"
     \/ Missing /\ ~listed /\ op = "set" /\ pc' = "create"
  /\ UNCHANGED <<providerVars, vault, away, listed, twin, locked, unchecked, deskVars,
                 entryVars, callVars, askVars, procVars>>

\* A header that cannot be read passes for one without GPG.
NoGpgSeen == unseen' = (unseen \/ vault = "gpg")

\* Mutant of Ready: an earlier refusal is not looked at.
ReadyAnyway == Reaches /\ ~Ambiguous /\ NoGpgSeen /\ Leads

Ready == Reaches /\ ~refused /\ ~Ambiguous /\ NoGpgSeen /\ Leads

-----------------------------------------------------------------------------
(* _create, _unlock and _answer *)

\* The provider opens or creates the vault.
Opens ==
  /\ locked' = FALSE
  /\ default' = IF firstUse THEN "vault" ELSE default

\* Without a terminal no window is shown.
NoTerminal ==
  /\ pc \in {"create", "unlock"} /\ ~terminal
  /\ Refuses
  /\ UNCHANGED <<providerVars, vaultVars, deskVars, entryVars>>

\* The window is shown after the default alias was read.
Ask ==
  /\ pc \in {"create", "unlock"} /\ terminal
  /\ asked' = IF pc = "create" THEN "creation" ELSE "unlock"
  /\ previous' = default
  /\ pc' = "waiting"
  /\ UNCHANGED <<providerVars, vaultVars, deskVars, entryVars, callVars, outcome,
                 procVars>>

\* An empty password, or one the desktop keeps: no prompt is needed.
OpenedWithoutWindow ==
  /\ pc = "unlock" /\ listed
  /\ Opens
  /\ previous' = default /\ outcome' = "opened" /\ pc' = "restore"
  /\ UNCHANGED <<providerVars, vault, away, listed, twin, unchecked, unseen, stray,
                 unkept, entryVars, callVars, asked, procVars>>

\* What a creation window makes: the vault, with or without protection; KDE
\* goes on with a wallet of that name; GNOME may find the file name taken, and
\* makes another keyring.
Creates(kind, where) ==
  \/ /\ where = "here" /\ vault = "none"
     /\ vault' = kind /\ away' = "none" /\ listed' = TRUE /\ unchecked' = TRUE
     /\ unseen' = (pc \in PastHeader)
     /\ items' = {}
     /\ life' = [r \in Refs |-> IF life[r] = "stored" THEN "lost" ELSE life[r]]
     /\ UNCHANGED twin
  \/ /\ where = "here" /\ kde /\ vault # "none"
     /\ UNCHANGED <<vault, away, listed, twin, unchecked, unseen, entryVars>>
  \/ /\ where = "elsewhere" /\ ~kde
     /\ twin' = TRUE
     /\ UNCHANGED <<vault, away, listed, unchecked, unseen, entryVars>>

Answered(window, where) ==
  /\ \/ /\ window = "creation"
        /\ \E kind \in {"safe", IF kde THEN "gpg" ELSE "bare"} : Creates(kind, where)
     \/ /\ window = "unlock"
        /\ UNCHANGED <<vault, away, listed, twin, unchecked, unseen, entryVars>>
  /\ Opens
  /\ UNCHANGED <<providerVars, callVars, procVars>>

UserAnswers ==
  /\ pc = "waiting" /\ asked # "none"
  /\ \E where \in {"here", "elsewhere"} :
       /\ Answered(asked, where)
       /\ outcome' = IF asked = "unlock" THEN "opened"
                     ELSE IF where = "elsewhere" THEN "elsewhere" ELSE "created"
  /\ pc' = "restore" /\ asked' = "none"
  /\ UNCHANGED <<previous, stray, unkept>>

\* Cancelled by the user, or never shown: dismissed at once.
UserDismisses ==
  /\ pc = "waiting"
  /\ outcome' = "refused" /\ pc' = "restore" /\ asked' = "none"
  /\ refusals' = refusals + 1
  /\ UNCHANGED <<providerVars, vaultVars, deskVars, entryVars, callVars, previous,
                 terminal, refused>>

\* Sixty seconds, or Ctrl-C.
NoAnswer ==
  /\ pc = "waiting"
  /\ pc' = "dismissing" /\ outcome' = "refused"
  /\ refusals' = refusals + 1
  /\ UNCHANGED <<providerVars, vaultVars, deskVars, entryVars, callVars, asked,
                 previous, terminal, refused>>

\* A window nobody waits for any more.
Abandoned == stray \cup ({asked} \ {"none"})

\* The provider fails under the window, which may stay: not a VaultError.
WindowFails ==
  /\ pc = "waiting"
  /\ outcome' = "failed" /\ pc' = "restore" /\ asked' = "none"
  /\ stray' \in {stray, Abandoned}
  /\ UNCHANGED <<providerVars, vaultVars, default, unkept, entryVars, callVars,
                 previous, procVars>>

\* Prompt.Dismiss() leaves KDE's window, and GNOME's when the call fails, which
\* is not reported.
DismissWindow ==
  /\ pc = "dismissing"
  /\ asked' = "none" /\ pc' = "restore"
  /\ stray' \in {Abandoned} \cup (IF kde THEN {} ELSE {stray})
  /\ UNCHANGED <<providerVars, vaultVars, default, unkept, entryVars, callVars,
                 previous, outcome, procVars>>

\* Between the timeout and its dismissal the window still takes an answer,
\* and one that stays on screen takes it at any time.
LateAnswer ==
  /\ \E where \in {"here", "elsewhere"} :
       \/ /\ pc = "dismissing" /\ asked # "none" /\ Answered(asked, where)
          /\ asked' = "none" /\ UNCHANGED <<stray, unkept>>
       \/ \E w \in stray :
          /\ Answered(w, where) /\ stray' = stray \ {w} /\ UNCHANGED asked
          /\ unkept' = (unkept \/ (pc \notin Guarded /\ default' = "vault"))
  /\ UNCHANGED <<pc, previous, outcome>>

CloseStray ==
  /\ \E w \in stray : stray' = stray \ {w}
  /\ UNCHANGED <<providerVars, vaultVars, default, unkept, entryVars, pc,
                 callVars, askVars, procVars>>

-----------------------------------------------------------------------------
(* _default_kept and _check_created *)

\* KDE's default alias goes back to what it was, or that fails with a warning.
KeepDefault ==
  \/ /\ default' = (IF kde THEN previous ELSE default)
     /\ UNCHANGED unkept
  \/ /\ kde /\ default # previous
     /\ UNCHANGED default /\ unkept' = TRUE

\* The `finally` around the window; then a new vault is checked.
RestoreDefault ==
  /\ pc = "restore" /\ outcome \in {"opened", "created", "elsewhere"}
  /\ KeepDefault
  /\ pc' = IF outcome = "opened" THEN "access" ELSE "check"
  /\ UNCHANGED <<providerVars, vaultVars, stray, entryVars, callVars, askVars, procVars>>

LeavesWindow ==
  /\ pc = "restore" /\ outcome \in {"refused", "failed"}
  /\ IF outcome = "refused" THEN Refuses ELSE Raises /\ UNCHANGED procVars
  /\ UNCHANGED <<providerVars, vaultVars, stray, entryVars>>

\* Mutant of RestoreAndRaise: the default is put back after the window only
\* when it was answered in time.
RaiseUnrestored == LeavesWindow /\ UNCHANGED <<default, unkept>>

RestoreAndRaise == LeavesWindow /\ KeepDefault

Weak == {"bare", "gpg"}

RemovesCreated ==
  /\ vault' = "none" /\ listed' = FALSE /\ unchecked' = FALSE /\ items' = {}
  /\ UNCHANGED <<away, twin, locked, unseen>>

LeavesCreated == UNCHANGED <<vaultVars, items>>

Rejects ==
  /\ pc = "check" /\ (outcome = "elsewhere" \/ vault \in Weak)
  /\ Refuses
  /\ UNCHANGED <<providerVars, deskVars, life>>

\* Mutant of RejectCreated: the vault's file is looked at before the path of
\* the new keyring is.
RejectAny == Rejects /\ ((vault \in Weak /\ RemovesCreated) \/ LeavesCreated)

\* An unencrypted or GPG-encrypted vault is deleted, unless the provider
\* asks for a confirmation; a keyring made elsewhere is left to the user.
RejectCreated == Rejects /\ ((outcome = "created" /\ RemovesCreated) \/ LeavesCreated)

Accepts ==
  /\ pc = "check" /\ outcome = "created"
  /\ unchecked' = FALSE /\ pc' = "access"
  /\ UNCHANGED <<providerVars, vault, away, listed, twin, locked, deskVars,
                 entryVars, callVars, askVars, procVars>>

\* Mutant of AcceptCreated: only a GPG wallet is refused.
AcceptBare == Accepts /\ vault # "gpg" /\ unseen' = FALSE

\* A file that is gone or cannot be read is taken for a protected one.
AcceptCreated == Accepts /\ unseen' = (vault \in Weak \cup {"none"})

-----------------------------------------------------------------------------
(* Items *)

Usable == vault # "none" /\ listed /\ ~locked

\* The vault locked or went away, the provider asked to confirm, or the
\* answer to a call that worked was lost.
AccessFails ==
  /\ pc = "access"
  /\ items' \in {items} \cup
       (IF ~Usable THEN {} ELSE IF op = "set" THEN {items \cup {ref}}
        ELSE IF op = "delete" THEN {items \ {ref}} ELSE {})
  /\ Raises
  /\ UNCHANGED <<providerVars, vaultVars, deskVars, life, procVars>>

Store ==
  /\ pc = "access" /\ op = "set" /\ Usable
  /\ items' = items \cup {ref}
  /\ life' = [life EXCEPT ![ref] = "stored"]
  /\ Returns
  /\ UNCHANGED <<providerVars, vaultVars, deskVars, procVars>>

Read ==
  /\ pc = "access" /\ op = "get" /\ Usable /\ ref \in items
  /\ Returns
  /\ UNCHANGED <<providerVars, vaultVars, deskVars, entryVars, procVars>>

Delete ==
  /\ pc = "access" /\ op = "delete" /\ Usable
  /\ items' = items \ {ref}
  /\ life' = [life EXCEPT ![ref] = "erased"]
  /\ Returns
  /\ UNCHANGED <<providerVars, vaultVars, deskVars, procVars>>

-----------------------------------------------------------------------------
(* Around the calls *)

\* The process ends or is killed; its window stays, nothing is put back.
ProcessEnds ==
  /\ Ends("idle")
  /\ stray' = Abandoned
  /\ unkept' = (unkept \/ (pc \in Guarded /\ default = "vault"))
  /\ terminal' \in BOOLEAN /\ refused' = FALSE /\ refusals' = 0
  /\ UNCHANGED <<providerVars, vaultVars, default, entryVars>>

Locks ==
  /\ vault # "none" /\ locked' = TRUE
  /\ UNCHANGED <<providerVars, vault, away, listed, twin, unchecked, unseen, deskVars,
                 entryVars, pc, callVars, askVars, procVars>>

\* A new login: no ghosts, no windows, everything locked.
Relogin ==
  /\ pc = "idle"
  /\ listed' = (vault # "none") /\ locked' = (vault # "none") /\ stray' = {}
  /\ UNCHANGED <<providerVars, vault, away, twin, unchecked, unseen, default,
                 unkept, entryVars, pc, callVars, askVars, procVars>>

\* The user moves the vault's file away; KDE goes on listing the wallet.
MoveAway ==
  /\ vault # "none"
  /\ away' = vault /\ vault' = "none" /\ listed' = kde
  /\ UNCHANGED <<providerVars, twin, locked, unchecked, unseen, deskVars, entryVars, pc,
                 callVars, askVars, procVars>>

\* "Restore the file."
MoveBack ==
  /\ away # "none" /\ vault = "none"
  /\ vault' = away /\ away' = "none" /\ listed' = TRUE /\ locked' = TRUE
  /\ UNCHANGED <<providerVars, twin, unchecked, unseen, deskVars, entryVars, pc,
                 callVars, askVars, procVars>>

\* "Rename or remove the other keyrings."
RemoveTwin ==
  /\ twin /\ twin' = FALSE
  /\ UNCHANGED <<providerVars, vault, away, listed, locked, unchecked, unseen,
                 deskVars, entryVars, pc, callVars, askVars, procVars>>

Next ==
  \/ \E r \in Refs : StartCall(r)
  \/ DeleteFromMissing \/ NotReady \/ RefusesGpg \/ RefusesGhost \/ Ready
  \/ NoTerminal \/ Ask \/ OpenedWithoutWindow
  \/ UserAnswers \/ UserDismisses \/ NoAnswer \/ WindowFails \/ DismissWindow
  \/ LateAnswer \/ CloseStray
  \/ RestoreDefault \/ RestoreAndRaise \/ RejectCreated \/ AcceptCreated
  \/ AccessFails \/ Store \/ Read \/ Delete
  \/ ProcessEnds \/ Locks \/ Relogin \/ MoveAway \/ MoveBack \/ RemoveTwin

Spec == Init /\ [][Next]_vars

-----------------------------------------------------------------------------
(* Properties *)

\* Every variable has its type.
TypeOK ==
  /\ kde \in BOOLEAN /\ firstUse \in BOOLEAN
  /\ vault \in {"none", "safe", "bare", "gpg"} /\ away \in {"none", "safe", "bare", "gpg"}
  /\ listed \in BOOLEAN /\ twin \in BOOLEAN /\ locked \in BOOLEAN /\ unchecked \in BOOLEAN
  /\ unseen \in BOOLEAN /\ default \in {"vault", "login"} /\ previous \in {"vault", "login"}
  /\ stray \subseteq {"creation", "unlock"} /\ unkept \in BOOLEAN
  /\ items \subseteq Refs /\ life \in [Refs -> Lives]
  /\ pc \in Places /\ op \in {"none", "set", "get", "delete"} /\ ref \in Refs \cup {NoRef}
  /\ asked \in {"none", "creation", "unlock"}
  /\ outcome \in {"none", "opened", "created", "elsewhere", "refused", "failed"}
  /\ terminal \in BOOLEAN /\ refused \in BOOLEAN /\ refusals \in Nat

\* "A refused, cancelled, or unanswered window is final for this process": a
\* loop over several credentials does not open another one each time.
AskedOnce == refusals <= 1

\* "Other applications would then store their secrets in the Kantrip vault": a
\* vault that became KDE's default while a window was open is not the default
\* after the call, whether the window was answered, cancelled, or answered after
\* its time.  It remains the default only where no `finally` runs: putting it
\* back failed (a warning), the window was answered after the call, or the
\* process was killed.
DefaultIsKept == (default = "vault" /\ pc \notin Guarded) => unkept

\* A keyring without a password holds a credential only when the check of the
\* new vault was cut off, came before the late answer that made it, could not
\* remove it, or could not read its header; a GPG wallet only when a call could
\* not read its header, or it was made after the call looked.
StoredUnderPassword ==
  /\ (vault = "bare" /\ items # {}) => unchecked \/ unseen
  /\ (vault = "gpg" /\ items # {}) => unseen

\* A stored credential is in the vault's file, here or moved away, until it is
\* deleted or another vault takes that place: the check that removes a rejected
\* new vault removes nothing that was put back while the window was open,
\* except a GPG wallet whose header an earlier call could not read.
StoredIsKept ==
  \A r \in Refs : life[r] = "stored" => r \in items \/ (kde /\ unseen)
=============================================================================
