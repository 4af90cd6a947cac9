---------------------------- MODULE ProfileStore ----------------------------
(***************************************************************************)
(* What the mutation engine promises, without processes, locks, failures   *)
(* or crashes: profiles change one whole row at a time, and a secret is    *)
(* owed a deletion from before it can exist until after it is gone, except *)
(* while a profile owns it.                                                *)
(***************************************************************************)
EXTENDS Naturals

CONSTANTS Names, Refs,
          Row,    \* the rows a profile can have: identity, revision, references
          NoRow   \* a name without a profile

\* What the theorems assume of the rows; CredentialMutations!Row has it.
RowsFit == NoRow \notin Row /\ \A row \in Row : row.refs \subseteq Refs

VARIABLES rows,  \* name -> the profile's current row, or NoRow
          owed,  \* references that must be deleted unless a row takes them
          held   \* references with a stored value

store == <<rows, owed, held>>

RefsOf(row) == IF row = NoRow THEN {} ELSE row.refs
Owned == UNION {RefsOf(rows[n]) : n \in Names}

Init == rows = [n \in Names |-> NoRow] /\ owed = {} /\ held = {}

\* Promise to delete references that nothing knows yet.
Reserve(new) ==
  /\ new \cap (Owned \cup held \cup owed) = {}
  /\ owed' = owed \cup new
  /\ UNCHANGED <<rows, held>>

Store(r) ==
  /\ r \in owed
  /\ held' = held \cup {r}
  /\ UNCHANGED <<rows, owed>>

\* A profile appears at revision 1, advances by one, or disappears.
Succeeds(old, new) ==
  /\ old # NoRow \/ new # NoRow
  /\ old = NoRow => new.revision = 1
  /\ (old # NoRow /\ new # NoRow) =>
        new.id = old.id /\ new.revision = old.revision + 1

\* The new row takes over stored references; the old row's become owed.
Replace(n, new) ==
  LET gained  == RefsOf(new) \ RefsOf(rows[n])
      dropped == RefsOf(rows[n]) \ RefsOf(new) IN
  /\ Succeeds(rows[n], new)
  /\ gained \subseteq owed \cap held
  /\ rows' = [rows EXCEPT ![n] = new]
  /\ owed' = (owed \ gained) \cup dropped
  /\ UNCHANGED held

Erase(r) ==
  /\ r \in owed
  /\ held' = held \ {r}
  /\ UNCHANGED <<rows, owed>>

Settle(r) ==
  /\ r \in owed \ held
  /\ owed' = owed \ {r}
  /\ UNCHANGED <<rows, held>>

Next ==
  \/ \E new \in SUBSET Refs : Reserve(new)
  \/ \E r \in Refs : Store(r) \/ Erase(r) \/ Settle(r)
  \/ \E n \in Names, new \in Row \cup {NoRow} : Replace(n, new)

Spec == Init /\ [][Next]_store

-----------------------------------------------------------------------------
\* Rows are rows, and the two stores hold references.
TypeOK ==
  /\ rows \in [Names -> Row \cup {NoRow}]
  /\ owed \subseteq Refs
  /\ held \subseteq Refs

\* A reference is owned by one profile, or owed a deletion, or gone: every
\* owned one has its value, every value is owned or owed, none is both.
Accounted ==
  /\ Owned \subseteq held
  /\ held \subseteq Owned \cup owed
  /\ Owned \cap owed = {}
  /\ \A m, n \in Names : m # n => RefsOf(rows[m]) \cap RefsOf(rows[n]) = {}
=============================================================================
