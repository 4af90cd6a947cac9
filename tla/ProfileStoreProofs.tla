-------------------------- MODULE ProfileStoreProofs --------------------------
(***************************************************************************)
(* The contract keeps its books: Accounted is inductive relative to the    *)
(* types, for any sets of names, references and rows.                      *)
(***************************************************************************)
EXTENDS ProfileStore, TLAPS

\* No step of the contract takes the two stores out of their types.
LEMMA TypeStep == ASSUME RowsFit, TypeOK, [Next]_store PROVE TypeOK'
<1>1. CASE UNCHANGED store
  BY <1>1 DEF TypeOK, store
<1>2. CASE Next
  <2>1. ASSUME NEW new \in SUBSET Refs, Reserve(new) PROVE TypeOK'
    BY <2>1 DEF TypeOK, Reserve
  <2>2. ASSUME NEW r \in Refs, Store(r) \/ Erase(r) \/ Settle(r) PROVE TypeOK'
    BY <2>2 DEF TypeOK, Store, Erase, Settle
  <2>3. ASSUME NEW n \in Names, NEW new \in Row \cup {NoRow}, Replace(n, new)
        PROVE  TypeOK'
    <3>1. RefsOf(rows[n]) \subseteq Refs
      BY RowsFit DEF RowsFit, TypeOK, RefsOf
    <3>2. QED
      BY <2>3, <3>1 DEF TypeOK, Replace
  <2>4. QED
    BY <1>2, <2>1, <2>2, <2>3 DEF Next
<1>3. QED
  BY <1>1, <1>2

\* What the profiles own after one row was replaced.
LEMMA OwnedAfter ==
  ASSUME TypeOK, NEW n \in Names, NEW new \in Row \cup {NoRow},
         rows' = [rows EXCEPT ![n] = new],
         \A m \in Names \ {n} : RefsOf(rows[m]) \cap RefsOf(rows[n]) = {}
  PROVE  Owned' = (Owned \ RefsOf(rows[n])) \cup RefsOf(new)
<1>1. \A m \in Names : rows'[m] = IF m = n THEN new ELSE rows[m]
  BY DEF TypeOK
<1>2. \A m \in Names \ {n} : RefsOf(rows'[m]) = RefsOf(rows[m])
  BY <1>1
<1>3. RefsOf(rows'[n]) = RefsOf(new)
  BY <1>1
<1>4. \A r : r \in Owned <=> \E m \in Names : r \in RefsOf(rows[m])
  BY DEF Owned
<1>5. \A r : r \in Owned' <=> \E m \in Names : r \in RefsOf(rows'[m])
  BY DEF Owned, RefsOf
<1>6. QED
  BY <1>2, <1>3, <1>4, <1>5

\* Every step of the contract keeps each reference accounted for.
LEMMA AccountedStep ==
  ASSUME TypeOK, Accounted, [Next]_store PROVE Accounted'
<1>1. CASE UNCHANGED store
  BY <1>1 DEF Accounted, store, Owned, RefsOf
<1>2. ASSUME UNCHANGED rows
      PROVE  Owned' = Owned /\ \A m \in Names : RefsOf(rows'[m]) = RefsOf(rows[m])
  BY <1>2 DEF Owned, RefsOf
<1>3. ASSUME NEW new \in SUBSET Refs, Reserve(new) PROVE Accounted'
  BY <1>2, <1>3 DEF Accounted, Reserve, RefsOf
<1>4. ASSUME NEW r \in Refs, Store(r) \/ Erase(r) \/ Settle(r) PROVE Accounted'
  BY <1>2, <1>4 DEF Accounted, Store, Erase, Settle, RefsOf
<1>5. ASSUME NEW n \in Names, NEW new \in Row \cup {NoRow}, Replace(n, new)
      PROVE  Accounted'
  <2> DEFINE gained  == RefsOf(new) \ RefsOf(rows[n])
             dropped == RefsOf(rows[n]) \ RefsOf(new)
  <2>1. Owned' = (Owned \ RefsOf(rows[n])) \cup RefsOf(new)
    BY <1>5, OwnedAfter DEF Accounted, Replace
  <2>2. RefsOf(rows[n]) \subseteq Owned
    BY DEF Owned
  <2>3. /\ gained \subseteq owed \cap held
        /\ owed' = (owed \ gained) \cup dropped
        /\ held' = held
    BY <1>5 DEF Replace
  <2>4. \A m \in Names : RefsOf(rows'[m]) =
            IF m = n THEN RefsOf(new) ELSE RefsOf(rows[m])
    BY <1>5 DEF Replace, TypeOK
  <2>5. \A m \in Names : RefsOf(rows[m]) \subseteq Owned
    BY DEF Owned
  <2>6. \A m, k \in Names : m # k => RefsOf(rows'[m]) \cap RefsOf(rows'[k]) = {}
    BY <2>3, <2>4, <2>5 DEF Accounted
  <2>7. Owned' \subseteq held' /\ held' \subseteq Owned' \cup owed'
    BY <2>1, <2>2, <2>3 DEF Accounted
  <2>8. Owned' \cap owed' = {}
    BY <2>1, <2>2, <2>3 DEF Accounted
  <2>9. QED
    BY <2>6, <2>7, <2>8 DEF Accounted, RefsOf
<1>6. QED
  BY <1>1, <1>3, <1>4, <1>5 DEF Next

\* A reference is at all times owned by one profile, owed a deletion, or gone:
\* what add, edit, remove and doctor --repair together promise of the
\* database and the vault.
THEOREM BooksBalance == ASSUME RowsFit PROVE Spec => []Accounted
<1>1. Init => TypeOK /\ Accounted
  BY DEF Init, TypeOK, Accounted, Owned, RefsOf
<1>2. TypeOK /\ Accounted /\ [Next]_store => TypeOK' /\ Accounted'
  BY TypeStep, AccountedStep
<1>3. QED
  BY <1>1, <1>2, PTL DEF Spec
===============================================================================
