----------------------------- MODULE SessionStore -----------------------------
(***************************************************************************)
(* What session directories promise (runtime.py), without system calls and *)
(* scans: while its owner holds a session nothing is deleted from it; what *)
(* its owner leaves, by closing it or by dying, may be deleted file by     *)
(* file; the directory goes last.                                          *)
(***************************************************************************)
CONSTANTS Sessions, Files

VARIABLES life,   \* session -> "new", "held", "closing", "left", "gone"
          kept    \* session -> files its directory has

storeVars == <<life, kept>>

Init ==
  /\ life = [s \in Sessions |-> "new"]
  /\ kept = [s \in Sessions |-> {}]

Becomes(s, from, to) == life[s] \in from /\ life' = [life EXCEPT ![s] = to]

Make(s)    == Becomes(s, {"new"}, "held") /\ UNCHANGED kept
Leave(s)   == Becomes(s, {"held"}, "closing") /\ UNCHANGED kept
Abandon(s) == Becomes(s, {"held", "closing"}, "left") /\ UNCHANGED kept

Write(s, f) ==
  /\ life[s] = "held"
  /\ kept' = [kept EXCEPT ![s] = @ \cup {f}]
  /\ UNCHANGED life

Delete(s, f) ==
  /\ life[s] \in {"closing", "left"}
  /\ kept' = [kept EXCEPT ![s] = @ \ {f}]
  /\ UNCHANGED life

Remove(s) ==
  /\ kept[s] = {}
  /\ Becomes(s, {"closing", "left"}, "gone")
  /\ UNCHANGED kept

StoreStep(s) ==
  \/ Make(s) \/ Leave(s) \/ Abandon(s) \/ Remove(s)
  \/ \E f \in Files : Write(s, f) \/ Delete(s, f)

Next == \E s \in Sessions : StoreStep(s)

Spec == Init /\ [][Next]_storeVars
===============================================================================
