------------------------------ MODULE PageMap ------------------------------
(***************************************************************************)
(* What page tables promise: each root is a partial function from pages to *)
(* frames and flags, a call changes one of them in one range of pages, and *)
(* changing flags never changes frames.                                    *)
(***************************************************************************)
EXTENDS Integers

CONSTANT Page

VARIABLE maps   \* the roots that exist: the frame and flags of each mapped page

(* The pages of R are all there are in S from the first to the last of R.  *)
Row(R, S) == \A p, q \in R : (p .. q) \cap S \subseteq R

(* Steps from one state of the maps to the next.                           *)
Create(old, new, r, map) ==
  /\ r \notin DOMAIN old
  /\ new = [s \in DOMAIN old \cup {r} |-> IF s = r THEN map ELSE old[s]]

Alloc(old, new) == \E r \in DOMAIN new : Create(old, new, r, [p \in {} |-> {}])
Copy(old, new) == \E r \in DOMAIN new, s \in DOMAIN old : Create(old, new, r, old[s])
Free(old, new) == \E r \in DOMAIN old : new = [s \in DOMAIN old \ {r} |-> old[s]]

(* New pages are a row, mapped to a row of frames with the same flags.     *)
Mapped(old, new) ==
  LET R == DOMAIN new \ DOMAIN old IN
  /\ DOMAIN old \subseteq DOMAIN new /\ Row(R, Page)
  /\ \A p \in DOMAIN old : new[p] = old[p]
  /\ \A p, q \in R : new[p].frame - p = new[q].frame - q /\ new[p].flags = new[q].flags

Unmapped(old, new) ==
  /\ DOMAIN new \subseteq DOMAIN old
  /\ \A p \in DOMAIN new : new[p] = old[p]
  /\ Row(DOMAIN old \ DOMAIN new, DOMAIN old)

Protected(old, new) ==
  /\ DOMAIN new = DOMAIN old
  /\ \A p \in DOMAIN old : new[p].frame = old[p].frame
  /\ LET R == {p \in DOMAIN old : new[p] # old[p]} IN
     \A p, q \in R : new[p].flags = new[q].flags

Change(old, new) ==
  /\ DOMAIN new = DOMAIN old
  /\ \E r \in DOMAIN old :
       /\ \A s \in DOMAIN old \ {r} : new[s] = old[s]
       /\ Mapped(old[r], new[r]) \/ Unmapped(old[r], new[r]) \/ Protected(old[r], new[r])

Next ==
  \E old \in {maps}, new \in {maps'} :
    Alloc(old, new) \/ Copy(old, new) \/ Free(old, new) \/ Change(old, new)

Spec == [][Next]_maps
=============================================================================
