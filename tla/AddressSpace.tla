---------------------------- MODULE AddressSpace ----------------------------
(***************************************************************************)
(* What a virtual memory manager promises: in each address space every page*)
(* is unused or has a use, a call gives a range of unused pages a use,     *)
(* takes the use of a range away or changes it, and no call disturbs a page*)
(* outside its range, or another space.                                    *)
(***************************************************************************)
EXTENDS Integers

CONSTANTS
  Page,     \* the pages of an address space
  Unused    \* the use of a page that has none

VARIABLE view   \* the existing spaces: what each of their pages is used for

(* A space before and after a call: a row of pages changed, and how.       *)
Changed(old, new) == {p \in Page : new[p] # old[p]}
Row(R) == \A p, q \in R : p .. q \subseteq R

Claimed(old, new) ==
  LET R == Changed(old, new) IN Row(R) /\ \A p, q \in R : old[p] = Unused /\ new[p] = new[q]
Dropped(old, new) ==
  LET R == Changed(old, new) IN Row(R) /\ \A p \in R : old[p] # Unused /\ new[p] = Unused
Recast(old, new) ==
  LET R == Changed(old, new) IN
  Row(R) /\ \A p, q \in R : old[p] # Unused /\ new[p] # Unused /\ new[p] = new[q]

(* Steps from one view of the spaces to the next.                          *)
Create(old, new) ==
  \E s \in DOMAIN new \ DOMAIN old :
    new = [t \in DOMAIN old \cup {s} |-> IF t = s THEN [p \in Page |-> Unused] ELSE old[t]]

Destroy(old, new) ==
  \E s \in DOMAIN old : new = [t \in DOMAIN old \ {s} |-> old[t]]

Use(old, new) ==
  /\ DOMAIN new = DOMAIN old
  /\ \E s \in DOMAIN old :
       /\ Claimed(old[s], new[s]) \/ Dropped(old[s], new[s]) \/ Recast(old[s], new[s])
       /\ \A t \in DOMAIN old \ {s} : new[t] = old[t]

Next == \E old \in {view}, new \in {view'} : Create(old, new) \/ Destroy(old, new) \/ Use(old, new)

Spec == [][Next]_view
=============================================================================
