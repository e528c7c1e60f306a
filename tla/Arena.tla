-------------------------------- MODULE Arena --------------------------------
(***************************************************************************)
(* What an allocator promises: it lends pieces of a space of addresses,    *)
(* no two of which overlap, and disturbs no loan but the one it is asked to*)
(* end or to exchange.                                                     *)
(***************************************************************************)
EXTENDS Integers

CONSTANT Space   \* the addresses there are

VARIABLE loans   \* the pieces lent: [at, len]

Piece(l) == l.at .. (l.at + l.len - 1)
Apart(l, others) == Piece(l) \subseteq Space /\ \A m \in others : Piece(l) \cap Piece(m) = {}

Init == loans = {}

(* Steps from the loans before a call to those after it.                   *)
Lend(old, new) ==
  \E l \in new \ old : new = old \cup {l} /\ Apart(l, old)

Return(old, new) ==
  \E l \in old : new = old \ {l}

(* A loan is exchanged for another one, which may overlap the old piece.   *)
Exchange(old, new) ==
  \E l \in old : \E m \in new :
    new = (old \ {l}) \cup {m} /\ Apart(m, old \ {l})

(* The arena is closed, which ends every loan.                             *)
Close(new) == new = {}

Next ==
  \E old \in {loans}, new \in {loans'} :
    Lend(old, new) \/ Return(old, new) \/ Exchange(old, new) \/ Close(new)

Spec == Init /\ [][Next]_loans
=============================================================================
