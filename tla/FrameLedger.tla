---------------------------- MODULE FrameLedger ----------------------------
(***************************************************************************)
(* What the physical memory manager promises its clients, with no buddies, *)
(* no free lists and no metadata: a page frame is available, or belongs to *)
(* exactly one block lent to at least one client, or has been withdrawn    *)
(* from circulation for good.                                              *)
(***************************************************************************)
EXTENDS Integers

CONSTANTS
  Client,     \* the callers of the manager
  Page,       \* the indices of the page frames
  Order,      \* the block sizes that may be asked for, as exponents
  Span        \* pages in a block of each order

VARIABLES
  available,  \* the pages nobody uses
  holds       \* for each client the blocks, pairs <<base, order>>, it refers to

vars == <<available, holds>>

Block(b, o) == b .. (b + Span[o] - 1)
Lent == UNION {holds[c] : c \in Client}

Init ==
  /\ available \subseteq Page
  /\ holds = [c \in Client |-> {}]

(* A client receives a whole block of available pages.                     *)
Grant(c, h) ==
  /\ h \in Page \X Order
  /\ Block(h[1], h[2]) \subseteq available
  /\ available' = available \ Block(h[1], h[2])
  /\ holds' = [holds EXCEPT ![c] = @ \cup {h}]

(* A lent block gains a second client.                                     *)
Share(c, h) ==
  /\ h \in Lent \ holds[c]
  /\ holds' = [holds EXCEPT ![c] = @ \cup {h}]
  /\ UNCHANGED available

(* A client gives a block up; its last client makes it available again.    *)
Drop(c, h) ==
  /\ h \in holds[c]
  /\ holds' = [holds EXCEPT ![c] = @ \ {h}]
  /\ available' = IF \E d \in Client \ {c} : h \in holds[d]
                  THEN available
                  ELSE available \cup Block(h[1], h[2])

(* Available pages leave circulation; no client is affected.               *)
Withdraw ==
  /\ available' \subseteq available
  /\ UNCHANGED holds

Next ==
  \/ \E c \in Client : \E h \in holds'[c] \ holds[c] : Grant(c, h) \/ Share(c, h)
  \/ \E c \in Client : \E h \in holds[c] \ holds'[c] : Drop(c, h)
  \/ Withdraw

Spec == Init /\ [][Next]_vars
=============================================================================
