---------------------------- MODULE BlockDevice ----------------------------
(***************************************************************************)
(* What a block device promises the one client it has: a call is refused,  *)
(* or it is done once, between the call and the answer.  A call that goes  *)
(* past the end of the disk is answered too, and changes nothing but the   *)
(* pattern that is left at the start of the buffer of a read.              *)
(***************************************************************************)
EXTENDS Integers, Sequences

CONSTANTS
  None,
  Request,  \* [type, sector, data]: what is written, or a place for what is read
  Pattern   \* what is left of a read that fails

VARIABLES
  disk,      \* what is in each sector
  pending,   \* the call that runs, and whether it is done
  answer     \* the last answer: what was read or written, or <<>> for a refusal

vars == <<disk, pending, answer>>

Sectors(r) == r.sector .. (r.sector + Len(r.data) - 1)

Init == pending = None /\ answer = None

Call(r) ==
  /\ pending = None
  /\ pending' = [request |-> r, done |-> FALSE]
  /\ UNCHANGED <<disk, answer>>

Perform ==
  /\ pending # None /\ ~pending.done
  /\ LET r == pending.request IN
     \/ /\ ~(Sectors(r) \subseteq DOMAIN disk)
        /\ pending' = [request |-> IF r.type = "IN" THEN [r EXCEPT !.data[1] = Pattern] ELSE r, done |-> TRUE]
        /\ UNCHANGED disk
     \/ /\ r.type = "OUT" /\ Sectors(r) \subseteq DOMAIN disk
        /\ disk' = [s \in DOMAIN disk |-> IF s \in Sectors(r) THEN r.data[s - r.sector + 1] ELSE disk[s]]
        /\ pending' = [pending EXCEPT !.done = TRUE]
     \/ /\ r.type = "IN" /\ Sectors(r) \subseteq DOMAIN disk
        /\ pending' = [request |-> [r EXCEPT !.data = [k \in DOMAIN r.data |-> disk[r.sector + k - 1]]],
                       done |-> TRUE]
        /\ UNCHANGED disk
  /\ UNCHANGED answer

Finish ==
  /\ pending # None /\ pending.done
  /\ answer' = pending.request.data
  /\ pending' = None
  /\ UNCHANGED disk

Refuse ==
  /\ \/ pending = None
     \/ pending # None /\ ~pending.done
  /\ answer' = <<>>
  /\ pending' = None
  /\ UNCHANGED disk

Next == (\E r \in Request : Call(r)) \/ Perform \/ Finish \/ Refuse
Spec == Init /\ [][Next]_vars
=============================================================================
