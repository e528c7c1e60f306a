----------------------------- MODULE MCPageTable ---------------------------
(***************************************************************************)
(* Page tables with two entries to a table for TLC, for clients that keep  *)
(* granules apart or mix them: one of the two, chosen at the start, with   *)
(* tables of their own.  States that differ in which frames are which      *)
(* tables behave alike: TLC sees what the trees hold and how many frames   *)
(* are free, with at most two trees; the address in a broken entry, which  *)
(* may be that of a table, is never used.                                  *)
(***************************************************************************)
EXTENDS PageTable

VARIABLES mixing, mixedMem, mixedRoots, mixedStrayed

mixed == <<mixedMem, mixedRoots, mixedStrayed>>

Mix == INSTANCE PageTable WITH
  FrameCount <- 7, MaxRoots <- 1, Virts <- {0, 2, 4}, Flags <- {"RW"},
  MapSizes <- {1, 2, 4}, ProtectSizes <- {1, 2}, Mixed <- TRUE,
  mem <- mixedMem, roots <- mixedRoots, strayed <- mixedStrayed

ASSUME GranulesAssumption == PageTableAssumption /\ Mix!PageTableAssumption

MCInit == mixing \in BOOLEAN /\ Init /\ Mix!Init

MCNext ==
  \/ ~mixing /\ Next /\ UNCHANGED <<mixing, mixed>>
  \/ mixing /\ Mix!Next /\ UNCHANGED <<mixing, vars>>

MCSpec == MCInit /\ [][MCNext]_<<vars, mixing, mixed>>

(* What tables T hold, each with what Below says of a table it leads to.   *)
Held(T, t, Below1(_)) ==
  IF t \notin DOMAIN T THEN <<>>
  ELSE [i \in Index |-> LET e == T[t][i] IN
                        CASE e.kind = "table" -> <<"table", Below1(e.addr)>>
                          [] e.kind = "broken" -> <<"broken", <<e.flags>>>>
                          [] OTHER -> <<e.kind, <<e.addr, e.flags>>>>]
Held3(T, t) == Held(T, t, LAMBDA u : u)
Held2(T, t) == Held(T, t, LAMBDA u : Held3(T, u))
Held1(T, t) == Held(T, t, LAMBDA u : Held2(T, u))
Trees(m, R) == <<{Held(m.tables, r, LAMBDA u : Held1(m.tables, u)) : r \in R}, Cardinality(R), Cardinality(m.free)>>
Shape ==
  <<mixing, Trees(mem, roots), strayed, TablesAccounted,
    Trees(mixedMem, mixedRoots), mixedStrayed, Mix!TablesAccounted>>

-----------------------------------------------------------------------------
(* Even when clients mix granules, no table is shared, or free while an    *)
(* entry leads to it: PageTable.                                           *)
MixedTablesExclusive == Mix!TablesAccounted
=============================================================================
