------------------------------- MODULE Startup -------------------------------
(***************************************************************************)
(* What bringing up a set of modules promises: first they are linked, then *)
(* each is started at most once and only when everything it calls is ready,*)
(* then the modules that have nothing to start are tested.                 *)
(***************************************************************************)
CONSTANT Modules

VARIABLES
  needs,     \* what each module may call, once linked
  silent,    \* the modules that have nothing to start: they are always ready
  started,   \* the modules started
  checked    \* the silent modules whose tests have run

vars == <<needs, silent, started, checked>>

Init ==
  /\ silent \subseteq Modules
  /\ needs = [m \in Modules |-> {}]
  /\ started = {}
  /\ checked = {}

(* A call is linked.                                                       *)
Link ==
  /\ started = {} /\ checked = {}
  /\ \A m \in Modules : needs[m] \subseteq needs'[m]
  /\ UNCHANGED <<silent, started, checked>>

(* A module is started, never again, and never before what it calls.       *)
Start ==
  \E m \in Modules \ (silent \cup started) :
    /\ checked = {}
    /\ needs[m] \subseteq started \cup silent
    /\ started' = started \cup {m}
    /\ UNCHANGED <<needs, silent, checked>>

(* The tests of a module that has nothing to start run once all have.      *)
Check ==
  \E m \in silent \ checked :
    /\ checked' = checked \cup {m}
    /\ UNCHANGED <<needs, silent, started>>

Next == Link \/ Start \/ Check

Spec == Init /\ [][Next]_vars
=============================================================================
