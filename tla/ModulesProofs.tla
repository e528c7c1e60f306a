--------------------------- MODULE ModulesProofs ---------------------------
(***************************************************************************)
(* Bringing the modules up, for every kernel.ini, every set of files, every*)
(* placement in the hash tables and every limit: what is registered is     *)
(* found again, each import is bound to what it asks for, the boot ends as *)
(* it should, and no module starts before what it calls.                   *)
(***************************************************************************)
EXTENDS Modules, FiniteSetTheorems, WellFoundedInduction, TLAPS

(* The type table and the instance tables are well formed: every key is    *)
(* where a search for it ends, and what is in them is what is registered.  *)
Placed(slots, home) ==
  \A j \in DOMAIN slots : slots[j] # None => Probe(slots, home[slots[j]], slots[j]) = j

Holds(slots, key) == \E j \in DOMAIN slots : slots[j] = key

TablesSound ==
  /\ table \in [0 .. (TypeCapacity - 1) -> Types \cup {None}]
  /\ sub \in [Types -> [0 .. (InstanceCapacity - 1) -> Names \cup {None}]]
  /\ Placed(table, TypeHome)
  /\ \A t \in Types : Placed(sub[t], NameHome)
  /\ \A t \in Types, n \in Names : Holds(sub[t], n) <=> <<t, n>> \in DOMAIN inst
  /\ \A t \in Types : Holds(table, t) <=> \E n \in Names : Holds(sub[t], n)

(* An entry is of the file it was loaded from.                             *)
Entry == [file : Lines, entry : BOOLEAN, deps : Seq(Id \cup {None}), inited : BOOLEAN,
          next : Id \cup {None}]

InstancesSound ==
  /\ inst \in [DOMAIN inst -> Entry] /\ DOMAIN inst \subseteq Id
  /\ head \in DOMAIN inst \cup {None} /\ current \in DOMAIN inst \cup {None}
  /\ \A i \in DOMAIN inst :
       /\ inst[i].file \in DOMAIN config
       /\ config[inst[i].file].type = i[1] /\ config[inst[i].file].name = i[2]
       /\ inst[i].entry = config[inst[i].file].entry
       /\ inst[i].next \in DOMAIN inst \cup {None}
       /\ Range(inst[i].deps) \subseteq DOMAIN inst \cup {None}
       /\ stage = "load" => inst[i].file < at

(* Each import handled so far is bound to its provider, which has become a *)
(* dependency of the importer; a null dependency is an import left unbound.*)
FileOf(p) == IF p = None THEN 0 ELSE inst[p].file

Handle == [type : Types, name : Names \cup {Any}, parent : Id, file : Lines]

ImportsSound ==
  /\ handles \in Seq(Handle)
  /\ \A k \in DOMAIN handles :
       /\ handles[k].parent \in DOMAIN inst
       /\ handles[k].file \in DOMAIN config
       /\ handles[k].parent = <<config[handles[k].file].type, config[handles[k].file].name>>
  /\ bound \in Seq(Nat) /\ Len(bound) <= Len(handles)
  /\ \A k \in DOMAIN bound :
       /\ bound[k] = FileOf(Provider(handles[k]))
       /\ Provider(handles[k]) \in Range(inst[handles[k].parent].deps)
  /\ \A i \in DOMAIN inst : None \in Range(inst[i].deps) => \E k \in DOMAIN bound : bound[k] = 0

(* What may be so at each stage.                                           *)
StagesSound ==
  /\ stage \in {"load", "import", "init", "test"} \cup Ends
  /\ stage = "load" => bound = <<>> /\ \A i \in DOMAIN inst : inst[i].deps = <<>>
  /\ stage = "import" => at = Len(bound) + 1
  /\ stage \in {"load", "import", "returned"} => /\ stack = <<>> /\ current = None
                                                 /\ \A i \in DOMAIN inst : ~inst[i].inited
  /\ stage \notin {"test", "done"} => checked = {}
  /\ started = {inst[i].file : i \in {j \in DOMAIN inst : inst[j].inited /\ inst[j].entry}}
  /\ checked \subseteq {inst[i].file : i \in {j \in DOMAIN inst : ~inst[j].entry}}

(* The calls of InitializeModule in progress: each has come to the one     *)
(* inside it, and the dependencies it has left behind are initialised.     *)
Frame == [m : Id, rest : Seq(Id \cup {None})]

Behind(s, ins, k, d) ==
  /\ d # None
  /\ ins[d].inited \/ (k > 1 /\ d = s[k - 1].m)

Frames(s, ins) ==
  /\ s \in Seq(Frame)
  /\ \A k \in DOMAIN s :
       /\ s[k].m \in DOMAIN ins /\ ins[s[k].m].entry
       /\ Range(s[k].rest) \subseteq Range(ins[s[k].m].deps)
       /\ \A d \in Range(ins[s[k].m].deps) : d \in Range(s[k].rest) \/ Behind(s, ins, k, d)
       /\ k > 1 => s[k - 1].m \in Range(ins[s[k].m].deps)

StackSound ==
  /\ Frames(stack, inst)
  /\ stage = "panic" => Len(stack) > MaxDepth /\ Range(stack[1].rest) # {}
  /\ stage = "wild" => \E i \in DOMAIN inst : None \in Range(inst[i].deps)

(* The list of modules goes through all of them, the last registered first,*)
(* or it has become a loop that is never left.                             *)
Chained ==
  /\ head = None => DOMAIN inst = {}
  /\ head # None => \A j \in DOMAIN inst : inst[j].file <= inst[head].file
  /\ \A i \in DOMAIN inst :
       \/ inst[i].next = None /\ \A j \in DOMAIN inst : inst[i].file <= inst[j].file
       \/ /\ inst[i].next # None /\ inst[inst[i].next].file < inst[i].file
          /\ \A j \in DOMAIN inst : \/ inst[j].file <= inst[inst[i].next].file
                                    \/ inst[i].file <= inst[j].file

Passed(i) == current = None \/ inst[current].file < inst[i].file

Covered ==
  /\ stage = "init" => \A i \in DOMAIN inst :
       Passed(i) => inst[i].inited \/ (stack # <<>> /\ stack[Len(stack)].m = i)
  /\ stage \in {"test", "done"} => \A i \in DOMAIN inst : inst[i].inited
  /\ stage \in {"test", "done"} => \A i \in DOMAIN inst :
       Passed(i) /\ ~inst[i].entry => inst[i].file \in checked
  /\ stage = "done" => current = None

Looped ==
  /\ stage # "done"
  /\ \E S \in SUBSET DOMAIN inst :
       /\ head \in S /\ \A i \in S : inst[i].next \in S
       /\ stage \in {"init", "test"} => current \in S

IInv ==
  /\ config \in Seq(Files) /\ DOMAIN config \subseteq Lines
  /\ at \in Nat \ {0} /\ pool \in Nat
  /\ TablesSound /\ InstancesSound /\ ImportsSound /\ StagesSound /\ StackSound
  /\ (Chained /\ Covered) \/ Looped

-----------------------------------------------------------------------------
(* Searching and filling a hash table.                                     *)

(* A nonempty set of numbers has a least element: Min is what it says.     *)
LEMMA Least ==
  ASSUME NEW S \in SUBSET Nat, S # {}
  PROVE  Min(S) \in S /\ \A y \in S : Min(S) <= y
<1> DEFINE lt == OpToRel(<, Nat)
<1>1. \E x \in S : \A y \in S : <<y, x>> \notin lt
  <2>1. IsWellFoundedOn(lt, Nat)
    BY NatLessThanWellFounded
  <2> HIDE DEF lt
  <2>2. QED
    BY <2>1, WFMin
<1>2. \A x, y \in Nat : <<y, x>> \notin lt => x <= y
  BY DEF OpToRel
<1>3. \E x \in S : \A y \in S : x <= y
  <2> HIDE DEF lt
  <2>1. QED
    BY <1>1, <1>2
<1>4. QED
  BY <1>3 DEF Min

(* The probes that find key or an empty slot.                              *)
Hits(slots, home, key) ==
  LET cap == Cardinality(DOMAIN slots)
  IN  {k \in 0 .. (cap - 1) : slots[(home + k) % cap] \in {key, None}}

(* A search ends at the least of its hits, and nowhere without one.        *)
LEMMA ProbeFacts ==
  ASSUME NEW cap \in Nat \ {0}, NEW slots, DOMAIN slots = 0 .. (cap - 1),
         NEW home \in 0 .. (cap - 1), NEW key
  PROVE  /\ Hits(slots, home, key) =
              {k \in 0 .. (cap - 1) : slots[(home + k) % cap] \in {key, None}}
         /\ Hits(slots, home, key) = {} => Probe(slots, home, key) = -1
         /\ Hits(slots, home, key) # {} =>
              /\ Min(Hits(slots, home, key)) \in Hits(slots, home, key)
              /\ \A k \in Hits(slots, home, key) : Min(Hits(slots, home, key)) <= k
              /\ Probe(slots, home, key) = (home + Min(Hits(slots, home, key))) % cap
              /\ Probe(slots, home, key) \in 0 .. (cap - 1)
              /\ slots[Probe(slots, home, key)] \in {key, None}
<1>1. Cardinality(DOMAIN slots) = cap
  BY FS_Interval
<1>2. Hits(slots, home, key) =
        {k \in 0 .. (cap - 1) : slots[(home + k) % cap] \in {key, None}}
  BY <1>1 DEF Hits
<1>3. Probe(slots, home, key) =
        IF Hits(slots, home, key) = {} THEN -1
        ELSE (home + Min(Hits(slots, home, key))) % cap
  BY <1>1 DEF Hits, Probe
<1>4. ASSUME Hits(slots, home, key) # {}
      PROVE  /\ Min(Hits(slots, home, key)) \in Hits(slots, home, key)
             /\ \A k \in Hits(slots, home, key) : Min(Hits(slots, home, key)) <= k
  <2>1. Hits(slots, home, key) \in SUBSET Nat
    BY <1>2
  <2>2. QED
    BY <2>1, <1>4, Least
<1>5. ASSUME NEW k \in 0 .. (cap - 1) PROVE (home + k) % cap \in 0 .. (cap - 1)
  OBVIOUS
<1>6. QED
  BY <1>2, <1>3, <1>4, <1>5

(* What is in a well-formed table is found, and nothing else.              *)
LEMMA Found ==
  ASSUME NEW cap \in Nat \ {0}, NEW slots, DOMAIN slots = 0 .. (cap - 1),
         NEW K, NEW home \in [K -> 0 .. (cap - 1)], Placed(slots, home),
         NEW key \in K, None \notin K
  PROVE  (Probe(slots, home[key], key) # -1 /\ slots[Probe(slots, home[key], key)] = key)
           <=> Holds(slots, key)
<1>1. ASSUME Probe(slots, home[key], key) # -1, slots[Probe(slots, home[key], key)] = key
      PROVE  Holds(slots, key)
  <2>1. home[key] \in 0 .. (cap - 1)
    OBVIOUS
  <2>2. Hits(slots, home[key], key) # {}
    BY <1>1, <2>1, ProbeFacts
  <2>3. Probe(slots, home[key], key) \in DOMAIN slots
    BY <2>1, <2>2, ProbeFacts
  <2>4. QED
    BY <1>1, <2>3 DEF Holds
<1>2. ASSUME Holds(slots, key)
      PROVE  Probe(slots, home[key], key) # -1 /\ slots[Probe(slots, home[key], key)] = key
  <2>1. PICK j \in DOMAIN slots : slots[j] = key
    BY <1>2 DEF Holds
  <2>2. Probe(slots, home[key], key) = j /\ j \in Nat
    BY <2>1 DEF Placed
  <2>3. QED
    BY <2>1, <2>2
<1>3. QED
  BY <1>1, <1>2

(* Filling the slot a search ended at leaves every other search as it was. *)
LEMMA Filled ==
  ASSUME NEW cap \in Nat \ {0}, NEW slots, DOMAIN slots = 0 .. (cap - 1),
         NEW K, NEW home \in [K -> 0 .. (cap - 1)], Placed(slots, home),
         \A j \in DOMAIN slots : slots[j] \in K \cup {None},
         NEW key \in K, None \notin K, Probe(slots, home[key], key) # -1
  PROVE  LET new == [slots EXCEPT ![Probe(slots, home[key], key)] = key] IN
         /\ Placed(new, home)
         /\ Holds(new, key)
         /\ \A x \in K : x # key => (Holds(new, x) <=> Holds(slots, x))
<1> DEFINE p == Probe(slots, home[key], key)
           new == [slots EXCEPT ![p] = key]
<1>1. home[key] \in 0 .. (cap - 1)
  OBVIOUS
<1>2. p \in DOMAIN slots /\ slots[p] \in {key, None}
  <2>1. Hits(slots, home[key], key) # {}
    BY <1>1, ProbeFacts
  <2>2. QED
    BY <1>1, <2>1, ProbeFacts
<1> HIDE DEF p
<1>3. /\ DOMAIN new = 0 .. (cap - 1)
      /\ new[p] = key
      /\ \A j \in DOMAIN slots : j # p => new[j] = slots[j]
  BY <1>2
<1> HIDE DEF new
<1>4. ASSUME NEW j \in DOMAIN new, new[j] # None
      PROVE  Probe(new, home[new[j]], new[j]) = j
  <2> DEFINE x == new[j]
             old == Hits(slots, home[x], x)
             now == Hits(new, home[x], x)
  <2>1. x \in K /\ home[x] \in 0 .. (cap - 1)
    BY <1>2, <1>3, <1>4
  <2>2. old = {k \in 0 .. (cap - 1) : slots[(home[x] + k) % cap] \in {x, None}}
    BY <2>1, ProbeFacts
  <2>3. now = {k \in 0 .. (cap - 1) : new[(home[x] + k) % cap] \in {x, None}}
    BY <2>1, <1>3, ProbeFacts
  <2>4. \A k \in 0 .. (cap - 1) : (home[x] + k) % cap \in 0 .. (cap - 1)
    BY <2>1
  <2>5. Probe(slots, home[x], x) = j
    <3>1. CASE j = p
      BY <1>3, <3>1 DEF p
    <3>2. CASE j # p
      <4>1. slots[j] = x /\ j \in DOMAIN slots
        BY <1>3, <3>2
      <4>2. QED
        BY <4>1, <1>4 DEF Placed
    <3>3. QED
      BY <3>1, <3>2
  <2>6. j \in 0 .. (cap - 1)
    BY <1>3
  <2>7. /\ old # {} /\ Min(old) \in old /\ (\A k \in old : Min(old) <= k)
        /\ (home[x] + Min(old)) % cap = j
    <3> HIDE DEF x
    <3>0. old = {} => Probe(slots, home[x], x) = -1
      BY <2>1, ProbeFacts
    <3>1. old # {}
      BY <2>5, <2>6, <3>0
    <3>2. QED
      BY <2>1, <2>5, <3>1, ProbeFacts
  <2>8. Min(old) \in now
    <3> HIDE DEF old, now
    <3>1. new[j] \in {x, None}
      OBVIOUS
    <3> HIDE DEF x
    <3>2. QED
      BY <2>2, <2>3, <2>7, <3>1
  <2>9. now \subseteq old
    <3> HIDE DEF x
    <3>1. ASSUME NEW k \in now PROVE k \in old
      <4>1. (home[x] + k) % cap \in 0 .. (cap - 1) /\ new[(home[x] + k) % cap] \in {x, None}
        BY <2>3, <2>4, <3>1
      <4>2. slots[(home[x] + k) % cap] \in {x, None}
        BY <1>2, <1>3, <4>1
      <4>3. QED
        BY <2>2, <2>3, <4>2
    <3>2. QED
      BY <3>1
  <2>10. now # {} /\ Min(now) \in now /\ (\A k \in now : Min(now) <= k)
         /\ Probe(new, home[x], x) = (home[x] + Min(now)) % cap
    <3> HIDE DEF x
    <3>1. now # {}
      BY <2>8
    <3>2. QED
      BY <1>3, <2>1, <3>1, ProbeFacts
  <2>11. Min(now) = Min(old)
    <3>1. old \subseteq Nat
      BY <2>2
    <3>2. Min(old) \in Nat /\ Min(now) \in Nat
      BY <2>7, <2>9, <2>10, <3>1
    <3>3. Min(old) <= Min(now) /\ Min(now) <= Min(old)
      BY <2>7, <2>8, <2>9, <2>10
    <3> HIDE DEF old, now
    <3>4. QED
      BY <3>2, <3>3
  <2>12. QED
    BY <2>7, <2>10, <2>11
<1>5. Holds(new, key)
  BY <1>2, <1>3 DEF Holds
<1>6. ASSUME NEW x \in K, x # key PROVE Holds(new, x) <=> Holds(slots, x)
  BY <1>2, <1>3, <1>6 DEF Holds
<1>7. Placed(new, home)
  BY <1>4 DEF Placed
<1>8. QED
  BY <1>5, <1>6, <1>7 DEF new, p

-----------------------------------------------------------------------------
(* The registry.                                                           *)

LEMMA Capacities ==
  /\ TypeCapacity \in Nat \ {0} /\ InstanceCapacity \in Nat \ {0} /\ SubMap \in Nat \ {0}
  /\ TypeHome \in [Types -> 0 .. (TypeCapacity - 1)]
  /\ NameHome \in [Names -> 0 .. (InstanceCapacity - 1)]
  /\ None \notin Types /\ None \notin Names /\ None \notin Id /\ Any \notin Names
  /\ "cut" \notin Names /\ Lines \subseteq Nat \ {0}
<1>1. MaxLines \in Nat
  BY ModulesAssumption
<1>2. QED
  BY ModulesAssumption, <1>1 DEF Lines

(* Whoever is registered is found, by type and by name.                    *)
LEMMA Registered ==
  ASSUME TablesSound
  PROVE  /\ \A t \in Types : HasType(t) <=> Holds(table, t)
         /\ \A t \in Types : \A n : Find(t, n) = IF n \in Names /\ <<t, n>> \in DOMAIN inst
                                           THEN <<t, n>> ELSE None
<1>1. ASSUME NEW t \in Types PROVE HasType(t) <=> Holds(table, t)
  <2>1. DOMAIN table = 0 .. (TypeCapacity - 1) /\ Placed(table, TypeHome)
    BY DEF TablesSound
  <2>2. (Probe(table, TypeHome[t], t) # -1 /\ table[Probe(table, TypeHome[t], t)] = t)
           <=> Holds(table, t)
    BY <2>1, Capacities, Found, SMTT(30)
  <2>3. QED
    BY <2>2 DEF HasType, TypeSlot
<1>2. ASSUME NEW t \in Types, NEW n \in Names
      PROVE  Find(t, n) = IF <<t, n>> \in DOMAIN inst THEN <<t, n>> ELSE None
  <2>1. DOMAIN sub[t] = 0 .. (InstanceCapacity - 1) /\ Placed(sub[t], NameHome)
    BY DEF TablesSound
  <2>2. (Probe(sub[t], NameHome[n], n) # -1 /\ sub[t][Probe(sub[t], NameHome[n], n)] = n)
           <=> Holds(sub[t], n)
    BY <2>1, Capacities, Found
  <2>3. Holds(sub[t], n) <=> <<t, n>> \in DOMAIN inst
    BY DEF TablesSound
  <2>4. Holds(sub[t], n) => HasType(t)
    BY <1>1 DEF TablesSound
  <2>5. QED
    BY <2>2, <2>3, <2>4 DEF Find, NameSlot
<1>3. ASSUME NEW t \in Types, NEW n, n \notin Names PROVE Find(t, n) = None
  BY <1>3 DEF Find
<1>4. QED
  BY <1>1, <1>2, <1>3

(* The name an anonymous import is given is that of a registered instance, *)
(* as far as Strlcpy keeps it.                                             *)
LEMMA Resolved ==
  ASSUME TablesSound, NEW t \in Types
  PROVE  \/ /\ ResolveName(t) = None
            /\ \A n \in Names : <<t, n>> \notin DOMAIN inst
         \/ \E n \in Names : <<t, n>> \in DOMAIN inst /\ ResolveName(t) = Cut(n)
<1>1. CASE ~HasType(t)
  <2>1. \A n \in Names : ~Holds(sub[t], n)
    BY <1>1, Registered DEF TablesSound
  <2>2. QED
    BY <1>1, <2>1 DEF TablesSound, ResolveName
<1>2. CASE HasType(t)
  <2> DEFINE S == {j \in DOMAIN sub[t] : sub[t][j] # None}
  <2>1. sub[t] \in [0 .. (InstanceCapacity - 1) -> Names \cup {None}]
    BY DEF TablesSound
  <2>2. S # {}
    <3>1. PICK n \in Names : Holds(sub[t], n)
      BY <1>2, Registered DEF TablesSound
    <3>2. n # None
      BY Capacities
    <3>3. QED
      BY <3>1, <3>2 DEF Holds
  <2>3. Min(S) \in S
    <3>1. S \in SUBSET Nat
      <4>1. DOMAIN sub[t] \subseteq Nat
        BY <2>1, Capacities
      <4>2. QED
        BY <4>1
    <3> HIDE DEF S
    <3>2. QED
      BY <2>2, <3>1, Least
  <2>4. sub[t][Min(S)] \in Names /\ Holds(sub[t], sub[t][Min(S)])
    BY <2>1, <2>3 DEF Holds
  <2>5. ResolveName(t) = Cut(sub[t][Min(S)])
    BY <1>2 DEF ResolveName
  <2> HIDE DEF S
  <2>6. QED
    BY <2>4, <2>5 DEF TablesSound
<1>3. QED
  BY <1>1, <1>2

(* The provider of an import is one of its candidates; there is none only  *)
(* without candidates, or because of a name that is too long.              *)
LEMMA Provided ==
  ASSUME TablesSound, DOMAIN inst \subseteq Id, NEW h \in Handle
  PROVE  /\ Provider(h) \in DOMAIN inst \cup {None}
         /\ Provider(h) # None => Provider(h) \in Candidates(h)
         /\ Provider(h) = None => \/ Candidates(h) = {}
                                  \/ h.name = Any /\ \E c \in Candidates(h) : c[2] \in Long
<1>1. h.type \in Types /\ h.name \in Names \cup {Any}
  BY DEF Handle
<1>2. ASSUME NEW n \in Names, <<h.type, n>> \in DOMAIN inst, h.name \in {Any, n}
      PROVE  <<h.type, n>> \in Candidates(h)
  BY <1>2 DEF Candidates
<1>3. ASSUME NEW c \in Candidates(h)
      PROVE  c \in DOMAIN inst /\ c[2] \in Names /\ c = <<h.type, c[2]>> /\ h.name \in {Any, c[2]}
  BY <1>3 DEF Candidates, Id
<1>4. CASE h.name # Any
  <2>1. Provider(h) = IF <<h.type, h.name>> \in DOMAIN inst THEN <<h.type, h.name>> ELSE None
    BY <1>1, <1>4, Registered DEF Provider
  <2>2. CASE <<h.type, h.name>> \in DOMAIN inst
    <3>1. <<h.type, h.name>> # None
      BY <2>2, Capacities
    <3>2. QED
      BY <1>1, <1>2, <1>4, <2>1, <2>2, <3>1
  <2>3. CASE <<h.type, h.name>> \notin DOMAIN inst
    <3>1. Candidates(h) = {}
      BY <1>3, <1>4, <2>3
    <3>2. QED
      BY <2>1, <2>3, <3>1
  <2>4. QED
    BY <2>2, <2>3
<1>5. CASE h.name = Any
  <2>1. Provider(h) = Find(h.type, ResolveName(h.type))
    BY <1>5 DEF Provider
  <2>2. CASE ResolveName(h.type) = None /\ \A n \in Names : <<h.type, n>> \notin DOMAIN inst
    <3>1. Provider(h) = None
      BY <1>1, <2>1, <2>2, Registered, Capacities
    <3>2. Candidates(h) = {}
      BY <1>3, <2>2
    <3>3. QED
      BY <3>1, <3>2
  <2>3. CASE \E n \in Names : <<h.type, n>> \in DOMAIN inst /\ ResolveName(h.type) = Cut(n)
    <3>1. PICK n \in Names : <<h.type, n>> \in DOMAIN inst /\ ResolveName(h.type) = Cut(n)
      BY <2>3
    <3>2. <<h.type, n>> \in Candidates(h)
      BY <1>2, <1>5, <3>1
    <3>3. CASE n \in Long
      <4>1. Provider(h) = None
        BY <1>1, <2>1, <3>1, <3>3, Registered, Capacities DEF Cut
      <4>2. <<h.type, n>>[2] \in Long
        BY <3>3
      <4>3. QED
        BY <1>5, <3>2, <4>1, <4>2
    <3>4. CASE n \notin Long
      <4>1. Provider(h) = <<h.type, n>>
        BY <1>1, <2>1, <3>1, <3>4, Registered DEF Cut
      <4>2. <<h.type, n>> # None
        BY <3>1, Capacities
      <4>3. QED
        BY <3>1, <3>2, <4>1, <4>2
    <3>5. QED
      BY <3>3, <3>4
  <2>4. QED
    BY <1>1, <2>2, <2>3, Resolved
<1>6. QED
  BY <1>4, <1>5

(* Registering an export keeps the tables well formed.                     *)
LEMMA PutTables ==
  ASSUME TablesSound, pool \in Nat, NEW f, f.type \in Types \cup {None}, f.name \in Names,
         CanPut(f), RegistryPut(f)
  PROVE  TablesSound' /\ pool' \in Nat
<1> DEFINE t == f.type
           n == f.name
<1>1. /\ t \in Types /\ n \in Names
      /\ Probe(table, TypeHome[t], t) # -1
      /\ Probe(sub[t], NameHome[n], n) # -1
  BY DEF CanPut, TypeSlot, NameSlot
<1>2. /\ table' = [table EXCEPT ![Probe(table, TypeHome[t], t)] = t]
      /\ sub' = [sub EXCEPT ![t][Probe(sub[t], NameHome[n], n)] = n]
      /\ DOMAIN inst' = DOMAIN inst \cup {<<t, n>>}
  BY DEF RegistryPut, TypeSlot, NameSlot
<1>3. pool' \in Nat
  <2>1. SubMap \in Nat
    BY Capacities
  <2>2. QED
    BY <2>1 DEF CanPut, HasRoom, RegistryPut
<1> HIDE DEF t, n
<1>4. /\ table' \in [0 .. (TypeCapacity - 1) -> Types \cup {None}]
      /\ Placed(table', TypeHome)
      /\ Holds(table', t)
      /\ \A x \in Types : x # t => (Holds(table', x) <=> Holds(table, x))
  <2>1. /\ table \in [0 .. (TypeCapacity - 1) -> Types \cup {None}]
        /\ Placed(table, TypeHome)
    BY DEF TablesSound
  <2>2. table' \in [0 .. (TypeCapacity - 1) -> Types \cup {None}]
    BY <1>1, <1>2, <2>1
  <2>3. DOMAIN table = 0 .. (TypeCapacity - 1)
        /\ \A j \in DOMAIN table : table[j] \in Types \cup {None}
    BY <2>1
  <2>4. QED
    BY <1>1, <1>2, <2>1, <2>2, <2>3, Capacities, Filled
<1> DEFINE new == [sub[t] EXCEPT ![Probe(sub[t], NameHome[n], n)] = n]
<1>5. /\ new \in [0 .. (InstanceCapacity - 1) -> Names \cup {None}]
      /\ Placed(new, NameHome)
      /\ Holds(new, n)
      /\ \A x \in Names : x # n => (Holds(new, x) <=> Holds(sub[t], x))
  <2>1. /\ sub[t] \in [0 .. (InstanceCapacity - 1) -> Names \cup {None}]
        /\ Placed(sub[t], NameHome)
    BY <1>1 DEF TablesSound
  <2>2. new \in [0 .. (InstanceCapacity - 1) -> Names \cup {None}]
    BY <1>1, <2>1
  <2>3. DOMAIN sub[t] = 0 .. (InstanceCapacity - 1)
        /\ \A j \in DOMAIN sub[t] : sub[t][j] \in Names \cup {None}
    BY <2>1
  <2>4. QED
    BY <1>1, <2>1, <2>2, <2>3, Capacities, Filled
<1>6. /\ sub' \in [Types -> [0 .. (InstanceCapacity - 1) -> Names \cup {None}]]
      /\ sub'[t] = new
      /\ \A x \in Types : x # t => sub'[x] = sub[x]
  <2>1. sub \in [Types -> [0 .. (InstanceCapacity - 1) -> Names \cup {None}]]
    BY DEF TablesSound
  <2>2. sub' = [sub EXCEPT ![t] = new]
    BY <1>2
  <2> HIDE DEF new
  <2>3. QED
    BY <1>1, <1>5, <2>1, <2>2
<1> HIDE DEF new
<1>7. ASSUME NEW x \in Types, NEW y \in Names
      PROVE  Holds(sub'[x], y) <=> <<x, y>> \in DOMAIN inst'
  <2>1. Holds(sub[x], y) <=> <<x, y>> \in DOMAIN inst
    BY DEF TablesSound
  <2>2. CASE x # t
    BY <1>2, <1>6, <2>1, <2>2
  <2>3. CASE x = t /\ y # n
    BY <1>2, <1>5, <1>6, <2>1, <2>3
  <2>4. CASE x = t /\ y = n
    BY <1>2, <1>5, <1>6, <2>4
  <2>5. QED
    BY <2>2, <2>3, <2>4
<1>8. ASSUME NEW x \in Types
      PROVE  Holds(table', x) <=> \E y \in Names : Holds(sub'[x], y)
  <2>1. Holds(table, x) <=> \E y \in Names : Holds(sub[x], y)
    BY DEF TablesSound
  <2>2. CASE x = t
    BY <1>1, <1>4, <1>5, <1>6, <2>2
  <2>3. CASE x # t
    BY <1>4, <1>6, <2>1, <2>3
  <2>4. QED
    BY <2>2, <2>3
<1>9. \A x \in Types : Placed(sub'[x], NameHome)
  BY <1>5, <1>6 DEF TablesSound
<1>10. QED
  BY <1>3, <1>4, <1>6, <1>7, <1>8, <1>9 DEF TablesSound

-----------------------------------------------------------------------------
(* Loading the files.                                                      *)

Joined(r, s, u) ==
  /\ Len(r) = Len(s) + Len(u) /\ DOMAIN r = 1 .. (Len(s) + Len(u))
  /\ DOMAIN s = 1 .. Len(s) /\ Len(s) \in Nat
  /\ \A k \in 1 .. (Len(s) + Len(u)) :
        r[k] = IF k <= Len(s) THEN s[k] ELSE u[k - Len(s)]

LEMMA Concatenated ==
  ASSUME NEW T, NEW s \in Seq(T), NEW u \in Seq(T)
  PROVE  s \o u \in Seq(T) /\ Joined(s \o u, s, u)
<1>1. s \o u \in Seq(T) /\ Len(s \o u) = Len(s) + Len(u)
  OBVIOUS
<1>2. DOMAIN (s \o u) = 1 .. (Len(s) + Len(u))
  BY <1>1
<1>3. DOMAIN s = 1 .. Len(s) /\ Len(s) \in Nat
  OBVIOUS
<1>4. \A k \in 1 .. (Len(s) + Len(u)) :
        (s \o u)[k] = IF k <= Len(s) THEN s[k] ELSE u[k - Len(s)]
  OBVIOUS
<1>5. QED
  BY <1>1, <1>2, <1>3, <1>4 DEF Joined

LEMMA Entries ==
  ASSUME InstancesSound
  PROVE  \A i \in DOMAIN inst :
           /\ inst[i] \in Entry /\ inst[i].file \in Lines /\ inst[i].entry \in BOOLEAN
           /\ inst[i].file \in Nat
           /\ inst[i].deps \in Seq(Id \cup {None}) /\ inst[i].inited \in BOOLEAN
           /\ i \in Id /\ i # None
<1>1. \A i \in DOMAIN inst : inst[i] \in Entry /\ i \in Id
  BY DEF InstancesSound
<1>2. QED
  BY <1>1, Capacities DEF Entry

(* No two instances are of the same file.                                  *)
LEMMA Distinct ==
  ASSUME InstancesSound
  PROVE  \A i, j \in DOMAIN inst : inst[i].file = inst[j].file => i = j
<1>1. ASSUME NEW i \in DOMAIN inst, NEW j \in DOMAIN inst, inst[i].file = inst[j].file
      PROVE  i = j
  <2>1. i \in Types \X Names /\ j \in Types \X Names
    BY DEF InstancesSound, Id
  <2>2. i[1] = j[1] /\ i[2] = j[2]
    BY <1>1 DEF InstancesSound
  <2>3. QED
    BY <2>1, <2>2
<1>2. QED
  BY <1>1

(* A file replaced by a later one leaves a loop in the list of modules.    *)
LEMMA Replaced ==
  ASSUME InstancesSound, Chained, NEW id \in DOMAIN inst
  PROVE  LET S == {i \in DOMAIN inst : inst[id].file <= inst[i].file} IN
         /\ id \in S /\ head \in S
         /\ \A i \in S : i # id => inst[i].next \in S
<1> DEFINE S == {i \in DOMAIN inst : inst[id].file <= inst[i].file}
<1>1. \A i \in DOMAIN inst : inst[i].file \in Nat /\ i # None
  BY Entries
<1>2. id \in S
  BY <1>1
<1>3. head \in S
  BY <1>1 DEF Chained, InstancesSound
<1>4. ASSUME NEW i \in S, i # id PROVE inst[i].next \in S
  <2>1. inst[id].file # inst[i].file
    BY <1>4, Distinct
  <2>2. inst[id].file < inst[i].file
    BY <1>1, <2>1
  <2>3. ~(inst[i].file <= inst[id].file)
    BY <1>1, <2>2
  <2>4. inst[i].next # None /\ inst[id].file <= inst[inst[i].next].file
    BY <2>3 DEF Chained
  <2>5. inst[i].next \in DOMAIN inst
    BY <2>4 DEF InstancesSound
  <2>6. QED
    BY <2>4, <2>5
<1>5. QED
  BY <1>2, <1>3, <1>4

LEMMA FileTyped ==
  ASSUME config \in Seq(Files), at \in Nat \ {0}, at <= Len(config)
  PROVE  LET f == config[at] IN
         /\ at \in DOMAIN config /\ f.type \in Types \cup {None} /\ f.name \in Names
         /\ f.imports \in Seq(Import) /\ f.entry \in BOOLEAN
<1>1. at \in DOMAIN config /\ config[at] \in Files
  OBVIOUS
<1>2. QED
  BY <1>1, ModulesAssumption

LEMMA PutStep ==
  ASSUME IInv, Load_Module, CanPut(config[at])
  PROVE  IInv'
<1> DEFINE f == config[at]
           id == <<f.type, f.name>>
           entry == [file |-> at, entry |-> f.entry, deps |-> <<>>, inited |-> FALSE,
                     next |-> head]
<1>1. /\ stage = "load" /\ at <= Len(config) /\ RegistryPut(f)
      /\ handles' = handles \o Handles(f)
      /\ at' = at + 1
      /\ config' = config /\ stage' = stage /\ bound' = bound /\ current' = current
      /\ stack' = stack /\ started' = started /\ checked' = checked
  BY DEF Load_Module
<1>2. /\ config \in Seq(Files) /\ DOMAIN config \subseteq Lines /\ at \in Nat \ {0}
      /\ pool \in Nat
      /\ TablesSound /\ InstancesSound /\ ImportsSound /\ StagesSound /\ StackSound
      /\ (Chained /\ Covered) \/ Looped
  BY DEF IInv
<1>3. /\ at \in DOMAIN config /\ at \in Lines
      /\ f.type \in Types /\ f.name \in Names /\ f.imports \in Seq(Import)
      /\ f.entry \in BOOLEAN
  BY <1>1, <1>2, FileTyped DEF CanPut
<1>4. TablesSound' /\ pool' \in Nat
  BY <1>1, <1>2, <1>3, PutTables
<1>5. /\ bound = <<>> /\ stack = <<>> /\ current = None
      /\ \A i \in DOMAIN inst : inst[i].deps = <<>> /\ ~inst[i].inited
  BY <1>1, <1>2 DEF StagesSound
<1>6. id \in Id /\ entry \in Entry
  <2>1. head \in Id \cup {None}
    BY <1>2 DEF InstancesSound
  <2>2. QED
    BY <1>3, <2>1 DEF Id, Entry
<1>7. /\ inst' = [i \in DOMAIN inst \cup {id} |-> IF i = id THEN entry ELSE inst[i]]
      /\ head' = id
  BY <1>1 DEF RegistryPut
<1>8. /\ entry.file = at /\ entry.entry = f.entry /\ entry.deps = <<>>
      /\ entry.inited = FALSE /\ entry.next = head
  OBVIOUS
<1>9. id[1] = f.type /\ id[2] = f.name
  OBVIOUS
<1> HIDE DEF entry, id
<1>10. /\ DOMAIN inst' = DOMAIN inst \cup {id}
       /\ inst'[id] = entry
       /\ \A i \in DOMAIN inst' : i # id => i \in DOMAIN inst /\ inst'[i] = inst[i]
  BY <1>7
<1>11. \A i \in DOMAIN inst : inst[i].file \in Nat /\ inst[i].file < at
  BY <1>1, <1>2, Entries DEF InstancesSound
<1>12. InstancesSound'
  <2>1. inst' \in [DOMAIN inst' -> Entry] /\ DOMAIN inst' \subseteq Id
    BY <1>2, <1>6, <1>7 DEF InstancesSound
  <2>2. head' \in DOMAIN inst' \cup {None} /\ current' \in DOMAIN inst' \cup {None}
    BY <1>1, <1>5, <1>7, <1>10
  <2>3. ASSUME NEW i \in DOMAIN inst', i = id
        PROVE  /\ inst'[i].file \in DOMAIN config
               /\ config[inst'[i].file].type = i[1] /\ config[inst'[i].file].name = i[2]
               /\ inst'[i].entry = config[inst'[i].file].entry
               /\ inst'[i].next \in DOMAIN inst' \cup {None}
               /\ Range(inst'[i].deps) \subseteq DOMAIN inst' \cup {None}
               /\ inst'[i].file < at'
    <3>1. Range(<<>>) = {}
      BY DEF Range
    <3>2. head \in DOMAIN inst \cup {None}
      BY <1>2 DEF InstancesSound
    <3>3. at < at'
      BY <1>1, <1>2
    <3>4. QED
      BY <1>3, <1>8, <1>9, <1>10, <2>3, <3>1, <3>2, <3>3
  <2>4. ASSUME NEW i \in DOMAIN inst', i # id
        PROVE  /\ inst'[i].file \in DOMAIN config
               /\ config[inst'[i].file].type = i[1] /\ config[inst'[i].file].name = i[2]
               /\ inst'[i].entry = config[inst'[i].file].entry
               /\ inst'[i].next \in DOMAIN inst' \cup {None}
               /\ Range(inst'[i].deps) \subseteq DOMAIN inst' \cup {None}
               /\ inst'[i].file < at'
    <3>1. i \in DOMAIN inst /\ inst'[i] = inst[i]
      BY <1>10, <2>4
    <3>2. inst[i].file < at'
      BY <1>1, <1>2, <1>11, <3>1
    <3>3. QED
      BY <1>2, <1>10, <3>1, <3>2 DEF InstancesSound
  <2>5. QED
    BY <1>1, <2>1, <2>2, <2>3, <2>4 DEF InstancesSound
<1>13. ImportsSound'
  <2> DEFINE added == Handles(f)
  <2>1. DOMAIN f.imports = 1 .. Len(f.imports) /\ Len(f.imports) \in Nat
    BY <1>3
  <2>2. /\ added = [i \in 1 .. Len(f.imports) |->
                      [type |-> f.imports[i].type, name |-> f.imports[i].name,
                       parent |-> id, file |-> at]]
    BY <2>1 DEF Handles, id
  <2>3. ASSUME NEW i \in 1 .. Len(f.imports)
        PROVE  added[i] \in Handle /\ added[i].parent = id /\ added[i].file = at
    <3>1. f.imports[i] \in Import
      BY <1>3, <2>1
    <3>2. QED
      BY <1>3, <1>6, <2>2, <3>1 DEF Handle, Import
  <2> HIDE DEF added
  <2>4. added \in Seq(Handle) /\ Len(added) = Len(f.imports)
    <3> DEFINE n == Len(f.imports)
    <3>1. added \in [1 .. n -> Handle] /\ n \in Nat
      BY <2>1, <2>2, <2>3
    <3> HIDE DEF n
    <3>2. added \in Seq(Handle) /\ Len(added) = n
      BY <3>1
    <3>3. QED
      BY <3>2 DEF n
  <2>5. handles \in Seq(Handle)
    BY <1>2 DEF ImportsSound
  <2>6. /\ handles' \in Seq(Handle) /\ Len(handles') = Len(handles) + Len(added)
        /\ DOMAIN handles' = 1 .. (Len(handles) + Len(added))
        /\ DOMAIN handles = 1 .. Len(handles) /\ Len(handles) \in Nat
        /\ \A k \in 1 .. (Len(handles) + Len(added)) :
              handles'[k] = IF k <= Len(handles) THEN handles[k] ELSE added[k - Len(handles)]
    <3>1. handles' = handles \o added
      BY <1>1 DEF added
    <3> HIDE DEF added
    <3>2. handles' \in Seq(Handle) /\ Joined(handles', handles, added)
      BY <2>4, <2>5, <3>1, Concatenated
    <3>3. QED
      BY <3>2 DEF Joined
  <2>7. ASSUME NEW k \in DOMAIN handles'
        PROVE  /\ handles'[k].parent \in DOMAIN inst'
               /\ handles'[k].file \in DOMAIN config
               /\ handles'[k].parent = <<config[handles'[k].file].type,
                                         config[handles'[k].file].name>>
    <3>1. CASE k <= Len(handles)
      <4>1. handles'[k] = handles[k] /\ k \in DOMAIN handles
        BY <2>6, <3>1
      <4>2. QED
        BY <1>2, <1>10, <4>1 DEF ImportsSound
    <3>2. CASE k > Len(handles)
      <4>1. handles'[k] = added[k - Len(handles)] /\ k - Len(handles) \in 1 .. Len(f.imports)
        BY <2>4, <2>6, <3>2
      <4>2. handles'[k].parent = id /\ handles'[k].file = at
        BY <2>3, <4>1
      <4>3. QED
        BY <1>3, <1>10, <4>2 DEF id
    <3>3. QED
      BY <2>6, <3>1, <3>2
  <2>8. bound' = <<>> /\ Len(bound') <= Len(handles') /\ DOMAIN bound' = {}
    BY <1>1, <1>5, <2>6, <2>4
  <2>9. \A i \in DOMAIN inst' : None \notin Range(inst'[i].deps)
    BY <1>5, <1>8, <1>10 DEF Range
  <2>10. QED
    BY <1>1, <2>6, <2>7, <2>8, <2>9, SMTT(30) DEF ImportsSound
<1>14. \A i \in DOMAIN inst' : inst'[i].deps = <<>> /\ ~inst'[i].inited
  BY <1>5, <1>8, <1>10
<1>15. StagesSound'
  <2>1. {inst'[i].file : i \in {j \in DOMAIN inst' : inst'[j].inited /\ inst'[j].entry}} = {}
    BY <1>14
  <2>2. started = {}
    BY <1>2, <1>5 DEF StagesSound
  <2>3. checked = {}
    BY <1>1, <1>2 DEF StagesSound
  <2>4. QED
    BY <1>1, <1>5, <1>14, <2>1, <2>2, <2>3 DEF StagesSound
<1>16. StackSound'
  BY <1>1, <1>5 DEF StackSound, Frames
<1>17. (Chained' /\ Covered') \/ Looped'
  <2>1. CASE Chained /\ id \notin DOMAIN inst
    <3>1. \A i \in DOMAIN inst : inst'[i] = inst[i] /\ i # id
      BY <1>10, <2>1
    <3>2. ASSUME NEW j \in DOMAIN inst' PROVE inst'[j].file <= inst'[head'].file
      <4>1. CASE j = id
        BY <1>2, <1>7, <1>8, <1>10, <4>1
      <4>2. CASE j # id
        BY <1>2, <1>7, <1>8, <1>10, <1>11, <4>2
      <4>3. QED
        BY <4>1, <4>2
    <3>3. CASE head = None
      <4>1. DOMAIN inst = {}
        BY <2>1, <3>3 DEF Chained
      <4>2. \A i \in DOMAIN inst' : i = id
        BY <1>10, <4>1
      <4>3. inst'[id].next = None /\ at <= at
        BY <1>2, <1>8, <1>10, <3>3
      <4>4. head' # None
        BY <1>6, <1>7, Capacities
      <4>5. \A i, j \in DOMAIN inst' : inst'[i].next = None /\ inst'[i].file <= inst'[j].file
        BY <1>8, <1>10, <4>2, <4>3
      <4>6. QED
        BY <1>1, <3>2, <4>4, <4>5 DEF Chained, Covered
    <3>4. CASE head # None
      <4>1. head \in DOMAIN inst /\ \A j \in DOMAIN inst : inst[j].file <= inst[head].file
        BY <1>2, <2>1, <3>4 DEF Chained, InstancesSound
      <4>2. \/ inst'[id].next = None /\ \A j \in DOMAIN inst' : inst'[id].file <= inst'[j].file
            \/ /\ inst'[id].next # None /\ inst'[inst'[id].next].file < inst'[id].file
               /\ \A j \in DOMAIN inst' : \/ inst'[j].file <= inst'[inst'[id].next].file
                                          \/ inst'[id].file <= inst'[j].file
        <5>1. inst'[id].next = head /\ inst'[head] = inst[head] /\ inst'[id].file = at
          BY <1>8, <1>10, <3>1, <4>1
        <5>2. at <= at
          BY <1>2
        <5>3. QED
          BY <1>8, <1>10, <1>11, <3>1, <3>4, <4>1, <5>1, <5>2
      <4>3. ASSUME NEW i \in DOMAIN inst
            PROVE  \/ inst'[i].next = None
                      /\ \A j \in DOMAIN inst' : inst'[i].file <= inst'[j].file
                   \/ /\ inst'[i].next # None /\ inst'[inst'[i].next].file < inst'[i].file
                      /\ \A j \in DOMAIN inst' : \/ inst'[j].file <= inst'[inst'[i].next].file
                                                 \/ inst'[i].file <= inst'[j].file
        <5>1. inst[i].file <= inst'[id].file
          BY <1>2, <1>8, <1>10, <1>11
        <5>2. inst[i].next \in DOMAIN inst \cup {None}
          BY <1>2 DEF InstancesSound
        <5>3. CASE inst[i].next = None /\ \A j \in DOMAIN inst : inst[i].file <= inst[j].file
          BY <1>10, <3>1, <5>1, <5>3
        <5>4. CASE /\ inst[i].next # None /\ inst[inst[i].next].file < inst[i].file
                   /\ \A j \in DOMAIN inst : \/ inst[j].file <= inst[inst[i].next].file
                                             \/ inst[i].file <= inst[j].file
          <6>1. inst[i].next \in DOMAIN inst /\ inst'[inst[i].next] = inst[inst[i].next]
            BY <3>1, <5>2, <5>4
          <6>2. QED
            BY <1>10, <3>1, <5>1, <5>4, <6>1
        <5>5. QED
          BY <2>1, <5>3, <5>4 DEF Chained
      <4>4. head' # None
        BY <1>6, <1>7, Capacities
      <4>5. Chained'
        BY <1>10, <3>2, <4>2, <4>3, <4>4 DEF Chained
      <4>6. QED
        BY <1>1, <4>5 DEF Covered
    <3>5. QED
      BY <3>3, <3>4
  <2>2. CASE Chained /\ id \in DOMAIN inst
    <3>1. PICK S : /\ S \in SUBSET DOMAIN inst /\ id \in S /\ head \in S
                   /\ \A i \in S : i # id => inst[i].next \in S
      BY <1>2, <2>2, Replaced
    <3>2. \A i \in S : inst'[i].next \in S
      BY <1>8, <1>10, <3>1
    <3>3. S \in SUBSET DOMAIN inst' /\ head' \in S
      BY <1>7, <1>10, <3>1
    <3>4. QED
      BY <1>1, <3>2, <3>3 DEF Looped
  <2>3. CASE Looped
    <3>1. PICK S \in SUBSET DOMAIN inst : head \in S /\ \A i \in S : inst[i].next \in S
      BY <2>3 DEF Looped
    <3>2. \A i \in S \cup {id} : inst'[i].next \in S \cup {id}
      BY <1>8, <1>10, <3>1
    <3>3. S \cup {id} \in SUBSET DOMAIN inst' /\ head' \in S \cup {id}
      BY <1>7, <1>10, <3>1
    <3>4. QED
      BY <1>1, <3>2, <3>3 DEF Looped
  <2>4. QED
    BY <1>2, <2>1, <2>2, <2>3
<1>18. /\ config' \in Seq(Files) /\ DOMAIN config' \subseteq Lines /\ at' \in Nat \ {0}
  BY <1>1, <1>2
<1>19. QED
  BY <1>4, <1>12, <1>13, <1>15, <1>16, <1>17, <1>18 DEF IInv

-----------------------------------------------------------------------------
(* Steps that leave the registry as it is.                                 *)

(* The entries stay those of the same files, linked the same way.          *)
Kept ==
  /\ DOMAIN inst' = DOMAIN inst /\ inst' \in [DOMAIN inst -> Entry]
  /\ \A i \in DOMAIN inst : /\ inst'[i].file = inst[i].file
                            /\ inst'[i].entry = inst[i].entry
                            /\ inst'[i].next = inst[i].next

LEMMA KeptUnchanged ==
  ASSUME InstancesSound, inst' = inst
  PROVE  Kept
BY DEF Kept, InstancesSound

LEMMA KeptTables ==
  ASSUME TablesSound, Kept, table' = table, sub' = sub
  PROVE  TablesSound'
BY DEF TablesSound, Kept

LEMMA KeptInstances ==
  ASSUME InstancesSound, Kept, config' = config, head' = head,
         current' \in DOMAIN inst \cup {None}, stage' # "load",
         \A i \in DOMAIN inst : Range(inst'[i].deps) \subseteq DOMAIN inst \cup {None}
  PROVE  InstancesSound'
<1>1. inst' \in [DOMAIN inst' -> Entry] /\ DOMAIN inst' \subseteq Id
  BY DEF InstancesSound, Kept
<1>2. ASSUME NEW i \in DOMAIN inst'
      PROVE  /\ inst'[i].file \in DOMAIN config'
             /\ config'[inst'[i].file].type = i[1] /\ config'[inst'[i].file].name = i[2]
             /\ inst'[i].entry = config'[inst'[i].file].entry
             /\ inst'[i].next \in DOMAIN inst' \cup {None}
             /\ Range(inst'[i].deps) \subseteq DOMAIN inst' \cup {None}
  BY <1>2 DEF InstancesSound, Kept
<1>3. head' \in DOMAIN inst' \cup {None} /\ current' \in DOMAIN inst' \cup {None}
  BY DEF InstancesSound, Kept
<1>4. QED
  BY <1>1, <1>2, <1>3 DEF InstancesSound

LEMMA KeptProvider ==
  ASSUME table' = table, sub' = sub, NEW h
  PROVE  Provider(h)' = Provider(h)
BY DEF Provider, Find, ResolveName, HasType, TypeSlot, NameSlot

LEMMA KeptImports ==
  ASSUME TablesSound, InstancesSound, ImportsSound, Kept,
         \A i \in DOMAIN inst : inst'[i].deps = inst[i].deps,
         config' = config, table' = table, sub' = sub, handles' = handles, bound' = bound
  PROVE  ImportsSound'
<1>1. ASSUME NEW k \in DOMAIN handles'
      PROVE  /\ handles'[k].parent \in DOMAIN inst'
             /\ handles'[k].file \in DOMAIN config'
             /\ handles'[k].parent = <<config'[handles'[k].file].type,
                                       config'[handles'[k].file].name>>
  BY <1>1 DEF ImportsSound, Kept
<1>2. ASSUME NEW k \in DOMAIN bound'
      PROVE  /\ bound'[k] = FileOf(Provider(handles[k]))'
             /\ Provider(handles[k])' \in Range(inst'[handles'[k].parent].deps)
  <2>1. Provider(handles[k])' = Provider(handles[k])
    BY KeptProvider
  <2>2. k \in DOMAIN handles /\ handles[k] \in Handle
    BY <1>2 DEF ImportsSound
  <2>3. Provider(handles[k]) \in DOMAIN inst \cup {None}
    BY <2>2, Provided DEF InstancesSound
  <2>4. FileOf(Provider(handles[k]))' = FileOf(Provider(handles[k]))
    BY <2>1, <2>3 DEF FileOf, Kept
  <2>5. handles[k].parent \in DOMAIN inst
    BY <2>2 DEF ImportsSound
  <2>6. QED
    BY <1>2, <2>1, <2>4, <2>5 DEF ImportsSound
<1>3. ASSUME NEW i \in DOMAIN inst', None \in Range(inst'[i].deps)
      PROVE  \E k \in DOMAIN bound' : bound'[k] = 0
  BY <1>3 DEF ImportsSound, Kept
<1>4. handles' \in Seq(Handle) /\ bound' \in Seq(Nat) /\ Len(bound') <= Len(handles')
  BY DEF ImportsSound
<1>5. QED
  BY <1>1, <1>2, <1>3, <1>4 DEF ImportsSound

LEMMA KeptChained ==
  ASSUME InstancesSound, Chained, Kept, head' = head
  PROVE  Chained'
<1>1. \A i \in DOMAIN inst : inst[i].next \in DOMAIN inst \cup {None}
  BY DEF InstancesSound
<1>2. ASSUME NEW i \in DOMAIN inst
      PROVE  \/ inst'[i].next = None /\ \A j \in DOMAIN inst : inst'[i].file <= inst'[j].file
             \/ /\ inst'[i].next # None /\ inst'[inst'[i].next].file < inst'[i].file
                /\ \A j \in DOMAIN inst : \/ inst'[j].file <= inst'[inst'[i].next].file
                                          \/ inst'[i].file <= inst'[j].file
  <2>1. CASE inst[i].next = None /\ \A j \in DOMAIN inst : inst[i].file <= inst[j].file
    BY <2>1 DEF Kept
  <2>2. CASE /\ inst[i].next # None /\ inst[inst[i].next].file < inst[i].file
             /\ \A j \in DOMAIN inst : \/ inst[j].file <= inst[inst[i].next].file
                                       \/ inst[i].file <= inst[j].file
    BY <1>1, <2>2 DEF Kept
  <2>3. QED
    BY <2>1, <2>2 DEF Chained
<1>3. /\ head' = None => DOMAIN inst' = {}
      /\ head' # None => \A j \in DOMAIN inst' : inst'[j].file <= inst'[head'].file
  BY DEF Chained, Kept, InstancesSound
<1>4. QED
  BY <1>2, <1>3 DEF Chained, Kept

LEMMA KeptLooped ==
  ASSUME Looped, Kept, head' = head, stage' # "done",
         stage' \in {"init", "test"} => \/ current' = head
                                        \/ /\ stage \in {"init", "test"}
                                           /\ \/ current' = current
                                              \/ current' = inst[current].next
  PROVE  Looped'
<1>1. PICK S \in SUBSET DOMAIN inst :
        /\ head \in S /\ \A i \in S : inst[i].next \in S
        /\ stage \in {"init", "test"} => current \in S
  BY DEF Looped
<1>2. S \in SUBSET DOMAIN inst' /\ \A i \in S : inst'[i].next \in S
  BY <1>1 DEF Kept
<1>3. stage' \in {"init", "test"} => current' \in S
  BY <1>1
<1>4. QED
  BY <1>1, <1>2, <1>3 DEF Looped

-----------------------------------------------------------------------------
(* Steps that change the stage only, and testing.                          *)

(* On a list that is not a loop, a module is passed when the one after it  *)
(* has been come to.                                                       *)
LEMMA PassedOne ==
  ASSUME InstancesSound, Chained, current # None, NEW i \in DOMAIN inst,
         inst[current].next = None \/ inst[inst[current].next].file < inst[i].file
  PROVE  Passed(i) \/ i = current
<1>1. current \in DOMAIN inst
  BY DEF InstancesSound
<1>2. \A j \in DOMAIN inst : inst[j].file \in Nat
  BY Entries
<1>3. inst[current].next \in DOMAIN inst \cup {None}
  BY <1>1 DEF InstancesSound
<1>4. inst[current].file <= inst[i].file
  <2>1. CASE inst[current].next = None
    <3>1. \A j \in DOMAIN inst : inst[current].file <= inst[j].file
      BY <1>1, <2>1 DEF Chained
    <3>2. QED
      BY <3>1
  <2>2. CASE inst[current].next # None
    <3>1. inst[inst[current].next].file < inst[i].file /\ inst[current].next \in DOMAIN inst
      BY <1>3, <2>2
    <3>2. inst[i].file <= inst[inst[current].next].file \/ inst[current].file <= inst[i].file
      BY <1>1, <2>2 DEF Chained
    <3>3. QED
      BY <1>2, <3>1, <3>2
  <2>3. QED
    BY <2>1, <2>2
<1>5. CASE inst[current].file = inst[i].file
  BY <1>1, <1>5, Distinct
<1>6. CASE inst[current].file # inst[i].file
  BY <1>1, <1>2, <1>4, <1>6 DEF Passed
<1>7. QED
  BY <1>5, <1>6

(* Nothing is passed before the head.                                      *)
LEMMA PassedNone ==
  ASSUME InstancesSound, Chained, NEW i \in DOMAIN inst
  PROVE  head # None /\ ~(inst[head].file < inst[i].file)
<1>1. head # None
  BY DEF Chained
<1>2. inst[i].file <= inst[head].file /\ head \in DOMAIN inst
  BY <1>1 DEF Chained, InstancesSound
<1>3. inst[i].file \in Nat /\ inst[head].file \in Nat
  BY <1>2, Entries
<1>4. QED
  BY <1>1, <1>2, <1>3

LEMMA StageStep ==
  ASSUME IInv, ExitBootServices \/ BeginKernel \/ BeginTests \/ BootSuccessful
  PROVE  IInv'
<1>1. /\ config' = config /\ inst' = inst /\ table' = table /\ sub' = sub /\ head' = head
      /\ pool' = pool /\ handles' = handles /\ bound' = bound /\ stack' = stack
      /\ started' = started /\ checked' = checked
  BY DEF ExitBootServices, BeginKernel, BeginTests, BootSuccessful, registry
<1>2. /\ config \in Seq(Files) /\ DOMAIN config \subseteq Lines /\ at \in Nat \ {0}
      /\ pool \in Nat
      /\ TablesSound /\ InstancesSound /\ ImportsSound /\ StagesSound /\ StackSound
      /\ (Chained /\ Covered) \/ Looped
  BY DEF IInv
<1>3. \/ stage = "load" /\ stage' \in {"import", "returned"} /\ at' = 1 /\ current' = current
      \/ stage = "import" /\ stage' = "init" /\ at' = at /\ current' = head
      \/ /\ stage = "init" /\ stage' = "test" /\ at' = at /\ current' = head
         /\ stack = <<>> /\ current = None
      \/ stage = "test" /\ stage' = "done" /\ at' = at /\ current' = current /\ current = None
  BY DEF ExitBootServices, BeginKernel, BeginTests, BootSuccessful
<1>4. /\ at' \in Nat \ {0} /\ stage' # "load"
      /\ current' \in DOMAIN inst \cup {None}
  BY <1>2, <1>3 DEF InstancesSound
<1>5. Kept
  BY <1>1, <1>2, KeptUnchanged
<1>6. TablesSound'
  BY <1>1, <1>2, <1>5, KeptTables
<1>7. InstancesSound'
  BY <1>1, <1>2, <1>4, <1>5, KeptInstances DEF InstancesSound
<1>8. ImportsSound'
  BY <1>1, <1>2, <1>5, KeptImports
<1>9. StagesSound'
  <2>1. started' = {inst'[i].file : i \in {j \in DOMAIN inst' : inst'[j].inited /\ inst'[j].entry}}
    BY <1>1, <1>2 DEF StagesSound
  <2>2. checked' \subseteq {inst'[i].file : i \in {j \in DOMAIN inst' : ~inst'[j].entry}}
    BY <1>1, <1>2 DEF StagesSound
  <2>3. stage' \in {"load", "import", "init", "test"} \cup Ends
    BY <1>3 DEF Ends
  <2>4. stage' = "import" => at' = Len(bound') + 1
    BY <1>1, <1>2, <1>3 DEF StagesSound
  <2>5. stage' \in {"load", "import", "returned"} =>
          /\ stack' = <<>> /\ current' = None /\ \A i \in DOMAIN inst' : ~inst'[i].inited
    BY <1>1, <1>2, <1>3 DEF StagesSound
  <2>6. stage' \notin {"test", "done"} => checked' = {}
    BY <1>1, <1>2, <1>3 DEF StagesSound
  <2>7. QED
    BY <1>4, <2>1, <2>2, <2>3, <2>4, <2>5, <2>6 DEF StagesSound
<1>10. StackSound'
  BY <1>1, <1>2, <1>3 DEF StackSound
<1>11. (Chained' /\ Covered') \/ Looped'
  <2>1. CASE Looped
    <3>1. stage # "test" \/ current # None
      <4>1. ASSUME stage = "test", current = None PROVE FALSE
        <5>1. None \in DOMAIN inst
          BY <2>1, <4>1 DEF Looped
        <5>2. QED
          BY <1>2, <5>1, Entries
      <4>2. QED
        BY <4>1
    <3>2. QED
      BY <1>1, <1>3, <1>5, <2>1, <3>1, KeptLooped
  <2>2. CASE Chained /\ Covered
    <3>1. Chained'
      BY <1>1, <1>2, <1>5, <2>2, KeptChained
    <3>2. \A i \in DOMAIN inst : head # None /\ ~(inst[head].file < inst[i].file)
      BY <1>2, <2>2, PassedNone
    <3>3. Covered'
      BY <1>1, <1>3, <2>2, <3>2 DEF Covered, Passed
    <3>4. QED
      BY <3>1, <3>3
  <2>3. QED
    BY <1>2, <2>1, <2>2
<1>12. QED
  BY <1>1, <1>2, <1>4, <1>6, <1>7, <1>8, <1>9, <1>10, <1>11 DEF IInv

LEMMA TestStep ==
  ASSUME IInv, TestModule
  PROVE  IInv'
<1>1. /\ config' = config /\ inst' = inst /\ table' = table /\ sub' = sub /\ head' = head
      /\ pool' = pool /\ handles' = handles /\ bound' = bound /\ stack' = stack
      /\ started' = started /\ at' = at /\ stage' = stage
      /\ stage = "test" /\ current # None /\ current' = inst[current].next
      /\ checked' = IF inst[current].entry THEN checked ELSE checked \cup {inst[current].file}
  BY DEF TestModule, registry
<1>2. /\ config \in Seq(Files) /\ DOMAIN config \subseteq Lines /\ at \in Nat \ {0}
      /\ pool \in Nat
      /\ TablesSound /\ InstancesSound /\ ImportsSound /\ StagesSound /\ StackSound
      /\ (Chained /\ Covered) \/ Looped
  BY DEF IInv
<1>3. current \in DOMAIN inst /\ current' \in DOMAIN inst \cup {None}
  BY <1>1, <1>2 DEF InstancesSound
<1>4. Kept
  BY <1>1, <1>2, KeptUnchanged
<1>5. TablesSound' /\ ImportsSound'
  BY <1>1, <1>2, <1>4, KeptTables, KeptImports
<1>6. InstancesSound'
  BY <1>1, <1>2, <1>3, <1>4, KeptInstances DEF InstancesSound
<1>7. StagesSound'
  <2>1. started' = {inst'[i].file : i \in {j \in DOMAIN inst' : inst'[j].inited /\ inst'[j].entry}}
    BY <1>1, <1>2 DEF StagesSound
  <2>2. checked' \subseteq {inst'[i].file : i \in {j \in DOMAIN inst' : ~inst'[j].entry}}
    BY <1>1, <1>2, <1>3 DEF StagesSound
  <2>3. QED
    BY <1>1, <1>2, <2>1, <2>2 DEF StagesSound
<1>8. StackSound'
  BY <1>1, <1>2 DEF StackSound
<1>9. (Chained' /\ Covered') \/ Looped'
  <2>1. CASE Looped
    BY <1>1, <1>4, <2>1, KeptLooped
  <2>2. CASE Chained /\ Covered
    <3>1. Chained'
      BY <1>1, <1>2, <1>4, <2>2, KeptChained
    <3>2. ASSUME NEW i \in DOMAIN inst,
                 current' = None \/ inst[current'].file < inst[i].file, ~inst[i].entry
          PROVE  inst[i].file \in checked'
      <4>1. Passed(i) \/ i = current
        BY <1>1, <1>2, <2>2, <3>2, PassedOne
      <4>2. QED
        BY <1>1, <2>2, <3>2, <4>1 DEF Covered
    <3>3. Covered'
      BY <1>1, <2>2, <3>2 DEF Covered, Passed
    <3>4. QED
      BY <3>1, <3>3
  <2>3. QED
    BY <1>2, <2>1, <2>2
<1>10. QED
  BY <1>1, <1>2, <1>5, <1>6, <1>7, <1>8, <1>9 DEF IInv

-----------------------------------------------------------------------------
(* Binding an import.                                                      *)

LEMMA RangeCons ==
  ASSUME NEW T, NEW p \in T, NEW s \in Seq(T)
  PROVE  <<p>> \o s \in Seq(T) /\ Range(<<p>> \o s) = {p} \cup Range(s)
<1>1. <<p>> \in Seq(T) /\ Len(<<p>>) = 1 /\ <<p>>[1] = p
  OBVIOUS
<1>2. <<p>> \o s \in Seq(T) /\ Joined(<<p>> \o s, <<p>>, s)
  BY <1>1, Concatenated
<1> DEFINE r == <<p>> \o s
<1>3. Len(s) \in Nat /\ DOMAIN s = 1 .. Len(s)
  OBVIOUS
<1> HIDE DEF r
<1>4. /\ DOMAIN r = 1 .. (1 + Len(s)) /\ r[1] = p
      /\ \A k \in 2 .. (1 + Len(s)) : r[k] = s[k - 1]
  <2>1. Joined(r, <<p>>, s)
    BY <1>2 DEF r
  <2> DEFINE one == <<p>>
  <2>2. Joined(r, one, s) /\ Len(one) = 1 /\ one[1] = p
    BY <1>1, <2>1
  <2> HIDE DEF one
  <2>3. QED
    BY <1>3, <2>2 DEF Joined
<1>5. ASSUME NEW x \in Range(r) PROVE x \in {p} \cup Range(s)
  <2>1. PICK k \in 1 .. (1 + Len(s)) : x = r[k]
    BY <1>4 DEF Range
  <2>2. CASE k = 1
    BY <1>4, <2>1, <2>2
  <2>3. CASE k # 1
    <3>1. x = s[k - 1] /\ k - 1 \in DOMAIN s
      BY <1>3, <1>4, <2>1, <2>3
    <3>2. QED
      BY <3>1 DEF Range
  <2>4. QED
    BY <2>2, <2>3
<1>6. p \in Range(r)
  BY <1>3, <1>4 DEF Range
<1>7. ASSUME NEW x \in Range(s) PROVE x \in Range(r)
  <2>1. PICK k \in 1 .. Len(s) : x = s[k]
    BY <1>3 DEF Range
  <2>2. k + 1 \in DOMAIN r /\ r[k + 1] = x
    BY <1>3, <1>4, <2>1
  <2>3. QED
    BY <2>2 DEF Range
<1>8. QED
  BY <1>2, <1>5, <1>6, <1>7 DEF r

LEMMA HandleStep ==
  ASSUME IInv, HandleImport
  PROVE  IInv'
<1>1. /\ stage = "import" /\ at <= Len(handles)
      /\ config' = config /\ table' = table /\ sub' = sub /\ head' = head
      /\ handles' = handles /\ current' = current /\ stack' = stack
      /\ started' = started /\ checked' = checked
  BY DEF HandleImport
<1>2. /\ config \in Seq(Files) /\ DOMAIN config \subseteq Lines /\ at \in Nat \ {0}
      /\ pool \in Nat
      /\ TablesSound /\ InstancesSound /\ ImportsSound /\ StagesSound /\ StackSound
      /\ (Chained /\ Covered) \/ Looped
  BY DEF IInv
<1>3. /\ stack = <<>> /\ current = None /\ checked = {}
      /\ \A i \in DOMAIN inst : ~inst[i].inited
      /\ at = Len(bound) + 1
  BY <1>1, <1>2 DEF StagesSound
<1>4. CASE pool = 0
  <2>1. stage' = "returned" /\ at' = at /\ inst' = inst /\ pool' = pool /\ bound' = bound
    BY <1>4 DEF HandleImport
  <2>2. Kept
    BY <1>2, <2>1, KeptUnchanged
  <2>3. TablesSound' /\ ImportsSound'
    BY <1>1, <1>2, <2>1, <2>2, KeptTables, KeptImports
  <2>4. InstancesSound'
    BY <1>1, <1>2, <2>1, <2>2, KeptInstances DEF InstancesSound
  <2>5. StagesSound'
    <3>1. started' = {inst'[i].file : i \in {j \in DOMAIN inst' : inst'[j].inited /\ inst'[j].entry}}
      BY <1>1, <1>2, <2>1 DEF StagesSound
    <3>2. QED
      BY <1>1, <1>2, <1>3, <2>1, <3>1 DEF StagesSound, Ends
  <2>6. StackSound'
    BY <1>1, <1>2, <2>1 DEF StackSound
  <2>7. (Chained' /\ Covered') \/ Looped'
    <3>1. CASE Looped
      BY <1>1, <2>1, <2>2, <3>1, KeptLooped
    <3>2. CASE Chained /\ Covered
      <4>1. Chained'
        BY <1>1, <1>2, <2>2, <3>2, KeptChained
      <4>2. QED
        BY <2>1, <4>1 DEF Covered
    <3>3. QED
      BY <1>2, <3>1, <3>2
  <2>8. QED
    BY <1>1, <1>2, <2>1, <2>3, <2>4, <2>5, <2>6, <2>7 DEF IInv
<1>5. CASE pool # 0
  <2> DEFINE h == handles[at]
             p == Provider(h)
             a == h.parent
  <2>1. /\ inst' = [inst EXCEPT ![Find(a[1], a[2])].deps = <<p>> \o @]
        /\ pool' = pool - 1 /\ at' = at + 1 /\ stage' = stage
        /\ bound' = Append(bound, IF p = None THEN 0 ELSE inst[p].file)
    BY <1>5 DEF HandleImport
  <2>2. at \in DOMAIN handles /\ h \in Handle /\ a \in DOMAIN inst
    BY <1>1, <1>2 DEF ImportsSound
  <2>3. p \in DOMAIN inst \cup {None}
    BY <1>2, <2>2, Provided DEF InstancesSound
  <2>4. Find(a[1], a[2]) = a
    <3>1. a[1] \in Types /\ a[2] \in Names /\ a = <<a[1], a[2]>>
      BY <1>2, <2>2 DEF InstancesSound, Id
    <3>2. QED
      BY <1>2, <2>2, <3>1, Registered
  <2>5. Append(bound, IF p = None THEN 0 ELSE inst[p].file) = Append(bound, FileOf(p))
    BY DEF FileOf
  <2> HIDE DEF p, a, h
  <2> DEFINE q == <<p>> \o inst[a].deps
  <2>6. inst' = [inst EXCEPT ![a].deps = q]
    BY <2>1, <2>4
  <2>7. inst \in [DOMAIN inst -> Entry] /\ inst[a] \in Entry /\ DOMAIN inst \subseteq Id
    BY <1>2, <2>2 DEF InstancesSound
  <2>8. /\ q \in Seq(Id \cup {None}) /\ Range(q) = {p} \cup Range(inst[a].deps)
    <3>1. inst[a].deps \in Seq(Id \cup {None}) /\ p \in Id \cup {None}
      BY <2>3, <2>7 DEF Entry
    <3> DEFINE d == inst[a].deps
               T == Id \cup {None}
    <3> HIDE DEF d, T
    <3>2. d \in Seq(T) /\ p \in T
      BY <3>1 DEF d, T
    <3>3. <<p>> \o d \in Seq(T) /\ Range(<<p>> \o d) = {p} \cup Range(d)
      BY <3>2, RangeCons
    <3>4. QED
      BY <3>3 DEF d, T, q
  <2> HIDE DEF q
  <2>9. /\ Kept
        /\ inst'[a].deps = q /\ \A i \in DOMAIN inst : i # a => inst'[i].deps = inst[i].deps
        /\ \A i \in DOMAIN inst : inst'[i].inited = inst[i].inited
    <3> DEFINE e == [inst[a] EXCEPT !.deps = q]
    <3>1. /\ e \in Entry /\ e.deps = q /\ e.file = inst[a].file /\ e.entry = inst[a].entry
          /\ e.next = inst[a].next /\ e.inited = inst[a].inited
      BY <2>7, <2>8 DEF Entry
    <3>2. inst' = [inst EXCEPT ![a] = e]
      BY <2>6
    <3> HIDE DEF e
    <3>3. inst' \in [DOMAIN inst -> Entry] /\ DOMAIN inst' = DOMAIN inst
      BY <2>2, <2>7, <3>1, <3>2
    <3>4. inst'[a] = e /\ \A i \in DOMAIN inst : i # a => inst'[i] = inst[i]
      BY <2>2, <2>7, <3>2
    <3>5. QED
      BY <3>1, <3>3, <3>4 DEF Kept
  <2>10. /\ Range(inst'[a].deps) = {p} \cup Range(inst[a].deps)
         /\ \A i \in DOMAIN inst : i # a => Range(inst'[i].deps) = Range(inst[i].deps)
    BY <2>8, <2>9
  <2>11. TablesSound'
    BY <1>1, <1>2, <2>9, KeptTables
  <2>12. InstancesSound'
    <3>1. ASSUME NEW i \in DOMAIN inst
          PROVE  Range(inst'[i].deps) \subseteq DOMAIN inst \cup {None}
      <4>1. Range(inst[i].deps) \subseteq DOMAIN inst \cup {None}
        BY <1>2 DEF InstancesSound
      <4>2. QED
        BY <2>3, <2>10, <4>1
    <3>2. current' \in DOMAIN inst \cup {None} /\ stage' # "load"
      BY <1>1, <1>3, <2>1
    <3>3. QED
      BY <1>1, <1>2, <2>9, <3>1, <3>2, KeptInstances
  <2>13. /\ bound \in Seq(Nat) /\ Len(bound) \in Nat /\ DOMAIN bound = 1 .. Len(bound)
         /\ FileOf(p) \in Nat
    <3>1. FileOf(p) \in Nat
      BY <1>2, <2>3, Entries DEF FileOf
    <3>2. bound \in Seq(Nat)
      BY <1>2 DEF ImportsSound
    <3>3. QED
      BY <3>1, <3>2
  <2>14. /\ bound' \in Seq(Nat) /\ Len(bound') = Len(bound) + 1
         /\ DOMAIN bound' = 1 .. (Len(bound) + 1)
         /\ bound'[at] = FileOf(p) /\ \A k \in DOMAIN bound : bound'[k] = bound[k]
    BY <1>3, <2>1, <2>5, <2>13
  <2>16. ImportsSound'
    <3>1. ASSUME NEW k \in DOMAIN bound'
          PROVE  /\ bound'[k] = FileOf(Provider(handles[k]))'
                 /\ Provider(handles[k])' \in Range(inst'[handles'[k].parent].deps)
      <4>1. Provider(handles[k])' = Provider(handles[k])
        BY <1>1, KeptProvider
      <4>2. k \in DOMAIN handles
        BY <1>1, <1>2, <1>3, <2>13, <2>14, <3>1 DEF ImportsSound
      <4>3. handles[k] \in Handle /\ handles[k].parent \in DOMAIN inst
        BY <1>2, <4>2 DEF ImportsSound
      <4>4. Provider(handles[k]) \in DOMAIN inst \cup {None}
        BY <1>2, <4>3, Provided DEF InstancesSound
      <4>5. FileOf(Provider(handles[k]))' = FileOf(Provider(handles[k]))
        BY <2>9, <4>1, <4>4 DEF FileOf, Kept
      <4>6. CASE k = at
        <5>1. Provider(handles[k]) = p /\ handles[k].parent = a
          BY <4>6 DEF p, h, a
        <5>2. QED
          BY <1>1, <2>10, <2>14, <4>1, <4>5, <4>6, <5>1
      <4>7. CASE k # at
        <5>1. k \in DOMAIN bound
          BY <1>3, <2>13, <2>14, <4>7
        <5>2. /\ bound[k] = FileOf(Provider(handles[k]))
              /\ Provider(handles[k]) \in Range(inst[handles[k].parent].deps)
          BY <1>2, <5>1 DEF ImportsSound
        <5>3. Range(inst[handles[k].parent].deps) \subseteq Range(inst'[handles[k].parent].deps)
          BY <2>10, <4>3
        <5>4. QED
          BY <1>1, <2>14, <4>1, <4>5, <5>1, <5>2, <5>3
      <4>8. QED
        BY <4>6, <4>7
    <3>2. ASSUME NEW i \in DOMAIN inst', None \in Range(inst'[i].deps)
          PROVE  \E k \in DOMAIN bound' : bound'[k] = 0
      <4>1. CASE None \in Range(inst[i].deps)
        <5>1. i \in DOMAIN inst
          BY <2>9 DEF Kept
        <5>2. PICK k \in DOMAIN bound : bound[k] = 0
          BY <1>2, <4>1, <5>1 DEF ImportsSound
        <5>3. QED
          BY <2>13, <2>14, <5>2
      <4>2. CASE None \notin Range(inst[i].deps)
        <5>1. p = None
          BY <2>9, <2>10, <3>2, <4>2 DEF Kept
        <5>2. at \in DOMAIN bound'
          BY <1>3, <2>13, <2>14
        <5>3. QED
          BY <2>14, <5>1, <5>2 DEF FileOf
      <4>3. QED
        BY <4>1, <4>2
    <3>3. ASSUME NEW k \in DOMAIN handles'
          PROVE  /\ handles'[k].parent \in DOMAIN inst'
                 /\ handles'[k].file \in DOMAIN config'
                 /\ handles'[k].parent = <<config'[handles'[k].file].type,
                                           config'[handles'[k].file].name>>
      BY <1>1, <1>2, <2>9, <3>3 DEF ImportsSound, Kept
    <3>4. handles' \in Seq(Handle) /\ Len(bound') <= Len(handles')
      BY <1>1, <1>2, <1>3, <2>14 DEF ImportsSound
    <3>5. QED
      BY <2>14, <3>1, <3>2, <3>3, <3>4 DEF ImportsSound
  <2>17. StagesSound'
    <3>1. {inst'[i].file : i \in {j \in DOMAIN inst' : inst'[j].inited /\ inst'[j].entry}} = {}
      BY <1>3, <2>9 DEF Kept
    <3>2. started = {}
      BY <1>2, <1>3 DEF StagesSound
    <3>3. at' = Len(bound') + 1
      BY <1>3, <2>1, <2>13, <2>14
    <3>4. \A i \in DOMAIN inst' : ~inst'[i].inited
      BY <1>3, <2>9 DEF Kept
    <3>5. QED
      BY <1>1, <1>3, <2>1, <3>1, <3>2, <3>3, <3>4 DEF StagesSound
  <2>18. StackSound'
    BY <1>1, <1>3, <2>1 DEF StackSound, Frames
  <2>19. (Chained' /\ Covered') \/ Looped'
    <3>1. CASE Looped
      BY <1>1, <2>1, <2>9, <3>1, KeptLooped
    <3>2. CASE Chained /\ Covered
      <4>1. Chained'
        BY <1>1, <1>2, <2>9, <3>2, KeptChained
      <4>2. QED
        BY <1>1, <2>1, <4>1 DEF Covered
    <3>3. QED
      BY <1>2, <3>1, <3>2
  <2>20. pool' \in Nat /\ at' \in Nat \ {0}
    BY <1>2, <1>5, <2>1
  <2>21. QED
    BY <1>1, <1>2, <2>11, <2>12, <2>16, <2>17, <2>18, <2>19, <2>20 DEF IInv
<1>6. QED
  BY <1>4, <1>5

-----------------------------------------------------------------------------
(* The calls in progress.                                                  *)

LEMMA Rest ==
  ASSUME NEW T, NEW s \in Seq(T), s # <<>>
  PROVE  /\ Head(s) \in T /\ Tail(s) \in Seq(T)
         /\ Head(s) \in Range(s) /\ Range(Tail(s)) \subseteq Range(s)
         /\ \A x \in Range(s) : x = Head(s) \/ x \in Range(Tail(s))
<1>1. /\ Head(s) = s[1] /\ Head(s) \in T /\ Tail(s) \in Seq(T)
      /\ Len(s) \in Nat \ {0} /\ DOMAIN s = 1 .. Len(s)
      /\ DOMAIN Tail(s) = 1 .. (Len(s) - 1)
      /\ \A k \in 1 .. (Len(s) - 1) : Tail(s)[k] = s[k + 1]
  OBVIOUS
<1>2. Head(s) \in Range(s)
  BY <1>1 DEF Range
<1>3. ASSUME NEW x \in Range(Tail(s)) PROVE x \in Range(s)
  <2>1. PICK k \in 1 .. (Len(s) - 1) : x = Tail(s)[k]
    BY <1>1, <1>3 DEF Range
  <2>2. k + 1 \in DOMAIN s /\ x = s[k + 1]
    BY <1>1, <2>1
  <2>3. QED
    BY <2>2 DEF Range
<1>4. ASSUME NEW x \in Range(s) PROVE x = Head(s) \/ x \in Range(Tail(s))
  <2>1. PICK k \in 1 .. Len(s) : x = s[k]
    BY <1>1, <1>4 DEF Range
  <2>2. CASE k = 1
    BY <1>1, <2>1, <2>2
  <2>3. CASE k # 1
    <3>1. k - 1 \in DOMAIN Tail(s) /\ Tail(s)[k - 1] = x
      BY <1>1, <2>1, <2>3
    <3>2. QED
      BY <3>1 DEF Range
  <2>4. QED
    BY <2>2, <2>3
<1>5. QED
  BY <1>1, <1>2, <1>3, <1>4

(* Initialising an instance leaves the calls in progress in order.         *)
LEMMA FramesKept ==
  ASSUME NEW s, NEW ins, NEW ins2, Frames(s, ins),
         DOMAIN ins2 = DOMAIN ins,
         \A i \in DOMAIN ins : Range(ins[i].deps) \subseteq DOMAIN ins \cup {None},
         \A i \in DOMAIN ins : /\ ins2[i].entry = ins[i].entry /\ ins2[i].deps = ins[i].deps
                               /\ ins[i].inited => ins2[i].inited
  PROVE  Frames(s, ins2)
<1>1. ASSUME NEW k \in DOMAIN s
      PROVE  /\ s[k].m \in DOMAIN ins2 /\ ins2[s[k].m].entry
             /\ Range(s[k].rest) \subseteq Range(ins2[s[k].m].deps)
             /\ \A d \in Range(ins2[s[k].m].deps) :
                  d \in Range(s[k].rest) \/ Behind(s, ins2, k, d)
             /\ k > 1 => s[k - 1].m \in Range(ins2[s[k].m].deps)
  <2>1. s[k].m \in DOMAIN ins
    BY DEF Frames
  <2>2. ins2[s[k].m].entry = ins[s[k].m].entry /\ ins2[s[k].m].deps = ins[s[k].m].deps
    BY <2>1
  <2>3. ASSUME NEW d \in Range(ins2[s[k].m].deps), d \notin Range(s[k].rest)
        PROVE  Behind(s, ins2, k, d)
    <3>1. Behind(s, ins, k, d) /\ d \in DOMAIN ins \cup {None}
      BY <2>1, <2>2, <2>3 DEF Frames
    <3>2. QED
      BY <3>1 DEF Behind
  <2>4. QED
    BY <2>1, <2>2, <2>3 DEF Frames
<1>2. QED
  BY <1>1 DEF Frames

(* The call goes on to the dependency after the first it had left.         *)
Advanced(s) == [s EXCEPT ![1].rest = Tail(@)]

IsAdvanced(calls, s) ==
  /\ DOMAIN calls = DOMAIN s /\ calls \in Seq(Frame)
  /\ \A k \in DOMAIN s : calls[k].m = s[k].m
  /\ \A k \in DOMAIN s : k # 1 => calls[k] = s[k]
  /\ calls[1].rest = Tail(s[1].rest)

LEMMA Advancing ==
  ASSUME NEW s \in Seq(Frame), s # <<>>, s[1].rest # <<>>
  PROVE  IsAdvanced(Advanced(s), s)
<1>1. 1 \in DOMAIN s /\ s[1] \in Frame /\ s \in [DOMAIN s -> Frame] /\ DOMAIN s = 1 .. Len(s)
  OBVIOUS
<1>2. s[1].rest \in Seq(Id \cup {None}) /\ Tail(s[1].rest) \in Seq(Id \cup {None})
  <2>1. s[1].rest \in Seq(Id \cup {None})
    BY <1>1 DEF Frame
  <2>2. QED
    BY <2>1, Rest
<1> DEFINE r == Tail(s[1].rest)
           e == [s[1] EXCEPT !.rest = r]
<1>3. Advanced(s) = [s EXCEPT ![1] = e]
  BY DEF Advanced
<1> HIDE DEF r
<1>4. e \in Frame /\ e.m = s[1].m /\ e.rest = r
  BY <1>1, <1>2 DEF Frame, r
<1> HIDE DEF e
<1>5. /\ Advanced(s) \in [DOMAIN s -> Frame] /\ Advanced(s)[1] = e
      /\ \A k \in DOMAIN s : k # 1 => Advanced(s)[k] = s[k]
  BY <1>1, <1>3, <1>4
<1>6. Advanced(s) \in Seq(Frame)
  <2> DEFINE a == Advanced(s)
             n == Len(s)
  <2>1. a \in [1 .. n -> Frame] /\ n \in Nat
    BY <1>1, <1>5
  <2> HIDE DEF a, n
  <2>2. a \in Seq(Frame)
    BY <2>1
  <2>3. QED
    BY <2>2 DEF a
<1> DEFINE a == Advanced(s)
<1>7. a \in Seq(Frame) /\ a \in [DOMAIN s -> Frame] /\ a[1] = e
      /\ \A k \in DOMAIN s : k # 1 => a[k] = s[k]
  BY <1>5, <1>6
<1> HIDE DEF a
<1>8. IsAdvanced(a, s)
  BY <1>1, <1>4, <1>7 DEF IsAdvanced, r
<1>9. QED
  BY <1>8 DEF a

(* The dependency is initialised already: the call has left it behind.     *)
LEMMA FramesAdvanced ==
  ASSUME NEW s, NEW ins, NEW calls, Frames(s, ins), s # <<>>, s[1].rest # <<>>,
         IsAdvanced(calls, s), Head(s[1].rest) # None, ins[Head(s[1].rest)].inited
  PROVE  Frames(calls, ins)
<1>1. /\ s \in Seq(Frame) /\ 1 \in DOMAIN s /\ DOMAIN s = 1 .. Len(s)
  BY DEF Frames
<1>2. s[1].rest \in Seq(Id \cup {None})
  <2>1. s[1] \in Frame
    BY <1>1
  <2>2. QED
    BY <2>1 DEF Frame
<1>3. /\ Range(calls[1].rest) \subseteq Range(s[1].rest)
      /\ \A x \in Range(s[1].rest) : x = Head(s[1].rest) \/ x \in Range(calls[1].rest)
  BY <1>2, Rest DEF IsAdvanced
<1>4. ASSUME NEW k \in DOMAIN calls
      PROVE  /\ calls[k].m \in DOMAIN ins /\ ins[calls[k].m].entry
             /\ Range(calls[k].rest) \subseteq Range(ins[calls[k].m].deps)
             /\ \A d \in Range(ins[calls[k].m].deps) :
                  d \in Range(calls[k].rest) \/ Behind(calls, ins, k, d)
             /\ k > 1 => calls[k - 1].m \in Range(ins[calls[k].m].deps)
  <2>1. k \in DOMAIN s /\ calls[k].m = s[k].m
    BY DEF IsAdvanced
  <2>2. calls[k].m \in DOMAIN ins /\ ins[calls[k].m].entry
    BY <2>1 DEF Frames
  <2>3. Range(calls[k].rest) \subseteq Range(s[k].rest)
    BY <1>3, <2>1 DEF IsAdvanced
  <2>4. k > 1 => calls[k - 1].m = s[k - 1].m
    BY <1>1, <2>1 DEF IsAdvanced
  <2>5. ASSUME NEW d \in Range(ins[calls[k].m].deps), d \notin Range(calls[k].rest)
        PROVE  Behind(calls, ins, k, d)
    <3>1. CASE k = 1 /\ d = Head(s[1].rest)
      BY <3>1 DEF Behind
    <3>2. CASE ~(k = 1 /\ d = Head(s[1].rest))
      <4>1. d \notin Range(s[k].rest)
        BY <1>3, <2>1, <2>5, <3>2 DEF IsAdvanced
      <4>2. Behind(s, ins, k, d)
        BY <2>1, <2>5, <4>1 DEF Frames
      <4>3. QED
        BY <2>4, <4>2 DEF Behind
    <3>3. QED
      BY <3>1, <3>2
  <2>6. QED
    BY <2>1, <2>2, <2>3, <2>4, <2>5 DEF Frames
<1>5. QED
  BY <1>4 DEF Frames, IsAdvanced

(* A call that has just been made, from within those in calls.             *)
Called(c, m, ins, calls) ==
  /\ c \in Seq(Frame) /\ DOMAIN c = 1 .. (Len(calls) + 1) /\ Len(c) = Len(calls) + 1
  /\ c[1].m = m /\ c[1].rest = ins[m].deps
  /\ \A k \in 1 .. Len(calls) : c[k + 1] = calls[k]

LEMMA Calling ==
  ASSUME NEW ins, NEW m \in DOMAIN ins, NEW calls \in Seq(Frame),
         DOMAIN ins \subseteq Id, ins[m] \in Entry
  PROVE  Called(<<[m |-> m, rest |-> ins[m].deps]>> \o calls, m, ins, calls)
<1> DEFINE e == [m |-> m, rest |-> ins[m].deps]
           one == <<e>>
<1>1. e \in Frame /\ e.m = m /\ e.rest = ins[m].deps
  BY DEF Frame, Entry
<1> HIDE DEF e
<1>2. one \in Seq(Frame) /\ Len(one) = 1 /\ one[1] = e
  BY <1>1
<1> HIDE DEF one
<1>3. one \o calls \in Seq(Frame) /\ Joined(one \o calls, one, calls)
  BY <1>2, Concatenated
<1> DEFINE c == one \o calls
<1>4. c \in Seq(Frame) /\ Joined(c, one, calls) /\ Len(calls) \in Nat
  BY <1>3
<1> HIDE DEF c
<1>5. Called(c, m, ins, calls)
  <2>1. Len(c) = Len(calls) + 1 /\ DOMAIN c = 1 .. (Len(calls) + 1)
    BY <1>2, <1>4 DEF Joined
  <2>2. c[1] = e
    BY <1>2, <1>4 DEF Joined
  <2>3. \A k \in 1 .. Len(calls) : c[k + 1] = calls[k]
    BY <1>2, <1>4 DEF Joined
  <2>4. QED
    BY <1>1, <1>4, <2>1, <2>2, <2>3 DEF Called
<1>6. QED
  BY <1>5 DEF c, one, e

(* The dependency is called.                                               *)
LEMMA FramesCalled ==
  ASSUME NEW s, NEW ins, NEW calls, NEW c, Frames(s, ins), s # <<>>, s[1].rest # <<>>,
         IsAdvanced(calls, s), Head(s[1].rest) \in DOMAIN ins, None \notin DOMAIN ins,
         ins[Head(s[1].rest)].entry, Called(c, Head(s[1].rest), ins, calls)
  PROVE  Frames(c, ins)
<1>1. /\ s \in Seq(Frame) /\ 1 \in DOMAIN s /\ DOMAIN s = 1 .. Len(s) /\ Len(s) \in Nat
      /\ Len(calls) = Len(s)
  BY DEF Frames, IsAdvanced
<1>2. s[1].rest \in Seq(Id \cup {None})
  <2>1. s[1] \in Frame
    BY <1>1
  <2>2. QED
    BY <2>1 DEF Frame
<1>3. /\ Range(calls[1].rest) \subseteq Range(s[1].rest)
      /\ Head(s[1].rest) \in Range(s[1].rest)
      /\ \A x \in Range(s[1].rest) : x = Head(s[1].rest) \/ x \in Range(calls[1].rest)
  BY <1>2, Rest DEF IsAdvanced
<1>4. ASSUME NEW k \in DOMAIN c
      PROVE  /\ c[k].m \in DOMAIN ins /\ ins[c[k].m].entry
             /\ Range(c[k].rest) \subseteq Range(ins[c[k].m].deps)
             /\ \A d \in Range(ins[c[k].m].deps) :
                  d \in Range(c[k].rest) \/ Behind(c, ins, k, d)
             /\ k > 1 => c[k - 1].m \in Range(ins[c[k].m].deps)
  <2>1. CASE k = 1
    BY <2>1 DEF Called
  <2>2. CASE k # 1
    <3> DEFINE l == k - 1
    <3>1. l \in DOMAIN s /\ l \in Nat \ {0} /\ k = l + 1
      BY <1>1, <2>2 DEF Called
    <3>2. c[k] = calls[l] /\ calls[l].m = s[l].m
      BY <1>1, <3>1 DEF Called, IsAdvanced
    <3>3. c[k].m \in DOMAIN ins /\ ins[c[k].m].entry
      BY <3>1, <3>2 DEF Frames
    <3>4. Range(c[k].rest) \subseteq Range(s[l].rest)
      BY <1>3, <3>1, <3>2 DEF IsAdvanced
    <3>5. c[k - 1].m = IF l = 1 THEN Head(s[1].rest) ELSE s[l - 1].m
      <4>1. CASE l = 1
        BY <3>1, <4>1 DEF Called
      <4>2. CASE l # 1
        <5>1. l - 1 \in 1 .. Len(calls) /\ l - 1 \in DOMAIN s /\ k - 1 = (l - 1) + 1
          BY <1>1, <3>1, <4>2
        <5>2. c[k - 1] = calls[l - 1] /\ calls[l - 1].m = s[l - 1].m
          BY <5>1 DEF Called, IsAdvanced
        <5>3. QED
          BY <4>2, <5>2
      <4>3. QED
        BY <4>1, <4>2
    <3>6. ASSUME NEW d \in Range(ins[c[k].m].deps), d \notin Range(c[k].rest)
          PROVE  Behind(c, ins, k, d)
      <4>1. CASE l = 1 /\ d = Head(s[1].rest)
        BY <3>1, <3>5, <4>1 DEF Behind
      <4>2. CASE ~(l = 1 /\ d = Head(s[1].rest))
        <5>1. d \notin Range(s[l].rest)
          BY <1>3, <3>1, <3>2, <3>6, <4>2 DEF IsAdvanced
        <5>2. Behind(s, ins, l, d)
          BY <3>1, <3>2, <3>6, <5>1 DEF Frames
        <5>3. QED
          BY <3>1, <3>5, <5>2 DEF Behind
      <4>3. QED
        BY <4>1, <4>2
    <3>7. c[k - 1].m \in Range(ins[c[k].m].deps)
      <4>1. CASE l = 1
        BY <1>1, <1>3, <3>2, <3>5, <4>1 DEF Frames
      <4>2. CASE l # 1
        BY <3>1, <3>2, <3>5, <4>2 DEF Frames
      <4>3. QED
        BY <4>1, <4>2
    <3>8. QED
      BY <3>1, <3>2, <3>3, <3>4, <3>6, <3>7 DEF Frames
  <2>3. QED
    BY <2>1, <2>2
<1>5. QED
  BY <1>4 DEF Frames, Called

(* The innermost call returns: its instance is initialised by now.         *)
LEMMA FramesReturned ==
  ASSUME NEW s, NEW ins, Frames(s, ins), s # <<>>, ins[s[1].m].inited
  PROVE  Frames(Tail(s), ins)
<1> DEFINE u == Tail(s)
<1>1. /\ s \in Seq(Frame) /\ u \in Seq(Frame) /\ Len(s) \in Nat \ {0} /\ DOMAIN s = 1 .. Len(s)
      /\ DOMAIN u = 1 .. (Len(s) - 1)
      /\ \A k \in 1 .. (Len(s) - 1) : u[k] = s[k + 1]
  BY DEF Frames
<1> HIDE DEF u
<1>2. ASSUME NEW k \in DOMAIN u
      PROVE  /\ u[k].m \in DOMAIN ins /\ ins[u[k].m].entry
             /\ Range(u[k].rest) \subseteq Range(ins[u[k].m].deps)
             /\ \A d \in Range(ins[u[k].m].deps) :
                  d \in Range(u[k].rest) \/ Behind(u, ins, k, d)
             /\ k > 1 => u[k - 1].m \in Range(ins[u[k].m].deps)
  <2>1. k + 1 \in DOMAIN s /\ u[k] = s[k + 1] /\ (k > 1 => u[k - 1] = s[k]) /\ k \in Nat \ {0}
    BY <1>1
  <2>2. ASSUME NEW d \in Range(ins[u[k].m].deps), d \notin Range(u[k].rest)
        PROVE  Behind(u, ins, k, d)
    <3>1. Behind(s, ins, k + 1, d)
      BY <2>1, <2>2 DEF Frames
    <3>2. CASE k = 1
      BY <2>1, <3>1, <3>2 DEF Behind
    <3>3. CASE k # 1
      BY <2>1, <3>1, <3>3 DEF Behind
    <3>4. QED
      BY <3>2, <3>3
  <2>3. k + 1 > 1 /\ (k + 1) - 1 = k
    BY <2>1
  <2>4. QED
    BY <2>1, <2>2, <2>3 DEF Frames
<1>3. QED
  BY <1>1, <1>2 DEF Frames, u

-----------------------------------------------------------------------------
(* Initialising the modules.                                               *)

(* An instance is marked initialised.                                      *)
Marked(m) ==
  /\ m \in DOMAIN inst /\ Kept
  /\ \A i \in DOMAIN inst : /\ inst'[i].deps = inst[i].deps
                            /\ inst'[i].inited <=> inst[i].inited \/ i = m

LEMMA Marking ==
  ASSUME InstancesSound, NEW m \in DOMAIN inst, inst' = [inst EXCEPT ![m].inited = TRUE]
  PROVE  Marked(m)
<1> DEFINE e == [inst[m] EXCEPT !.inited = TRUE]
<1>1. inst \in [DOMAIN inst -> Entry] /\ inst[m] \in Entry
  BY DEF InstancesSound
<1>2. /\ e \in Entry /\ e.inited = TRUE /\ e.file = inst[m].file /\ e.entry = inst[m].entry
      /\ e.next = inst[m].next /\ e.deps = inst[m].deps
  BY <1>1 DEF Entry
<1>3. inst' = [inst EXCEPT ![m] = e]
  OBVIOUS
<1> HIDE DEF e
<1>4. inst' \in [DOMAIN inst -> Entry] /\ DOMAIN inst' = DOMAIN inst
  BY <1>1, <1>2, <1>3
<1>5. inst'[m] = e /\ \A i \in DOMAIN inst : i # m => inst'[i] = inst[i]
  BY <1>1, <1>3
<1>6. Kept
  BY <1>2, <1>4, <1>5 DEF Kept
<1>7. ASSUME NEW i \in DOMAIN inst
      PROVE  /\ inst'[i].deps = inst[i].deps
             /\ inst'[i].inited <=> inst[i].inited \/ i = m
  BY <1>2, <1>5
<1>8. QED
  BY <1>6, <1>7 DEF Marked

(* What every step of InitializeModule leaves alone.                       *)
InitFrame ==
  /\ config' = config /\ at' = at /\ table' = table /\ sub' = sub /\ head' = head
  /\ pool' = pool /\ handles' = handles /\ bound' = bound /\ checked' = checked
  /\ stage = "init"

(* The parts of the invariant that no step of InitializeModule disturbs.   *)
LEMMA InitKept ==
  ASSUME IInv, InitFrame, inst' = inst \/ (\E m \in DOMAIN inst : Marked(m)),
         current' \in DOMAIN inst \cup {None}, stage' \in {"init", "panic", "wild"}
  PROVE  /\ TablesSound' /\ InstancesSound' /\ ImportsSound' /\ Kept
         /\ config' \in Seq(Files) /\ DOMAIN config' \subseteq Lines
         /\ at' \in Nat \ {0} /\ pool' \in Nat
<1>1. TablesSound /\ InstancesSound /\ ImportsSound
  BY DEF IInv
<1>2. /\ Kept /\ \A i \in DOMAIN inst : inst'[i].deps = inst[i].deps
  <2>1. CASE inst' = inst
    BY <1>1, <2>1, KeptUnchanged
  <2>2. CASE \E m \in DOMAIN inst : Marked(m)
    BY <2>2 DEF Marked
  <2>3. QED
    BY <2>1, <2>2
<1>3. TablesSound'
  BY <1>1, <1>2, KeptTables DEF InitFrame
<1>4. InstancesSound'
  BY <1>1, <1>2, KeptInstances DEF InitFrame, InstancesSound
<1>5. ImportsSound'
  BY <1>1, <1>2, KeptImports DEF InitFrame
<1>6. QED
  BY <1>2, <1>3, <1>4, <1>5 DEF IInv, InitFrame

(* What has started is what was initialised and had an entry point.        *)
LEMMA InitStages ==
  ASSUME IInv, InitFrame, stage' \in {"init", "panic", "wild"},
         \/ inst' = inst /\ started' = started
         \/ \E m \in DOMAIN inst :
              /\ Marked(m)
              /\ started' = IF inst[m].entry THEN started \cup {inst[m].file} ELSE started
  PROVE  StagesSound'
<1>1. StagesSound /\ InstancesSound
  BY DEF IInv
<1>2. started' = {inst'[i].file : i \in {j \in DOMAIN inst' : inst'[j].inited /\ inst'[j].entry}}
  <2>1. CASE inst' = inst /\ started' = started
    BY <1>1, <2>1 DEF StagesSound
  <2>2. CASE \E m \in DOMAIN inst :
               /\ Marked(m)
               /\ started' = IF inst[m].entry THEN started \cup {inst[m].file} ELSE started
    <3>1. PICK m \in DOMAIN inst :
            /\ Marked(m)
            /\ started' = IF inst[m].entry THEN started \cup {inst[m].file} ELSE started
      BY <2>2
    <3> DEFINE up == {j \in DOMAIN inst : inst[j].inited /\ inst[j].entry}
               up2 == {j \in DOMAIN inst' : inst'[j].inited /\ inst'[j].entry}
    <3>2. up2 = IF inst[m].entry THEN up \cup {m} ELSE up
      BY <3>1 DEF Marked, Kept
    <3>3. \A j \in up2 : inst'[j].file = inst[j].file
      BY <3>1 DEF Marked, Kept
    <3>4. started = {inst[i].file : i \in up}
      BY <1>1 DEF StagesSound
    <3> HIDE DEF up, up2
    <3>5. {inst'[i].file : i \in up2} = {inst[i].file : i \in up2}
      BY <3>3
    <3>6. {inst[i].file : i \in up \cup {m}} = started \cup {inst[m].file}
      BY <3>4
    <3>7. started' = {inst'[i].file : i \in up2}
      BY <3>1, <3>2, <3>4, <3>5, <3>6
    <3>8. QED
      BY <3>7 DEF up2
  <2>3. QED
    BY <2>1, <2>2
<1>3. checked' = {}
  BY <1>1 DEF StagesSound, InitFrame
<1>4. QED
  BY <1>2, <1>3 DEF StagesSound, Ends

(* What making a call of InitializeModule comes to.                        *)
LEMMA Entering ==
  ASSUME InstancesSound, stage = "init", NEW m \in DOMAIN inst \cup {None},
         NEW calls \in Seq(Frame), Enter(m, calls)
  PROVE  \/ /\ stage' = "panic" /\ inst' = inst /\ stack' = stack /\ TooDeep(calls)
         \/ /\ stage' = "wild" /\ inst' = inst /\ stack' = stack /\ m = None
         \/ /\ stage' = "init" /\ m # None /\ stack' = calls /\ Marked(m)
            /\ inst[m].inited \/ ~inst[m].entry
         \/ /\ stage' = "init" /\ m # None /\ inst' = inst /\ inst[m].entry
            /\ Called(stack', m, inst, calls)
<1>1. CASE TooDeep(calls)
  BY <1>1 DEF Enter
<1>2. CASE ~TooDeep(calls) /\ m = None
  BY <1>2 DEF Enter
<1>3. CASE ~TooDeep(calls) /\ m # None /\ (inst[m].inited \/ ~inst[m].entry)
  <2>1. stage' = "init" /\ stack' = calls /\ inst' = [inst EXCEPT ![m].inited = TRUE]
    BY <1>3 DEF Enter
  <2>2. Marked(m)
    BY <1>3, <2>1, Marking
  <2>3. QED
    BY <1>3, <2>1, <2>2
<1>4. CASE ~TooDeep(calls) /\ m # None /\ ~(inst[m].inited \/ ~inst[m].entry)
  <2>1. /\ stage' = "init" /\ inst' = inst
        /\ stack' = <<[m |-> m, rest |-> Dependencies(m)]>> \o calls
    BY <1>4 DEF Enter
  <2>2. stack' = <<[m |-> m, rest |-> inst[m].deps]>> \o calls
    BY <2>1 DEF Dependencies
  <2>3. DOMAIN inst \subseteq Id /\ inst[m] \in Entry /\ m \in DOMAIN inst
    BY <1>4 DEF InstancesSound
  <2>4. Called(stack', m, inst, calls)
    BY <2>2, <2>3, Calling
  <2>5. QED
    BY <1>4, <2>1, <2>4
<1>5. QED
  BY <1>1, <1>2, <1>3, <1>4

LEMMA InitializeStep ==
  ASSUME IInv, InitializeModules
  PROVE  IInv'
<1>1. /\ InitFrame /\ started' = started
      /\ stack = <<>> /\ current # None /\ current' = inst[current].next
      /\ Enter(current, <<>>)
  BY DEF InitializeModules, InitFrame, After
<1>2. /\ InstancesSound /\ StackSound /\ StagesSound
      /\ (Chained /\ Covered) \/ Looped
      /\ stage = "init"
  BY <1>1 DEF IInv, InitFrame
<1>3. /\ current \in DOMAIN inst /\ current' \in DOMAIN inst \cup {None}
      /\ \A i \in DOMAIN inst : Range(inst[i].deps) \subseteq DOMAIN inst \cup {None}
  BY <1>1, <1>2 DEF InstancesSound
<1>4. <<>> \in Seq(Frame) /\ ~TooDeep(<<>>) /\ Len(<<>>) = 0
  BY ModulesAssumption DEF TooDeep
<1>5. /\ stage' = "init"
      /\ \/ /\ stack' = <<>> /\ Marked(current)
            /\ inst[current].inited \/ ~inst[current].entry
         \/ inst' = inst /\ inst[current].entry /\ Called(stack', current, inst, <<>>)
  BY <1>1, <1>2, <1>3, <1>4, Entering
<1>6. /\ TablesSound' /\ InstancesSound' /\ ImportsSound' /\ Kept
      /\ config' \in Seq(Files) /\ DOMAIN config' \subseteq Lines
      /\ at' \in Nat \ {0} /\ pool' \in Nat
  BY <1>1, <1>3, <1>5, InitKept
<1>7. StagesSound'
  <2>1. CASE inst' = inst
    BY <1>1, <1>5, <2>1, InitStages
  <2>2. CASE Marked(current) /\ ~inst[current].entry
    BY <1>1, <1>3, <1>5, <2>2, InitStages
  <2>3. CASE Marked(current) /\ inst[current].inited /\ inst[current].entry
    <3>1. inst[current].file \in started
      BY <1>2, <1>3, <2>3 DEF StagesSound
    <3>2. started' = started \cup {inst[current].file}
      BY <1>1, <3>1
    <3>3. QED
      BY <1>1, <1>3, <1>5, <2>3, <3>2, InitStages
  <2>4. QED
    BY <1>5, <2>1, <2>2, <2>3
<1>8. StackSound'
  <2>1. CASE stack' = <<>>
    BY <1>5, <2>1 DEF StackSound, Frames
  <2>2. CASE inst' = inst /\ inst[current].entry /\ Called(stack', current, inst, <<>>)
    <3>1. /\ stack' \in Seq(Frame) /\ DOMAIN stack' = {1}
          /\ stack'[1].m = current /\ stack'[1].rest = inst[current].deps
      BY <1>4, <2>2 DEF Called
    <3>2. QED
      BY <1>3, <1>5, <2>2, <3>1 DEF StackSound, Frames
  <2>3. QED
    BY <1>5, <2>1, <2>2
<1>9. (Chained' /\ Covered') \/ Looped'
  <2>1. CASE Looped
    BY <1>1, <1>2, <1>5, <1>6, <2>1, KeptLooped DEF InitFrame
  <2>2. CASE Chained /\ Covered
    <3>1. Chained'
      BY <1>1, <1>2, <1>6, <2>2, KeptChained DEF InitFrame
    <3>2. \A i \in DOMAIN inst : Passed(i) => inst[i].inited
      BY <1>1, <1>2, <2>2 DEF Covered
    <3>3. ASSUME NEW i \in DOMAIN inst, current' = None \/ inst[current'].file < inst[i].file
          PROVE  inst'[i].inited \/ (stack' # <<>> /\ stack'[Len(stack')].m = i)
      <4>1. Passed(i) \/ i = current
        BY <1>1, <1>2, <2>2, <3>3, PassedOne
      <4>2. CASE Passed(i)
        BY <1>5, <3>2, <4>2 DEF Marked
      <4>3. CASE i = current
        <5>1. CASE Marked(current)
          BY <1>3, <4>3, <5>1 DEF Marked
        <5>2. CASE Called(stack', current, inst, <<>>)
          <6>1. Len(stack') = 1 /\ stack'[1].m = current /\ 1 \in DOMAIN stack'
            BY <1>4, <5>2 DEF Called
          <6>2. stack' # <<>>
            BY <6>1
          <6>3. QED
            BY <4>3, <6>1, <6>2
        <5>3. QED
          BY <1>5, <5>1, <5>2
      <4>4. QED
        BY <4>1, <4>2, <4>3
    <3>4. \A i \in DOMAIN inst : inst'[i].file = inst[i].file
      BY <1>6 DEF Kept
    <3>5. Covered'
      BY <1>3, <1>5, <1>6, <3>3, <3>4 DEF Covered, Passed, Kept
    <3>6. QED
      BY <3>1, <3>5
  <2>3. QED
    BY <1>2, <2>1, <2>2
<1>10. QED
  BY <1>6, <1>7, <1>8, <1>9 DEF IInv

LEMMA DependencyStep ==
  ASSUME IInv, InitializeDependency
  PROVE  IInv'
<1> DEFINE d == Head(stack[1].rest)
           calls == Advanced(stack)
<1>1. /\ InitFrame /\ started' = started /\ current' = current
      /\ stack # <<>> /\ stack[1].rest # <<>>
      /\ Enter(d, calls)
  BY DEF InitializeDependency, InitFrame, Advanced
<1>2. /\ InstancesSound /\ StackSound /\ StagesSound
      /\ (Chained /\ Covered) \/ Looped
      /\ stage = "init" /\ Frames(stack, inst)
  BY <1>1 DEF IInv, InitFrame, StackSound
<1>3. /\ stack \in Seq(Frame) /\ 1 \in DOMAIN stack /\ Len(stack) \in Nat \ {0}
      /\ DOMAIN stack = 1 .. Len(stack)
      /\ stack[1].rest \in Seq(Id \cup {None})
  <2>1. stack \in Seq(Frame)
    BY <1>2 DEF Frames
  <2>2. stack[1] \in Frame
    BY <1>1, <2>1
  <2>3. stack[1].rest \in Seq(Id \cup {None})
    BY <2>2 DEF Frame
  <2>4. QED
    BY <1>1, <2>1, <2>3
<1>4. IsAdvanced(calls, stack)
  BY <1>1, <1>3, Advancing
<1>5. /\ calls \in Seq(Frame) /\ Len(calls) = Len(stack)
      /\ calls # <<>> /\ calls[Len(stack)].m = stack[Len(stack)].m
  BY <1>3, <1>4 DEF IsAdvanced
<1>6. d \in Range(stack[1].rest)
  BY <1>1, <1>3, Rest
<1>7. /\ stack[1].m \in DOMAIN inst /\ d \in Range(inst[stack[1].m].deps)
      /\ \A i \in DOMAIN inst : Range(inst[i].deps) \subseteq DOMAIN inst \cup {None}
      /\ d \in DOMAIN inst \cup {None}
      /\ current \in DOMAIN inst \cup {None} /\ None \notin DOMAIN inst
  BY <1>2, <1>3, <1>6, Entries DEF Frames, InstancesSound
<1> HIDE DEF d, calls
<1>8. \/ /\ stage' = "panic" /\ inst' = inst /\ stack' = stack /\ TooDeep(calls)
      \/ /\ stage' = "wild" /\ inst' = inst /\ stack' = stack /\ d = None
      \/ /\ stage' = "init" /\ d # None /\ stack' = calls /\ Marked(d)
         /\ inst[d].inited \/ ~inst[d].entry
      \/ /\ stage' = "init" /\ d # None /\ inst' = inst /\ inst[d].entry
         /\ Called(stack', d, inst, calls)
  BY <1>1, <1>2, <1>5, <1>7, Entering
<1>9. stage' \in {"init", "panic", "wild"}
      /\ (inst' = inst \/ \E m \in DOMAIN inst : Marked(m))
  BY <1>7, <1>8
<1>10. /\ TablesSound' /\ InstancesSound' /\ ImportsSound' /\ Kept
       /\ config' \in Seq(Files) /\ DOMAIN config' \subseteq Lines
       /\ at' \in Nat \ {0} /\ pool' \in Nat
  BY <1>1, <1>7, <1>9, InitKept
<1>11. StagesSound'
  <2>1. CASE inst' = inst
    BY <1>1, <1>9, <2>1, InitStages
  <2>2. CASE d # None /\ Marked(d) /\ ~inst[d].entry
    BY <1>1, <1>7, <1>9, <2>2, InitStages
  <2>3. CASE d # None /\ Marked(d) /\ inst[d].inited /\ inst[d].entry
    <3>1. inst[d].file \in started
      BY <1>2, <1>7, <2>3 DEF StagesSound
    <3>2. started' = started \cup {inst[d].file}
      BY <1>1, <3>1
    <3>3. QED
      BY <1>1, <1>7, <1>9, <2>3, <3>2, InitStages
  <2>4. QED
    BY <1>8, <2>1, <2>2, <2>3
<1>12. StackSound'
  <2>1. CASE stage' = "panic" /\ inst' = inst /\ stack' = stack /\ TooDeep(calls)
    <3>1. Len(stack) > MaxDepth
      BY <1>5, <2>1 DEF TooDeep
    <3>2. Range(stack[1].rest) # {}
      BY <1>6
    <3>3. QED
      BY <1>2, <2>1, <3>1, <3>2 DEF StackSound
  <2>2. CASE stage' = "wild" /\ inst' = inst /\ stack' = stack /\ d = None
    BY <1>2, <1>7, <2>2 DEF StackSound
  <2>3. CASE /\ stage' = "init" /\ d # None /\ stack' = calls /\ Marked(d)
             /\ inst[d].inited \/ ~inst[d].entry
    <3>1. /\ DOMAIN inst' = DOMAIN inst /\ d \in DOMAIN inst /\ inst'[d].inited
          /\ \A i \in DOMAIN inst : /\ inst'[i].entry = inst[i].entry
                                    /\ inst'[i].deps = inst[i].deps
                                    /\ inst[i].inited => inst'[i].inited
      BY <2>3 DEF Marked, Kept
    <3> DEFINE ins2 == inst'
    <3>2. /\ DOMAIN ins2 = DOMAIN inst /\ ins2[d].inited
          /\ \A i \in DOMAIN inst : /\ ins2[i].entry = inst[i].entry
                                    /\ ins2[i].deps = inst[i].deps
                                    /\ inst[i].inited => ins2[i].inited
      BY <3>1
    <3> HIDE DEF ins2
    <3>3. Frames(stack, ins2)
      BY <1>2, <1>7, <3>2, FramesKept
    <3>4. Frames(calls, ins2)
      BY <1>1, <1>4, <2>3, <3>2, <3>3, FramesAdvanced DEF d
    <3>5. Frames(stack', inst')
      BY <2>3, <3>4 DEF ins2
    <3>6. QED
      BY <2>3, <3>5 DEF StackSound
  <2>4. CASE /\ stage' = "init" /\ d # None /\ inst' = inst /\ inst[d].entry
             /\ Called(stack', d, inst, calls)
    <3> DEFINE c == stack'
    <3>1. Called(c, d, inst, calls) /\ d \in DOMAIN inst
      BY <1>7, <2>4
    <3> HIDE DEF c
    <3>2. Frames(c, inst)
      BY <1>1, <1>2, <1>4, <1>7, <2>4, <3>1, FramesCalled DEF d
    <3>3. Frames(stack', inst')
      BY <2>4, <3>2 DEF c
    <3>4. QED
      BY <2>4, <3>3 DEF StackSound
  <2>5. QED
    BY <1>8, <2>1, <2>2, <2>3, <2>4
<1>13. (Chained' /\ Covered') \/ Looped'
  <2>1. CASE Looped
    BY <1>1, <1>2, <1>9, <1>10, <2>1, KeptLooped DEF InitFrame
  <2>2. CASE Chained /\ Covered
    <3>1. Chained'
      BY <1>1, <1>2, <1>10, <2>2, KeptChained DEF InitFrame
    <3>2. CASE stage' # "init"
      BY <1>9, <3>1, <3>2 DEF Covered
    <3>3. CASE stage' = "init"
      <4>1. stack' # <<>> /\ stack'[Len(stack')].m = stack[Len(stack)].m
        <5>1. CASE stack' = calls
          BY <1>5, <5>1
        <5>2. CASE Called(stack', d, inst, calls)
          <6>1. /\ Len(stack') = Len(stack) + 1
                /\ stack'[Len(stack) + 1] = calls[Len(stack)]
            BY <1>3, <1>5, <5>2 DEF Called
          <6>2. stack' # <<>>
            BY <1>3, <6>1
          <6>3. QED
            BY <1>5, <6>1, <6>2
        <5>3. QED
          BY <1>8, <3>3, <5>1, <5>2
      <4>2. ASSUME NEW i \in DOMAIN inst, current' = None \/ inst[current'].file < inst[i].file
            PROVE  inst'[i].inited \/ (stack' # <<>> /\ stack'[Len(stack')].m = i)
        <5>1. Passed(i)
          BY <1>1, <4>2 DEF Passed
        <5>2. inst[i].inited \/ stack[Len(stack)].m = i
          BY <1>2, <2>2, <5>1 DEF Covered
        <5>3. inst[i].inited => inst'[i].inited
          BY <1>8 DEF Marked
        <5>4. QED
          BY <4>1, <5>2, <5>3
      <4>3. Covered'
        BY <1>1, <1>7, <1>10, <3>3, <4>2 DEF Covered, Passed, Kept
      <4>4. QED
        BY <3>1, <4>3
    <3>4. QED
      BY <3>2, <3>3
  <2>3. QED
    BY <1>2, <2>1, <2>2
<1>14. QED
  BY <1>10, <1>11, <1>12, <1>13 DEF IInv

(* The innermost call comes to its end, and runs the entry point unless a  *)
(* call further in has.                                                    *)
LEMMA RunFacts ==
  ASSUME IInv, RunEntry
  PROVE  /\ InitFrame /\ current' = current /\ stage' = stage
         /\ stack # <<>> /\ stack[1].rest = <<>> /\ stack' = Tail(stack)
         /\ stack[1].m \in DOMAIN inst /\ inst[stack[1].m].entry
         /\ \/ inst[stack[1].m].inited /\ inst' = inst /\ started' = started
            \/ /\ ~inst[stack[1].m].inited /\ Marked(stack[1].m)
               /\ started' = started \cup {inst[stack[1].m].file}
<1>1. /\ InitFrame /\ current' = current /\ stage' = stage
      /\ stack # <<>> /\ stack[1].rest = <<>> /\ stack' = Tail(stack)
  BY DEF RunEntry, InitFrame
<1>2. InstancesSound /\ Frames(stack, inst) /\ stack \in Seq(Frame)
  BY DEF IInv, StackSound, Frames
<1>3. stack[1].m \in DOMAIN inst /\ inst[stack[1].m].entry
  <2>1. 1 \in DOMAIN stack
    BY <1>1, <1>2
  <2>2. QED
    BY <1>2, <2>1 DEF Frames
<1>4. CASE inst[stack[1].m].inited
  BY <1>1, <1>3, <1>4 DEF RunEntry
<1>5. CASE ~inst[stack[1].m].inited
  <2>1. /\ inst' = [inst EXCEPT ![stack[1].m].inited = TRUE]
        /\ started' = started \cup {inst[stack[1].m].file}
    BY <1>5 DEF RunEntry
  <2>2. Marked(stack[1].m)
    BY <1>2, <1>3, <2>1, Marking
  <2>3. QED
    BY <1>1, <1>3, <1>5, <2>1, <2>2
<1>6. QED
  BY <1>4, <1>5

LEMMA RunStep ==
  ASSUME IInv, RunEntry
  PROVE  IInv'
<1> DEFINE m == stack[1].m
<1>1. /\ InitFrame /\ current' = current /\ stage' = stage
      /\ stack # <<>> /\ stack[1].rest = <<>> /\ stack' = Tail(stack)
      /\ m \in DOMAIN inst /\ inst[m].entry
      /\ \/ inst[m].inited /\ inst' = inst /\ started' = started
         \/ ~inst[m].inited /\ Marked(m) /\ started' = started \cup {inst[m].file}
  BY RunFacts
<1>2. /\ InstancesSound /\ StackSound /\ StagesSound
      /\ (Chained /\ Covered) \/ Looped
      /\ stage = "init" /\ Frames(stack, inst)
  BY <1>1 DEF IInv, InitFrame, StackSound
<1> HIDE DEF m
<1>3. /\ current' \in DOMAIN inst \cup {None} /\ stage' \in {"init", "panic", "wild"}
      /\ inst' = inst \/ \E k \in DOMAIN inst : Marked(k)
      /\ \A i \in DOMAIN inst : Range(inst[i].deps) \subseteq DOMAIN inst \cup {None}
  BY <1>1, <1>2 DEF InstancesSound
<1>4. /\ TablesSound' /\ InstancesSound' /\ ImportsSound' /\ Kept
      /\ config' \in Seq(Files) /\ DOMAIN config' \subseteq Lines
      /\ at' \in Nat \ {0} /\ pool' \in Nat
  BY <1>1, <1>3, InitKept
<1>5. StagesSound'
  BY <1>1, <1>3, InitStages
<1>6. /\ DOMAIN inst' = DOMAIN inst /\ inst'[m].inited
      /\ \A i \in DOMAIN inst : /\ inst'[i].entry = inst[i].entry
                                /\ inst'[i].deps = inst[i].deps
                                /\ inst[i].inited => inst'[i].inited
  BY <1>1 DEF Marked, Kept
<1>7. StackSound'
  <2> DEFINE ins2 == inst'
  <2>1. /\ DOMAIN ins2 = DOMAIN inst /\ ins2[m].inited
        /\ \A i \in DOMAIN inst : /\ ins2[i].entry = inst[i].entry
                                  /\ ins2[i].deps = inst[i].deps
                                  /\ inst[i].inited => ins2[i].inited
    BY <1>6
  <2> HIDE DEF ins2
  <2>2. Frames(stack, ins2)
    BY <1>2, <1>3, <2>1, FramesKept
  <2>3. Frames(Tail(stack), ins2)
    BY <1>1, <2>1, <2>2, FramesReturned DEF m
  <2>4. Frames(stack', inst')
    BY <1>1, <2>3 DEF ins2
  <2>5. QED
    BY <1>1, <1>2, <2>4 DEF StackSound
<1>8. (Chained' /\ Covered') \/ Looped'
  <2>1. CASE Looped
    BY <1>1, <1>2, <1>4, <2>1, KeptLooped DEF InitFrame
  <2>2. CASE Chained /\ Covered
    <3>1. Chained'
      BY <1>1, <1>2, <1>4, <2>2, KeptChained DEF InitFrame
    <3>2. \/ Len(stack) = 1
          \/ stack' # <<>> /\ stack'[Len(stack')].m = stack[Len(stack)].m
      <4>1. stack \in Seq(Frame)
        BY <1>2 DEF Frames
      <4>2. CASE Len(stack) # 1
        <5>1. Len(stack') = Len(stack) - 1 /\ Len(stack) - 1 \in Nat \ {0}
          BY <1>1, <4>1, <4>2
        <5>2. stack'[Len(stack) - 1] = stack[Len(stack)]
          BY <1>1, <4>1, <5>1
        <5>3. QED
          BY <5>1, <5>2
      <4>3. QED
        BY <4>2
    <3>3. ASSUME NEW i \in DOMAIN inst, current' = None \/ inst[current'].file < inst[i].file
          PROVE  inst'[i].inited \/ (stack' # <<>> /\ stack'[Len(stack')].m = i)
      <4>1. Passed(i)
        BY <1>1, <3>3 DEF Passed
      <4>2. inst[i].inited \/ stack[Len(stack)].m = i
        BY <1>2, <2>2, <4>1 DEF Covered
      <4>3. Len(stack) = 1 /\ stack[Len(stack)].m = i => i = m
        BY DEF m
      <4>4. QED
        BY <1>6, <3>2, <4>2, <4>3
    <3>4. Covered'
      BY <1>1, <1>2, <1>3, <1>4, <3>3 DEF Covered, Passed, Kept
    <3>5. QED
      BY <3>1, <3>4
  <2>3. QED
    BY <1>2, <2>1, <2>2
<1>9. QED
  BY <1>4, <1>5, <1>7, <1>8 DEF IInv

-----------------------------------------------------------------------------
(* The invariant.                                                          *)

LEMMA Started ==
  ASSUME Init
  PROVE  IInv
<1>1. /\ config \in Seq(Files) /\ DOMAIN config \subseteq Lines
  <2>1. PICK n \in 0 .. MaxLines : config \in [1 .. n -> Files]
    BY DEF Init
  <2>2. n \in Nat /\ 1 .. n \subseteq Lines
    BY ModulesAssumption DEF Lines
  <2>3. QED
    BY <2>1, <2>2
<1>2. /\ stage = "load" /\ at = 1 /\ DOMAIN inst = {} /\ head = None /\ current = None
      /\ handles = <<>> /\ bound = <<>> /\ stack = <<>> /\ started = {} /\ checked = {}
      /\ table = [i \in 0 .. (TypeCapacity - 1) |-> None]
      /\ sub = [t \in Types |-> [j \in 0 .. (InstanceCapacity - 1) |-> None]]
      /\ inst \in [DOMAIN inst -> Entry]
  BY DEF Init
<1>3. pool \in Nat
  BY ModulesAssumption DEF Init
<1>4. TablesSound
  <2>1. /\ table \in [0 .. (TypeCapacity - 1) -> Types \cup {None}]
        /\ sub \in [Types -> [0 .. (InstanceCapacity - 1) -> Names \cup {None}]]
    BY <1>2
  <2>2. Placed(table, TypeHome) /\ \A t \in Types : Placed(sub[t], NameHome)
    BY <1>2 DEF Placed
  <2>3. \A t \in Types, n \in Names : ~Holds(sub[t], n)
    BY <1>2, Capacities DEF Holds
  <2>4. \A t \in Types : ~Holds(table, t)
    BY <1>2, Capacities DEF Holds
  <2>5. QED
    BY <1>2, <2>1, <2>2, <2>3, <2>4 DEF TablesSound
<1>5. InstancesSound
  BY <1>2 DEF InstancesSound
<1>6. ImportsSound
  BY <1>2 DEF ImportsSound
<1>7. StagesSound
  <2>1. {inst[i].file : i \in {j \in DOMAIN inst : inst[j].inited /\ inst[j].entry}} = {}
    BY <1>2
  <2>2. QED
    BY <1>2, <2>1 DEF StagesSound
<1>8. StackSound
  BY <1>2 DEF StackSound, Frames
<1>9. Chained /\ Covered
  BY <1>2 DEF Chained, Covered
<1>10. QED
  BY <1>1, <1>2, <1>3, <1>4, <1>5, <1>6, <1>7, <1>8, <1>9 DEF IInv

(* A file that exports nothing, or finds no room, is passed over.          *)
LEMMA SkipStep ==
  ASSUME IInv, Load_Module, ~CanPut(config[at])
  PROVE  IInv'
<1>1. /\ config' = config /\ inst' = inst /\ table' = table /\ sub' = sub /\ head' = head
      /\ pool' = pool /\ handles' = handles /\ bound' = bound /\ stack' = stack
      /\ started' = started /\ checked' = checked /\ current' = current
      /\ stage' = stage /\ stage = "load" /\ at' = at + 1
  BY DEF Load_Module, registry
<1>2. /\ TablesSound /\ InstancesSound /\ ImportsSound /\ StagesSound /\ StackSound
      /\ (Chained /\ Covered) \/ Looped
      /\ at \in Nat \ {0}
  BY DEF IInv
<1>3. \A i \in DOMAIN inst : inst[i].file < at + 1
  BY <1>1, <1>2, Entries DEF InstancesSound
<1>4. InstancesSound'
  BY <1>1, <1>2, <1>3 DEF InstancesSound
<1>5. TablesSound'
  BY <1>1, <1>2 DEF TablesSound
<1>6. ImportsSound'
  <2>1. bound = <<>>
    BY <1>1, <1>2 DEF StagesSound
  <2>2. QED
    BY <1>1, <1>2, <2>1 DEF ImportsSound
<1>7. StagesSound' /\ StackSound'
  BY <1>1, <1>2 DEF StagesSound, StackSound
<1>8. (Chained' /\ Covered') \/ Looped'
  BY <1>1, <1>2 DEF Chained, Covered, Looped, Passed
<1>9. QED
  BY <1>1, <1>2, <1>4, <1>5, <1>6, <1>7, <1>8 DEF IInv

LEMMA Stutter ==
  ASSUME IInv, UNCHANGED vars
  PROVE  IInv'
<1>1. /\ config' = config /\ inst' = inst /\ table' = table /\ sub' = sub /\ head' = head
      /\ pool' = pool /\ handles' = handles /\ bound' = bound /\ stack' = stack
      /\ started' = started /\ checked' = checked /\ current' = current
      /\ stage' = stage /\ at' = at
  BY DEF vars
<1>2. TablesSound' /\ InstancesSound' /\ StagesSound' /\ StackSound'
  BY <1>1 DEF IInv, TablesSound, InstancesSound, StagesSound, StackSound
<1>3. ImportsSound'
  <2>1. InstancesSound /\ TablesSound /\ ImportsSound
    BY DEF IInv
  <2>2. Kept
    BY <1>1, <2>1, KeptUnchanged
  <2>3. QED
    BY <1>1, <2>1, <2>2, KeptImports
<1>4. (Chained' /\ Covered') \/ Looped'
  BY <1>1 DEF IInv, Chained, Covered, Looped, Passed
<1>5. QED
  BY <1>1, <1>2, <1>3, <1>4 DEF IInv

LEMMA NextStep ==
  ASSUME IInv, [Next]_vars
  PROVE  IInv'
<1>1. CASE Load_Module
  BY <1>1, PutStep, SkipStep
<1>2. CASE ExitBootServices \/ BeginKernel \/ BeginTests \/ BootSuccessful
  BY <1>2, StageStep
<1>3. CASE HandleImport
  BY <1>3, HandleStep
<1>4. CASE InitializeModules
  BY <1>4, InitializeStep
<1>5. CASE InitializeDependency
  BY <1>5, DependencyStep
<1>6. CASE RunEntry
  BY <1>6, RunStep
<1>7. CASE TestModule
  BY <1>7, TestStep
<1>8. CASE UNCHANGED vars
  BY <1>8, Stutter
<1>9. QED
  BY <1>1, <1>2, <1>3, <1>4, <1>5, <1>6, <1>7, <1>8 DEF Next

(* Throughout the start of the system the registry, the bindings, the      *)
(* calls in progress and the list of modules are in order.                 *)
THEOREM Invariance == Spec => []IInv
<1>1. Init => IInv
  BY Started
<1>2. IInv /\ [Next]_vars => IInv'
  BY NextStep
<1>3. QED
  BY <1>1, <1>2, PTL DEF Spec

-----------------------------------------------------------------------------
(* What is registered is well formed, what calls what is consistent, and   *)
(* the boot ends as it should.                                             *)

LEMMA Typed ==
  ASSUME IInv
  PROVE  TypeOK
<1>1. /\ config \in Seq(Files) /\ at \in Nat /\ pool \in Nat
      /\ TablesSound /\ InstancesSound /\ ImportsSound /\ StagesSound /\ StackSound
      /\ DOMAIN config \subseteq Lines
  BY DEF IInv
<1>2. ASSUME NEW i \in DOMAIN inst
      PROVE  /\ i \in Id /\ inst[i].file \in Lines
             /\ {inst[i].entry, inst[i].inited} \subseteq BOOLEAN
             /\ inst[i].deps \in Seq(DOMAIN inst \cup {None})
             /\ inst[i].next \in DOMAIN inst \cup {None}
  <2>1. /\ inst[i].deps \in Seq(Id \cup {None})
        /\ Range(inst[i].deps) \subseteq DOMAIN inst \cup {None}
    BY <1>1, Entries DEF InstancesSound
  <2>2. inst[i].deps \in Seq(DOMAIN inst \cup {None})
    <3> DEFINE d == inst[i].deps
               T == DOMAIN inst \cup {None}
    <3>1. Len(d) \in Nat /\ DOMAIN d = 1 .. Len(d) /\ d \in [DOMAIN d -> Id \cup {None}]
      BY <2>1
    <3>2. \A k \in DOMAIN d : d[k] \in T
      BY <2>1 DEF Range
    <3> HIDE DEF d, T
    <3> DEFINE n == Len(d)
    <3>3. d \in [1 .. n -> T] /\ n \in Nat
      BY <3>1, <3>2
    <3> HIDE DEF n
    <3>4. d \in Seq(T)
      BY <3>3
    <3>5. QED
      BY <3>4 DEF d, T
  <2>3. QED
    BY <1>1, <2>2, Entries DEF InstancesSound
<1>3. \A h \in DOMAIN handles : handles[h].parent \in DOMAIN inst /\ handles[h].file \in Lines
  BY <1>1 DEF ImportsSound
<1>4. bound \in Seq(Lines \cup {0})
  <2>1. ASSUME NEW k \in DOMAIN bound PROVE bound[k] \in Lines \cup {0}
    <3>1. k \in DOMAIN handles
      BY <1>1, <2>1 DEF ImportsSound
    <3>2. handles[k] \in Handle /\ bound[k] = FileOf(Provider(handles[k]))
      BY <1>1, <2>1, <3>1 DEF ImportsSound
    <3>3. Provider(handles[k]) \in DOMAIN inst \cup {None}
      BY <1>1, <3>2, Provided DEF InstancesSound
    <3>4. QED
      BY <1>1, <3>2, <3>3, Entries DEF FileOf
  <2> DEFINE n == Len(bound)
  <2>2. bound \in [1 .. n -> Lines \cup {0}] /\ n \in Nat
    <3>1. bound \in Seq(Nat)
      BY <1>1 DEF ImportsSound
    <3>2. QED
      BY <2>1, <3>1
  <2> HIDE DEF n
  <2>3. QED
    BY <2>2
<1>5. \A k \in DOMAIN stack : stack[k].m \in DOMAIN inst
  BY <1>1 DEF StackSound, Frames
<1>6. started \cup checked \subseteq Lines
  BY <1>1, Entries DEF StagesSound
<1>7. {head, current} \subseteq DOMAIN inst \cup {None}
  BY <1>1 DEF InstancesSound
<1>8. /\ table \in [0 .. (TypeCapacity - 1) -> Types \cup {None}]
      /\ sub \in [Types -> [0 .. (InstanceCapacity - 1) -> Names \cup {None}]]
      /\ stage \in {"load", "import", "init", "test"} \cup Ends
      /\ Len(bound) <= Len(handles)
  BY <1>1 DEF TablesSound, StagesSound, ImportsSound
<1>9. QED
  BY <1>1, <1>2, <1>3, <1>4, <1>5, <1>6, <1>7, <1>8 DEF TypeOK

LEMMA Bound ==
  ASSUME IInv
  PROVE  ImportsResolve
<1>1. TablesSound /\ InstancesSound /\ ImportsSound
  BY DEF IInv
<1>2. ASSUME NEW k \in DOMAIN bound
      PROVE  /\ handles[k] \in Handle /\ bound[k] = FileOf(Provider(handles[k]))
             /\ FileOf(Provider(handles[k])) = 0 <=> Provider(handles[k]) = None
  <2>1. k \in DOMAIN handles
    BY <1>1, <1>2 DEF ImportsSound
  <2>2. handles[k] \in Handle /\ bound[k] = FileOf(Provider(handles[k]))
    BY <1>1, <1>2, <2>1 DEF ImportsSound
  <2>3. Provider(handles[k]) \in DOMAIN inst \cup {None}
    BY <1>1, <2>2, Provided DEF InstancesSound
  <2>4. \A i \in DOMAIN inst : inst[i].file # 0
    BY <1>1, Entries, Capacities
  <2>5. QED
    BY <2>2, <2>3, <2>4 DEF FileOf
<1>3. ASSUME NEW i \in DOMAIN bound
      PROVE  LET h == handles[i] IN
             /\ bound[i] # 0 => \E c \in Candidates(h) : inst[c].file = bound[i]
             /\ bound[i] = 0 => \/ Candidates(h) = {}
                                \/ h.name = Any /\ \E c \in Candidates(h) : c[2] \in Long
             /\ h.name = Any => \A j \in DOMAIN bound :
                  handles[j].type = h.type /\ handles[j].name = Any => bound[j] = bound[i]
  <2> DEFINE h == handles[i]
             p == Provider(h)
  <2>1. h \in Handle /\ bound[i] = FileOf(p) /\ (FileOf(p) = 0 <=> p = None)
    BY <1>2
  <2>2. /\ p # None => p \in Candidates(h)
        /\ p = None => \/ Candidates(h) = {}
                       \/ h.name = Any /\ \E c \in Candidates(h) : c[2] \in Long
    BY <1>1, <2>1, Provided DEF InstancesSound
  <2>3. p # None => FileOf(p) = inst[p].file
    BY DEF FileOf
  <2>4. ASSUME h.name = Any, NEW j \in DOMAIN bound,
               handles[j].type = h.type, handles[j].name = Any
        PROVE  bound[j] = bound[i]
    <3>1. Provider(handles[j]) = p
      BY <2>4 DEF Provider
    <3>2. QED
      BY <1>2, <3>1
  <2> HIDE DEF p
  <2>5. QED
    BY <2>1, <2>2, <2>3, <2>4
<1>4. QED
  BY <1>3 DEF ImportsResolve

(* The dependencies of the instances that have something to start.         *)
Deeper(near) == UNION {Range(inst[i].deps) : i \in {j \in near \ {None} : inst[j].entry}}

Chain(top) ==
  CHOOSE f : f = [n \in 0 .. top |-> IF n = 0 THEN DOMAIN inst ELSE Deeper(f[n - 1])]

(* The recursive function exists: one that is right up to n extends to one *)
(* that is right up to n + 1.                                              *)
LEMMA ChainDefined ==
  ASSUME NEW top \in Nat
  PROVE  /\ Chain(top)[0] = DOMAIN inst
         /\ \A n \in 1 .. top : Chain(top)[n] = Deeper(Chain(top)[n - 1])
<1> DEFINE Right(f, t) ==
             f = [n \in 0 .. t |-> IF n = 0 THEN DOMAIN inst ELSE Deeper(f[n - 1])]
           Bad == {t \in Nat : ~ \E f : Right(f, t)}
<1>1. Bad = {}
  <2>1. SUFFICES ASSUME Bad # {} PROVE FALSE
    OBVIOUS
  <2>2. Bad \in SUBSET Nat
    OBVIOUS
  <2>3. PICK t \in Bad : \A y \in Bad : t <= y
    <3> HIDE DEF Bad
    <3>1. QED
      BY <2>1, <2>2, Least
  <2> t \in Nat
    BY <2>3
  <2>4. t # 0
    <3>1. Right([n \in 0 .. 0 |-> DOMAIN inst], 0)
      <4>1. \A n \in 0 .. 0 : n = 0
        OBVIOUS
      <4>2. QED
        BY <4>1
    <3>2. QED
      BY <3>1
  <2>5. PICK g : Right(g, t - 1)
    <3>1. t - 1 \in Nat /\ t - 1 < t
      BY <2>4
    <3>2. t - 1 \notin Bad
      <4>1. ~ (t <= t - 1)
        OBVIOUS
      <4> HIDE DEF Bad
      <4>2. QED
        BY <2>3, <4>1
    <3>3. QED
      BY <3>1, <3>2
  <2> DEFINE f == [n \in 0 .. t |-> IF n = t THEN Deeper(g[t - 1]) ELSE g[n]]
  <2>6. ASSUME NEW n \in 0 .. t
        PROVE  f[n] = IF n = 0 THEN DOMAIN inst ELSE Deeper(f[n - 1])
    <3>1. CASE n = 0
      BY <3>1, <2>4, <2>5
    <3>2. CASE n # 0
      <4>1. n - 1 \in 0 .. t /\ n - 1 # t /\ n - 1 \in 0 .. (t - 1)
        BY <3>2
      <4>2. f[n - 1] = g[n - 1]
        BY <4>1
      <4>3. CASE n = t
        BY <4>3, <4>2, <3>2
      <4>4. CASE n # t
        <5>1. n \in 0 .. (t - 1)
          BY <4>4
        <5>2. g[n] = Deeper(g[n - 1])
          BY <5>1, <3>2, <2>5, Zenon
        <5>3. f[n] = g[n]
          BY <4>4
        <5>4. QED
          BY <5>2, <5>3, <4>2, <3>2
      <4>5. QED
        BY <4>3, <4>4
    <3>3. QED
      BY <3>1, <3>2
  <2>7. Right(f, t)
    <3>1. f = [n \in 0 .. t |-> f[n]]
      OBVIOUS
    <3> HIDE DEF f
    <3>2. QED
      BY <3>1, <2>6
  <2>8. QED
    <3> HIDE DEF f
    <3>1. QED
      BY <2>7
<1>2. Right(Chain(top), top)
  <2>1. \E f : Right(f, top)
    BY <1>1
  <2>2. QED
    BY <2>1 DEF Chain
<1> HIDE DEF Bad
<1> DEFINE c == Chain(top)
<1>3. c = [n \in 0 .. top |-> IF n = 0 THEN DOMAIN inst ELSE Deeper(c[n - 1])]
  BY <1>2
<1> HIDE DEF c, Right
<1>4. c[0] = DOMAIN inst
  BY <1>3
<1>5. ASSUME NEW n \in 1 .. top PROVE c[n] = Deeper(c[n - 1])
  <2>1. n \in 0 .. top /\ n # 0
    OBVIOUS
  <2>2. QED
    BY <1>3, <2>1, Zenon
<1>6. QED
  BY <1>4, <1>5 DEF c

(* A panic has the chain of dependencies that the calls in progress are.   *)
LEMMA PanicIsDeep ==
  ASSUME IInv, stage = "panic"
  PROVE  DeepChain
<1> DEFINE w == Chain(MaxDepth + 1)
           len == Len(stack)
<1>1. /\ Frames(stack, inst) /\ len > MaxDepth /\ Range(stack[1].rest) # {}
      /\ None \notin DOMAIN inst
  BY Entries DEF IInv, StackSound
<1>2. /\ MaxDepth \in Nat /\ len \in Nat /\ DOMAIN stack = 1 .. len
  BY <1>1, ModulesAssumption DEF Frames
<1>3. w[0] = DOMAIN inst /\ \A n \in 1 .. (MaxDepth + 1) : w[n] = Deeper(w[n - 1])
  BY <1>2, ChainDefined
<1> HIDE DEF w
<1> HIDE DEF len
<1>4. ASSUME NEW k \in 1 .. len
      PROVE  /\ stack[k].m \in DOMAIN inst /\ stack[k].m # None /\ inst[stack[k].m].entry
             /\ k > 1 => stack[k - 1].m \in Range(inst[stack[k].m].deps)
             /\ Range(stack[k].rest) \subseteq Range(inst[stack[k].m].deps)
  BY <1>1, <1>2 DEF Frames
<1>5. \A n \in 0 .. MaxDepth : stack[len - n].m \in w[n]
  <2> DEFINE Bad == {n \in 0 .. MaxDepth : stack[len - n].m \notin w[n]}
  <2>1. SUFFICES ASSUME Bad # {} PROVE FALSE
    OBVIOUS
  <2>2. Bad \in SUBSET Nat
    BY <1>2
  <2>3. PICK n \in Bad : \A y \in Bad : n <= y
    <3> HIDE DEF Bad
    <3>1. QED
      BY <2>1, <2>2, Least
  <2>4. n \in 0 .. MaxDepth /\ stack[len - n].m \notin w[n]
    OBVIOUS
  <2>5. len - n \in 1 .. len
    BY <1>1, <1>2, <2>4
  <2>6. n # 0
    <3>1. len - 0 = len
      BY <1>2
    <3>2. QED
      BY <1>3, <1>4, <2>4, <2>5, <3>1
  <2>7. n - 1 \in 0 .. MaxDepth /\ n \in 1 .. (MaxDepth + 1) /\ ~(n <= n - 1)
    BY <1>2, <2>4, <2>6
  <2>8. n - 1 \notin Bad
    <3> HIDE DEF Bad
    <3>1. QED
      BY <2>3, <2>7
  <2> DEFINE l == len - (n - 1)
  <2>9. stack[l].m \in w[n - 1]
    BY <2>7, <2>8
  <2>10. l \in 1 .. len /\ l > 1 /\ l - 1 = len - n
    BY <1>1, <1>2, <2>4, <2>6, <2>7
  <2> HIDE DEF l
  <2>11. /\ stack[l].m # None /\ inst[stack[l].m].entry
         /\ stack[len - n].m \in Range(inst[stack[l].m].deps)
    BY <1>4, <2>10
  <2>12. stack[len - n].m \in Deeper(w[n - 1])
    BY <2>9, <2>11 DEF Deeper
  <2>13. QED
    BY <1>3, <2>4, <2>7, <2>12
<1>6. w[MaxDepth + 1] # {}
  <2> DEFINE l == len - MaxDepth
  <2>1. l \in 1 .. len /\ stack[l].m \in w[MaxDepth]
    BY <1>1, <1>2, <1>5
  <2> HIDE DEF l
  <2>2. Range(inst[stack[l].m].deps) # {}
    <3>1. CASE l = 1
      BY <1>1, <1>4, <2>1, <3>1
    <3>2. CASE l # 1
      <4>1. l > 1
        BY <1>2, <2>1, <3>2
      <4>2. QED
        BY <1>4, <2>1, <4>1
    <3>3. QED
      BY <3>1, <3>2
  <2>3. Deeper(w[MaxDepth]) # {}
    <3> DEFINE x == stack[l].m
               near == w[MaxDepth]
    <3>1. x \in near \ {None} /\ inst[x].entry
      BY <1>4, <2>1
    <3>2. PICK y : y \in Range(inst[x].deps)
      BY <2>2
    <3> HIDE DEF x, near
    <3>3. y \in Deeper(near)
      BY <3>1, <3>2, ZenonT(60) DEF Deeper
    <3>4. QED
      BY <3>3 DEF near
  <2>4. w[MaxDepth + 1] = Deeper(w[(MaxDepth + 1) - 1]) /\ (MaxDepth + 1) - 1 = MaxDepth
    <3>1. MaxDepth + 1 \in 1 .. (MaxDepth + 1) /\ (MaxDepth + 1) - 1 = MaxDepth
      BY <1>2
    <3>2. QED
      BY <1>3, <3>1
  <2>5. QED
    BY <2>3, <2>4
<1>7. QED
  BY <1>6 DEF w, DeepChain, Chain, Deeper

LEMMA Deserved ==
  ASSUME IInv
  PROVE  EndsAreDeserved
<1>1. /\ InstancesSound /\ ImportsSound /\ StagesSound /\ StackSound
      /\ (Chained /\ Covered) \/ Looped
  BY DEF IInv
<1>2. stage = "panic" => DeepChain
  BY PanicIsDeep
<1>3. stage = "wild" => \E i \in DOMAIN bound : bound[i] = 0
  BY <1>1 DEF StackSound, ImportsSound
<1>4. ASSUME stage = "done", NEW i \in DOMAIN inst
      PROVE  inst[i].file \in IF inst[i].entry THEN started ELSE checked
  <2>1. Covered
    BY <1>1, <1>4 DEF Looped
  <2>2. inst[i].inited /\ Passed(i)
    BY <1>4, <2>1 DEF Covered, Passed
  <2>3. CASE inst[i].entry
    BY <1>1, <2>2, <2>3 DEF StagesSound
  <2>4. CASE ~inst[i].entry
    BY <1>4, <2>1, <2>2, <2>4 DEF Covered
  <2>5. inst[i].entry \in BOOLEAN
    BY <1>1, Entries
  <2>6. QED
    BY <2>3, <2>4, <2>5
<1>5. QED
  BY <1>2, <1>3, <1>4 DEF EndsAreDeserved

(* However the files of kernel.ini are ordered and whatever is missing or  *)
(* full: the registry is well formed, every import is bound to a provider  *)
(* of what it asks for and left unbound only without one, the anonymous    *)
(* imports of an interface all get the same one, and the boot panics, goes *)
(* astray or succeeds only with the reason for it (HandleModuleImports,    *)
(* InitializeModules).                                                     *)
THEOREM Agreement == Spec => []ModulesAgree
<1>1. IInv => ModulesAgree
  BY Typed, Bound, Deserved DEF ModulesAgree
<1>2. QED
  BY <1>1, Invariance, PTL

-----------------------------------------------------------------------------
(* No module starts before what it calls.                                  *)

Needs == [l \in Lines |-> {bound[i] : i \in {k \in DOMAIN bound : handles[k].file = l}}]
Silent == {l \in DOMAIN config : ~config[l].entry}

UpStep == Up!Next \/ UNCHANGED <<Needs, Silent, started, checked>>

LEMMA UpInit ==
  ASSUME Init
  PROVE  Up!Init
<1>1. /\ DOMAIN config \subseteq Lines /\ bound = <<>> /\ started = {} /\ checked = {}
  BY Started DEF IInv, Init
<1>2. Silent \subseteq Lines
  BY <1>1 DEF Silent
<1>3. Needs = [l \in Lines |-> {}]
  BY <1>1 DEF Needs
<1>4. QED
  BY <1>1, <1>2, <1>3 DEF Up!Init, Needs, Silent

(* Binding an import is linking a call.                                    *)
LEMMA LinkStep ==
  ASSUME IInv, HandleImport
  PROVE  UpStep
<1>1. /\ stage = "import" /\ config' = config /\ handles' = handles
      /\ started' = started /\ checked' = checked
      /\ bound' = bound \/ \E b : bound' = Append(bound, b)
  BY DEF HandleImport
<1>2. started = {} /\ checked = {}
  <2>1. StagesSound /\ \A i \in DOMAIN inst : ~inst[i].inited
    BY <1>1 DEF IInv, StagesSound
  <2>2. {inst[i].file : i \in {j \in DOMAIN inst : inst[j].inited /\ inst[j].entry}} = {}
    BY <2>1
  <2>3. QED
    BY <1>1, <2>1, <2>2 DEF StagesSound
<1>3. bound \in Seq(Nat)
  BY DEF IInv, ImportsSound
<1>4. DOMAIN bound \subseteq DOMAIN bound' /\ \A k \in DOMAIN bound : bound'[k] = bound[k]
  BY <1>1, <1>3
<1>5. \A l \in Lines : Needs[l] \subseteq Needs'[l]
  BY <1>1, <1>4 DEF Needs
<1>6. Silent' = Silent
  BY <1>1 DEF Silent
<1>7. Up!Link
  BY <1>1, <1>2, <1>5, <1>6 DEF Up!Link, Needs, Silent
<1>8. QED
  BY <1>7 DEF UpStep, Up!Next

(* Running an entry point is starting a module that is due.                *)
LEMMA StartStep ==
  ASSUME IInv, RunEntry
  PROVE  UpStep
<1> DEFINE m == stack[1].m
           l == inst[m].file
<1>1. /\ InitFrame /\ stack # <<>> /\ stack[1].rest = <<>>
      /\ m \in DOMAIN inst /\ inst[m].entry
      /\ \/ started' = started
         \/ ~inst[m].inited /\ started' = started \cup {l}
  BY RunFacts
<1>2. Needs' = Needs /\ Silent' = Silent /\ checked' = checked
  BY <1>1 DEF InitFrame, Needs, Silent
<1>3. /\ TablesSound /\ InstancesSound /\ ImportsSound /\ StagesSound /\ Frames(stack, inst)
      /\ DOMAIN config \subseteq Lines /\ stage = "init"
  BY <1>1 DEF IInv, StackSound, InitFrame
<1>4. CASE started' = started
  BY <1>2, <1>4 DEF UpStep
<1>5. CASE ~inst[m].inited /\ started' = started \cup {l}
  <2>1. l \in Lines /\ l \in DOMAIN config /\ l \notin Silent
    BY <1>1, <1>3 DEF InstancesSound, Silent
  <2>2. l \notin started
    BY <1>1, <1>3, <1>5, Distinct DEF StagesSound
  <2>3. checked = {}
    BY <1>3 DEF StagesSound
  <2>4. ASSUME NEW k \in DOMAIN bound, handles[k].file = l
        PROVE  bound[k] \in started \cup Silent
    <3> DEFINE p == Provider(handles[k])
    <3>1. k \in DOMAIN handles
      BY <1>3, <2>4 DEF ImportsSound
    <3>2. handles[k].parent = m
      <4>1. handles[k].parent = <<config[l].type, config[l].name>>
        BY <1>3, <2>4, <3>1 DEF ImportsSound
      <4>2. m[1] = config[l].type /\ m[2] = config[l].name /\ m \in Types \X Names
        BY <1>1, <1>3 DEF InstancesSound, Id
      <4> HIDE DEF l, m
      <4>3. QED
        BY <4>1, <4>2
    <3>3. bound[k] = FileOf(p) /\ p \in Range(inst[m].deps)
      BY <1>3, <2>4, <3>2 DEF ImportsSound
    <3>4. 1 \in DOMAIN stack /\ Range(<<>>) = {}
      BY <1>1, <1>3 DEF Frames, Range
    <3>5. Behind(stack, inst, 1, p)
      BY <1>1, <1>3, <3>3, <3>4 DEF Frames
    <3>6. p # None /\ inst[p].inited /\ p \in DOMAIN inst
      BY <1>1, <1>3, <3>3, <3>5 DEF Behind, InstancesSound
    <3> HIDE DEF p
    <3>7. CASE inst[p].entry
      BY <1>3, <3>3, <3>6, <3>7 DEF StagesSound, FileOf
    <3>8. CASE ~inst[p].entry
      BY <1>3, <3>3, <3>6, <3>8 DEF InstancesSound, Silent, FileOf
    <3>9. QED
      BY <3>7, <3>8
  <2>5. Needs[l] \subseteq started \cup Silent
    <3>1. Needs[l] = {bound[i] : i \in {k \in DOMAIN bound : handles[k].file = l}}
      BY <2>1 DEF Needs
    <3> HIDE DEF l
    <3>2. QED
      BY <2>4, <3>1
  <2> HIDE DEF l, m
  <2>6. Up!Start
    <3>1. l \in Lines \ (Silent \cup started)
      BY <2>1, <2>2
    <3>2. /\ checked = {} /\ Needs[l] \subseteq started \cup Silent
          /\ started' = started \cup {l} /\ UNCHANGED <<Needs, Silent, checked>>
      BY <1>2, <1>5, <2>3, <2>5
    <3>3. QED
      BY <3>1, <3>2 DEF Up!Start, Needs, Silent
  <2>7. QED
    BY <2>6 DEF UpStep, Up!Next
<1>6. QED
  BY <1>1, <1>4, <1>5

(* Testing a module is checking it.                                        *)
LEMMA CheckStep ==
  ASSUME IInv, TestModule
  PROVE  UpStep
<1> DEFINE l == inst[current].file
<1>1. /\ config' = config /\ bound' = bound /\ handles' = handles /\ started' = started
      /\ current # None
      /\ checked' = IF inst[current].entry THEN checked ELSE checked \cup {l}
  BY DEF TestModule, registry
<1>2. Needs' = Needs /\ Silent' = Silent
  BY <1>1 DEF Needs, Silent
<1>3. CASE checked' = checked
  BY <1>1, <1>2, <1>3 DEF UpStep
<1>4. CASE checked' # checked
  <2>1. ~inst[current].entry /\ l \notin checked /\ checked' = checked \cup {l}
    BY <1>1, <1>4
  <2>2. l \in Silent
    BY <1>1, <2>1 DEF IInv, InstancesSound, Silent
  <2>3. Up!Check
    BY <1>1, <1>2, <2>1, <2>2 DEF Up!Check, Needs, Silent
  <2>4. QED
    BY <2>3 DEF UpStep, Up!Next
<1>5. QED
  BY <1>3, <1>4

LEMMA OtherStep ==
  ASSUME IInv, \/ Load_Module \/ ExitBootServices \/ BeginKernel \/ BeginTests
               \/ BootSuccessful \/ InitializeModules \/ InitializeDependency
               \/ UNCHANGED vars
  PROVE  UpStep
<1>1. config' = config /\ bound' = bound /\ started' = started /\ checked' = checked
  BY DEF Load_Module, ExitBootServices, BeginKernel, BeginTests, BootSuccessful,
         InitializeModules, InitializeDependency, vars
<1>2. handles' = handles \/ bound = <<>>
  <2>1. CASE Load_Module
    BY <2>1 DEF Load_Module, IInv, StagesSound
  <2>2. CASE ~Load_Module
    BY <2>2 DEF ExitBootServices, BeginKernel, BeginTests, BootSuccessful,
                InitializeModules, InitializeDependency, vars
  <2>3. QED
    BY <2>1, <2>2
<1>3. Needs' = Needs
  <2>1. CASE handles' = handles
    BY <1>1, <2>1 DEF Needs
  <2>2. CASE bound = <<>>
    BY <1>1, <2>2 DEF Needs
  <2>3. QED
    BY <1>2, <2>1, <2>2
<1>4. QED
  BY <1>1, <1>3 DEF UpStep, Silent

(* Starting the system is a Startup: it links before it starts, starts no  *)
(* module twice and none before what it calls, so that one that imports    *)
(* what nobody provides never starts, and tests the modules without an     *)
(* entry point after all that (HandleModuleImports, InitializeModule).     *)
THEOREM Implementation == Spec => ImplementsStartup
<1>1. Init => Up!Init
  BY UpInit
<1>2. IInv /\ [Next]_vars => [Up!Next]_(Up!vars)
  <2>1. SUFFICES ASSUME IInv, [Next]_vars PROVE UpStep
    BY DEF UpStep, Up!vars, Needs, Silent
  <2>2. CASE HandleImport
    BY <2>1, <2>2, LinkStep
  <2>3. CASE RunEntry
    BY <2>1, <2>3, StartStep
  <2>4. CASE TestModule
    BY <2>1, <2>4, CheckStep
  <2>5. CASE \/ Load_Module \/ ExitBootServices \/ BeginKernel \/ BeginTests
             \/ BootSuccessful \/ InitializeModules \/ InitializeDependency
             \/ UNCHANGED vars
    BY <2>1, <2>5, OtherStep
  <2>6. QED
    BY <2>1, <2>2, <2>3, <2>4, <2>5 DEF Next
<1>3. QED
  BY <1>1, <1>2, Invariance, PTL DEF Spec, ImplementsStartup, Up!Spec

=============================================================================
