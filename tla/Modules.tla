------------------------------- MODULE Modules -------------------------------
(***************************************************************************)
(* How the boot loader brings the modules up: boot/main.c loads the files  *)
(* kernel.ini names (boot/modules/kernel_loader.c, elf_loader.c), each of  *)
(* which registers the interface it exports and records those it imports   *)
(* (module_registry.c, module_import_handle.c); then it resolves the       *)
(* imports, and then starts the modules, dependencies first, by recursion. *)
(*                                                                         *)
(* A name stands for its hash.  A file is what its ELF sections say: the   *)
(* interface it exports (type and name), the interfaces it imports, whether*)
(* it has an entry point.  A file is known by its line of kernel.ini, and  *)
(* so is the table of functions it exports; a registered instance is known *)
(* by its type and name.  Loading a file is one step, binding an import is *)
(* one step, and so is every call and return of InitializeModule.          *)
(***************************************************************************)
EXTENDS Integers, Sequences, FiniteSetsExt

CONSTANTS
  Types, Names,    \* the names of interfaces and of their implementations
  Long,            \* the names that do not fit NameString
  Files,           \* the files there may be: [type, name, imports, entry]
  MaxLines,        \* kernel.ini names at most this many files
  TypeHome,        \* the hash of a type modulo TypeCapacity
  NameHome,        \* the hash of a name modulo InstanceCapacity
  TypeCapacity,    \* Reg.TypeCapacity
  InstanceCapacity,\* SUBMAP_INITIAL_CAPACITY
  Pools,           \* the sizes of the pool behind the type table, in dependency records
  SubMap,          \* the size of an instance table, in dependency records
  MaxDepth,        \* MAX_MODULE_DEPTH
  None             \* a null pointer, an empty slot, a file with no export

Any  == "any"      \* an import that names no implementation
Cut(n) == IF n \in Long THEN "cut" ELSE n   \* what Strlcpy keeps of a name

Import == [type : Types, name : Names \cup {Any}]
Id     == Types \X Names
Lines  == 1 .. MaxLines

ASSUME ModulesAssumption ==
  /\ {TypeCapacity, InstanceCapacity, SubMap} \subseteq Nat \ {0}
  /\ Pools \cup {MaxLines, MaxDepth} \subseteq Nat
  /\ TypeHome \in [Types -> 0 .. (TypeCapacity - 1)]
  /\ NameHome \in [Names -> 0 .. (InstanceCapacity - 1)]
  /\ {None, Any, "cut"} \cap Names = {} /\ Long \subseteq Names
  /\ None \notin Types /\ None \notin Id
  /\ \A f \in Files : /\ f.type \in Types \cup {None} /\ f.name \in Names
                      /\ f.imports \in Seq(Import) /\ f.entry \in BOOLEAN

VARIABLES
  config,    \* the files kernel.ini names
  stage,     \* what the loader is doing, or how it ended
  at,        \* the line being loaded or the import being bound
  table,     \* Reg.TypeTable: the type in each slot
  sub,       \* the instance tables: the name in each slot, for each type
  inst,      \* the entries of the registered instances
  head,      \* Head
  pool,      \* Reg.PoolRemaining
  handles,   \* ModuleImportHandleArray
  bound,     \* the file whose functions each import handled so far calls
  current,   \* the instance InitializeModules has come to
  stack,     \* the calls of InitializeModule in progress, innermost first
  started,   \* the files whose entry point has run
  checked    \* the files whose tests have run after everything was started

registry == <<table, sub, inst, head, pool>>
vars == <<config, stage, at, table, sub, inst, head, pool, handles, bound, current, stack,
          started, checked>>

-----------------------------------------------------------------------------
(* The two levels of hash tables.                                          *)

(* The first slot, probing from home, that holds key or nothing; -1 if the *)
(* table is full of others.                                                *)
Probe(slots, home, key) ==
  LET cap  == Cardinality(DOMAIN slots)
      hits == {k \in 0 .. (cap - 1) : slots[(home + k) % cap] \in {key, None}}
  IN  IF hits = {} THEN -1 ELSE (home + Min(hits)) % cap

TypeSlot(t) == Probe(table, TypeHome[t], t)
NameSlot(t, n) == Probe(sub[t], NameHome[n], n)

HasType(t) == TypeSlot(t) # -1 /\ table[TypeSlot(t)] = t

(* Faulty variant: the search for an instance does not probe.              *)
FindAtHome(t, n) ==
  IF HasType(t) /\ n \in Names /\ sub[t][NameHome[n]] = n THEN <<t, n>> ELSE None

(* RegistryGetInstanceEntry and RegistryGet look an instance up alike.     *)
Find(t, n) ==
  IF /\ HasType(t) /\ n \in Names
     /\ NameSlot(t, n) # -1 /\ sub[t][NameSlot(t, n)] = n
  THEN <<t, n>> ELSE None

(* RegistryResolveName: the first occupied slot of the type's table.       *)
ResolveName(t) ==
  IF HasType(t)
  THEN Cut(sub[t][Min({j \in DOMAIN sub[t] : sub[t][j] # None})])
  ELSE None

(* A type needs an instance table from the pool, the first time.           *)
HasRoom(t) == HasType(t) \/ pool >= SubMap

(* RegistryPut accepts an export unless a table or the pool is full.       *)
CanPut(f) ==
  /\ f.type # None
  /\ TypeSlot(f.type) # -1
  /\ HasRoom(f.type)
  /\ NameSlot(f.type, f.name) # -1

RegistryPut(f) ==
  LET t == f.type  id == <<f.type, f.name>>
      entry == [file |-> at, entry |-> f.entry, deps |-> <<>>, inited |-> FALSE, next |-> head]
  IN  /\ table' = [table EXCEPT ![TypeSlot(t)] = t]
      /\ pool' = IF HasType(t) THEN pool ELSE pool - SubMap
      /\ sub' = [sub EXCEPT ![t][NameSlot(t, f.name)] = f.name]
      /\ inst' = [i \in DOMAIN inst \cup {id} |-> IF i = id THEN entry ELSE inst[i]]
      /\ head' = id

-----------------------------------------------------------------------------
(* efi_main up to the exit from the boot services: the files are loaded.   *)

Init ==
  /\ config \in UNION {[1 .. n -> Files] : n \in 0 .. MaxLines}
  /\ stage = "load" /\ at = 1
  /\ table = [i \in 0 .. (TypeCapacity - 1) |-> None]
  /\ sub = [t \in Types |-> [j \in 0 .. (InstanceCapacity - 1) |-> None]]
  /\ inst = [i \in {} |-> None] /\ head = None /\ pool \in Pools
  /\ handles = <<>> /\ bound = <<>>
  /\ current = None /\ stack = <<>>
  /\ started = {} /\ checked = {}

Handles(f) ==
  [i \in DOMAIN f.imports |->
     [type |-> f.imports[i].type, name |-> f.imports[i].name,
      parent |-> <<f.type, f.name>>, file |-> at]]

(* Load_Module reads a file and ignores what Load_Elf says of it: a file   *)
(* that is missing, exports nothing or cannot be registered is passed over.*)
Load_Module ==
  /\ stage = "load" /\ at <= Len(config)
  /\ IF CanPut(config[at])
     THEN RegistryPut(config[at]) /\ handles' = handles \o Handles(config[at])
     ELSE UNCHANGED <<registry, handles>>
  /\ at' = at + 1
  /\ UNCHANGED <<config, stage, bound, current, stack, started, checked>>

(* The allocations, page tables and boot services in between may fail.     *)
ExitBootServices ==
  /\ stage = "load" /\ at > Len(config)
  /\ stage' \in {"import", "returned"} /\ at' = 1
  /\ UNCHANGED <<config, registry, handles, bound, current, stack, started, checked>>

-----------------------------------------------------------------------------
(* HandleModuleImports.                                                    *)

Provider(h) == Find(h.type, IF h.name = Any THEN ResolveName(h.type) ELSE h.name)

(* An import is bound: its provider becomes a dependency of the importer,  *)
(* and its functions are copied, none if there is no provider.             *)
HandleImport ==
  /\ stage = "import" /\ at <= Len(handles)
  /\ IF pool = 0
     THEN stage' = "returned" /\ UNCHANGED <<at, inst, pool, bound>>
     ELSE LET h == handles[at]  p == Provider(h) IN
          /\ inst' = [inst EXCEPT ![Find(h.parent[1], h.parent[2])].deps = <<p>> \o @]
          /\ pool' = pool - 1
          /\ bound' = Append(bound, IF p = None THEN 0 ELSE inst[p].file)
          /\ at' = at + 1 /\ UNCHANGED stage
  /\ UNCHANGED <<config, table, sub, head, handles, current, stack, started, checked>>

BeginKernel ==
  /\ stage = "import" /\ at > Len(handles)
  /\ stage' = "init" /\ current' = head
  /\ UNCHANGED <<config, at, registry, handles, bound, stack, started, checked>>

-----------------------------------------------------------------------------
(* InitializeModules.                                                      *)

(* The depth of a call is the number of calls around it.                   *)
TooDeep(calls) == Len(calls) > MaxDepth

(* The dependencies a call goes through, the one linked last first.        *)
(* Faulty variant: it does not go beyond the first.                        *)
LastDependency(m) == [k \in DOMAIN inst[m].deps \cap {1} |-> inst[m].deps[k]]
Dependencies(m) == inst[m].deps

(* What a call of InitializeModule does at once, made from the calls in    *)
(* calls: it refuses to go deeper, dereferences a null dependency (address *)
(* 0 is mapped: what follows depends on what is there), finds nothing to   *)
(* do, or goes through the dependencies.                                   *)
Enter(m, calls) ==
  /\ stage' = IF TooDeep(calls) THEN "panic" ELSE IF m = None THEN "wild" ELSE stage
  /\ IF stage' # stage
     THEN UNCHANGED <<inst, stack>>
     ELSE IF inst[m].inited \/ ~inst[m].entry
          THEN inst' = [inst EXCEPT ![m].inited = TRUE] /\ stack' = calls
          ELSE stack' = <<[m |-> m, rest |-> Dependencies(m)]>> \o calls /\ UNCHANGED inst

(* Faulty variant: the loop stays on a module already initialised.         *)
AfterUninitialized(m) == IF inst[m].inited THEN m ELSE inst[m].next
After(m) == inst[m].next

(* The loop over the modules calls InitializeModule on the next one; it has*)
(* passed a module when the call on it is no longer in progress.           *)
InitializeModules ==
  /\ stage = "init" /\ stack = <<>> /\ current # None
  /\ Enter(current, <<>>)
  /\ current' = After(current)
  /\ UNCHANGED <<config, at, table, sub, head, pool, handles, bound, started, checked>>

(* InitializeModule calls itself on the next dependency.                   *)
InitializeDependency ==
  /\ stage = "init" /\ stack # <<>> /\ stack[1].rest # <<>>
  /\ Enter(Head(stack[1].rest), [stack EXCEPT ![1].rest = Tail(@)])
  /\ UNCHANGED <<config, at, table, sub, head, pool, handles, bound, current, started, checked>>

(* The dependencies are done: the module's entry point and tests run.      *)
RunEntry ==
  /\ stage = "init" /\ stack # <<>> /\ stack[1].rest = <<>>
  /\ LET m == stack[1].m IN
     IF inst[m].inited
     THEN UNCHANGED <<inst, started>>
     ELSE /\ inst' = [inst EXCEPT ![m].inited = TRUE]
          /\ started' = started \cup {inst[m].file}
  /\ stack' = Tail(stack)
  /\ UNCHANGED <<config, stage, at, table, sub, head, pool, handles, bound, current, checked>>

BeginTests ==
  /\ stage = "init" /\ stack = <<>> /\ current = None
  /\ stage' = "test" /\ current' = head
  /\ UNCHANGED <<config, at, registry, handles, bound, stack, started, checked>>

(* The tests of the modules that have no entry point run in the end.       *)
TestModule ==
  /\ stage = "test" /\ current # None
  /\ checked' = IF inst[current].entry THEN checked ELSE checked \cup {inst[current].file}
  /\ current' = inst[current].next
  /\ UNCHANGED <<config, stage, at, registry, handles, bound, stack, started>>

BootSuccessful ==
  /\ stage = "test" /\ current = None
  /\ stage' = "done"
  /\ UNCHANGED <<config, at, registry, handles, bound, current, stack, started, checked>>

Next ==
  \/ Load_Module \/ ExitBootServices \/ HandleImport \/ BeginKernel
  \/ InitializeModules \/ InitializeDependency \/ RunEntry
  \/ BeginTests \/ TestModule \/ BootSuccessful

(* One processor runs the loader and nothing preempts it.                  *)
Spec == Init /\ [][Next]_vars /\ WF_vars(Next)

-----------------------------------------------------------------------------
(* Properties.                                                             *)

Ends == {"done", "panic", "wild", "returned"}

TypeOK ==
  /\ config \in Seq(Files) /\ stage \in {"load", "import", "init", "test"} \cup Ends
  /\ at \in Nat /\ pool \in Nat
  /\ table \in [0 .. (TypeCapacity - 1) -> Types \cup {None}]
  /\ sub \in [Types -> [0 .. (InstanceCapacity - 1) -> Names \cup {None}]]
  /\ \A i \in DOMAIN inst :
       /\ i \in Id /\ inst[i].file \in Lines /\ {inst[i].entry, inst[i].inited} \subseteq BOOLEAN
       /\ inst[i].deps \in Seq(DOMAIN inst \cup {None})
       /\ inst[i].next \in DOMAIN inst \cup {None}
  /\ {head, current} \subseteq DOMAIN inst \cup {None}
  /\ \A h \in DOMAIN handles : handles[h].parent \in DOMAIN inst /\ handles[h].file \in Lines
  /\ bound \in Seq(Lines \cup {0}) /\ Len(bound) <= Len(handles)
  /\ \A k \in DOMAIN stack : stack[k].m \in DOMAIN inst
  /\ started \cup checked \subseteq Lines

(* The instances an import may be bound to.                                *)
Candidates(h) == {i \in DOMAIN inst : i[1] = h.type /\ h.name \in {Any, i[2]}}

(* Every import is bound to an implementation of the interface it asks for,*)
(* the anonymous imports of an interface all to one; it is left unbound    *)
(* only if no file that was registered provides it (HandleModuleImports:   *)
(* linear probing in two tables, the first occupied slot).  Except that an *)
(* anonymous import misses a name too long for NameString, which it looks  *)
(* up by what Strlcpy kept of it.                                          *)
ImportsResolve ==
  \A i \in DOMAIN bound :
    LET h == handles[i] IN
    /\ bound[i] # 0 => \E c \in Candidates(h) : inst[c].file = bound[i]
    /\ bound[i] = 0 => \/ Candidates(h) = {}
                       \/ h.name = Any /\ \E c \in Candidates(h) : c[2] \in Long
    /\ h.name = Any => \A j \in DOMAIN bound :
                         handles[j].type = h.type /\ handles[j].name = Any => bound[j] = bound[i]

(* There is a chain of dependencies too long for MAX_MODULE_DEPTH.         *)
DeepChain ==
  LET reach[n \in 0 .. (MaxDepth + 1)] ==
        IF n = 0 THEN DOMAIN inst
        ELSE UNION {Range(inst[i].deps) : i \in {j \in reach[n - 1] \ {None} : inst[j].entry}}
  IN  reach[MaxDepth + 1] # {}

(* The kernel panics only over a chain of dependencies deeper than the     *)
(* limit, as a cycle is; it goes astray only over an import nobody         *)
(* provides; and when it reports success every registered module has been  *)
(* started, or tested if it has nothing to start (InitializeModules).      *)
EndsAreDeserved ==
  /\ stage = "panic" => DeepChain
  /\ stage = "wild"  => \E i \in DOMAIN bound : bound[i] = 0
  /\ stage = "done"  => \A i \in DOMAIN inst :
                          inst[i].file \in IF inst[i].entry THEN started ELSE checked

(* However the files of kernel.ini are ordered and whatever is missing or  *)
(* full: what is registered is well formed, what calls what is consistent, *)
(* and the boot ends as it should (RegistryPut to InitializeModules).      *)
ModulesAgree == TypeOK /\ ImportsResolve /\ EndsAreDeserved

(* A file listed after another that exports the same interface by the same *)
(* name replaces it.                                                       *)
Replaces ==
  \E i, j \in DOMAIN config : i # j /\ config[i].type # None
                              /\ config[i].type = config[j].type /\ config[i].name = config[j].name

(* The loader always comes to an end (the recursion is bounded, the list of*)
(* modules is walked once), unless a file replaces another: the "duplicate *)
(* put" of module_registry.c:103 links the entry in front of itself.       *)
Finishes == ~Replaces ~> stage \in Ends

Up == INSTANCE Startup WITH
  Modules <- Lines,
  silent  <- {l \in DOMAIN config : ~config[l].entry},
  needs   <- [l \in Lines |-> {bound[i] : i \in {k \in DOMAIN bound : handles[k].file = l}}]

(* Linking comes before starting, a module is started once and after all   *)
(* the modules whose functions were copied into it, and one that imports   *)
(* what nobody provides is never started (InitializeModule).               *)
ImplementsStartup == Up!Spec

=============================================================================
