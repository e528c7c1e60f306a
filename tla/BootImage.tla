------------------------------ MODULE BootImage ------------------------------
(***************************************************************************)
(* How the boot loader lays memory out for the kernel: boot/main.c up to   *)
(* the first instruction of the kernel, boot/uefi/filesystem.c,            *)
(* boot/modules/kernel_loader.c, elf_loader.c and linker.c, and            *)
(* boot/memory/page_table.c.  What the files register is in Modules.       *)
(*                                                                         *)
(* Memory is a set of frames of PageWords words.  A frame holds words or is*)
(* a table of Fan entries, on four levels; virtual pages are counted from  *)
(* the start of the half of the address space that ttbr1 translates, and a *)
(* word of a file is a number or an address in words.  Every call of the   *)
(* firmware may fail, an allocation of pages only for want of them.        *)
(***************************************************************************)
EXTENDS Integers, Sequences, FiniteSetsExt, SequencesExt

CONSTANTS
  Frames,      \* how many frames the machine has
  Fan,         \* entries per table: 512
  PageWords,   \* words per page
  StackPages,  \* STACK_SIZE_PAGES
  HHDM,        \* the page of 0x800000000000
  LoadStart,   \* the page of VIRTUAL_MODULE_LOAD_START
  ImageBase,   \* the 0x100000 bytes that kernel.ld links images at, in pages
  Configs,     \* contents kernel.ini may have: sequences of lines
  Files,       \* what is in the files, by name
  Free,        \* the sets of frames the firmware may have left
  None

Frame == 0 .. (Frames - 1)

VARIABLES
  config,     \* the lines of kernel.ini
  pc,         \* where efi_main is
  line,       \* the line Parse_Config is at
  inSection,  \* InSection
  read,       \* the call of ReadFile: the file and how far it is
  open,       \* whether that file is open
  pool,       \* what is allocated from the pool
  memory,     \* the free frames, what is in the others, and the tables Map_Memory last used
  stale,      \* whether a stack slot still holds what the last iteration left there
  upper, lower,   \* the root tables
  offset,     \* LoadOffset, in pages
  loaded,     \* the modules that are in memory: file and first page of its addresses
  tried,      \* auxiliary: the files Parse_Config has gone for
  virtualStart

vars == <<config, pc, line, inSection, read, open, pool, memory, stale, upper, lower, offset,
          loaded, tried, virtualStart>>
boot == <<config, stale>>

-----------------------------------------------------------------------------
(* Page tables: operators from memory to memory.                           *)

NoEntry == [kind |-> "none", to |-> 0]
Blank == [i \in 1 .. Fan |-> NoEntry]

Pages(f, n) == f .. (f + n - 1)

(* Any n frames in a row, the lowest say; -1 if there are none.            *)
AllocatePages(m, n) ==
  LET fits == {f \in m.free : Pages(f, n) \subseteq m.free}
  IN  IF fits = {} \/ n = 0 THEN [m |-> m, at |-> -1]
      ELSE [m |-> [m EXCEPT !.free = @ \ Pages(Min(fits), n)], at |-> Min(fits)]

(* A level of Map_Memory.  If there is no frame for a table, the pointer   *)
(* that is handed to FreePages was never set: the firmware refuses it, or  *)
(* it is the table the last iteration had there.                           *)
Link(m, table, i, level) ==
  LET Put(a) ==
        IF a.at = -1 THEN [m |-> [m EXCEPT !.ok = FALSE, !.wild = m.last[level] # None], table |-> None]
        ELSE [m |-> [a.m EXCEPT !.in[a.at] = Blank, !.in[table][i] = [kind |-> "table", to |-> a.at]],
              table |-> a.at]
  IN  Put(AllocatePages(m, 1))

Index(page, level) == ((page \div Fan ^ (4 - level)) % Fan) + 1

Below(r, page, level) ==
  LET Use(s) == [s EXCEPT !.m.last[level] = IF s.table = None THEN @ ELSE s.table]
      Follow(e) == IF e.kind = "none" THEN Link(r.m, r.table, Index(page, level), level)
                   ELSE [m |-> r.m, table |-> e.to]
  IN  IF r.table = None THEN r ELSE Use(Follow(r.m.in[r.table][Index(page, level)]))

Page_Order_Size(order) == Fan ^ order

(* One iteration: blocks of order 2 and 1 sit in tables of level 2 and 3.  *)
MapOne(m, root, page, frame, order) ==
  LET Leaf(r) == IF r.table = None THEN r.m
                 ELSE [r.m EXCEPT !.in[r.table][Index(page, 4 - order)] = [kind |-> "leaf", to |-> frame]]
      Down(r, level) == IF level <= 3 - order THEN Below(r, page, level) ELSE r
  IN  Leaf(Down(Down(Down([m |-> m, table |-> root], 1), 2), 3))

(* The root exists: no caller passes an empty one.                         *)
Map_Memory(m, root, page, frame, order, count) ==
  FoldLeft(LAMBDA n, i : IF ~n.ok THEN n
                         ELSE MapOne(n, root, page + i * Page_Order_Size(order),
                                     frame + i * Page_Order_Size(order), order),
           [m EXCEPT !.ok = TRUE], [i \in 1 .. count |-> i - 1])

(* Tables for whole blocks of the second level, each entry a block.        *)
Create_Identity_Page_Table(m, start, total) ==
  LET blocks == Max({1, (total + Fan ^ 3 - 1) \div Fan ^ 3})
      Full(b) == [i \in 1 .. Fan |-> [kind |-> "leaf", to |-> b * Fan ^ 3 + (i - 1) * Fan ^ 2]]
      Entry(n, root, a, b) ==
        IF a.at = -1 THEN [n EXCEPT !.ok = FALSE]
        ELSE [a.m EXCEPT !.in[a.at] = Full(b),
                         !.in[root][start \div Fan ^ 3 + b + 1] = [kind |-> "table", to |-> a.at]]
      Fill(n, root) == FoldLeft(LAMBDA s, b : IF s.ok THEN Entry(s, root, AllocatePages(s, 1), b) ELSE s,
                                n, [b \in 1 .. blocks |-> b - 1])
      Root(a) == IF a.at = -1 THEN [m |-> [m EXCEPT !.ok = FALSE], root |-> None]
                 ELSE [m |-> Fill([a.m EXCEPT !.in[a.at] = Blank, !.ok = TRUE], a.at), root |-> a.at]
  IN  Root(AllocatePages(m, 1))

(* What the hardware makes of a page: its frame, or None.                  *)
Walk(m, root, page) ==
  LET Step(r, level) ==
        IF r.kind # "table" THEN r
        ELSE LET e == m.in[r.to][Index(page, level)]
             IN IF e.kind = "leaf" THEN [e EXCEPT !.to = @ + (page % Fan ^ (4 - level))] ELSE e
      End(r) == IF r.kind = "leaf" THEN r.to ELSE None
  IN  End(Step(Step(Step(Step([kind |-> "table", to |-> root], 1), 2), 3), 4))

-----------------------------------------------------------------------------
(* Modules: an ELF file is a record [elf, exports, entry, segs, sections,  *)
(* relas, data]; positions and addresses are in words.                     *)

Shift(address, delta) == IF address = 0 THEN 0 ELSE address + delta

(* Only R_AARCH64_ABS64 is patched.  The symbols are shifted too, and never*)
(* looked at.                                                              *)
Link_Elf_Module(delta, f) ==
  LET sections == [i \in DOMAIN f.sections |-> [f.sections[i] EXCEPT !.addr = Shift(@, delta)]]
      Place(r) == sections[r.target].offset + r.offset - (sections[r.target].addr - delta)
      Patch(data, r) == IF r.abs THEN [data EXCEPT ![Place(r) + 1] = @ + delta] ELSE data
  IN  [f EXCEPT !.entry = Shift(@, delta), !.sections = sections,
                !.segs = [i \in DOMAIN f.segs |-> [f.segs[i] EXCEPT !.vaddr = Shift(@, delta)]],
                !.data = FoldLeft(Patch, f.data, f.relas)]

Loads(f) == SelectSeq(f.segs, LAMBDA s : s.load)

(* Faulty variant: a last page that is not full is not counted.            *)
SpanCut(f) ==
  IF Loads(f) = <<>> THEN 0
  ELSE Max({s.vaddr + s.memsz : s \in ToSet(Loads(f))}) \div PageWords
       - Min({s.vaddr : s \in ToSet(Loads(f))}) \div PageWords

GetElfSpanPages(f) ==
  IF Loads(f) = <<>> THEN 0
  ELSE (Max({s.vaddr + s.memsz : s \in ToSet(Loads(f))}) + PageWords - 1) \div PageWords
       - Min({s.vaddr : s \in ToSet(Loads(f))}) \div PageWords

(* As many words as the segment has in memory are copied from the file.    *)
Copied(f, s, page) ==
  [w \in 1 .. PageWords |->
     LET k == page * PageWords + w IN
     IF k <= s.memsz /\ s.offset + k <= Len(f.data) THEN f.data[s.offset + k] ELSE None]

CopyInto(m, frames, f, s) ==
  [m EXCEPT !.in = [x \in Frame |-> IF x \in frames THEN Copied(f, s, x - Min(frames)) ELSE @[x]]]

LoadSegment(m, root, f, s) ==
  LET count == (s.memsz - 1) \div PageWords + 1
      Load(a) == IF a.at = -1 THEN [m EXCEPT !.ok = FALSE]
                 ELSE Map_Memory(CopyInto(a.m, Pages(a.at, count), f, s), root,
                                 s.vaddr \div PageWords, a.at, 0, count)
  IN  IF m.ok THEN Load(AllocatePages(m, count)) ELSE m

(* Faulty variant: every module is linked at the same address.             *)
SameDelta == LoadStart * PageWords
Delta == (offset + LoadStart) * PageWords

(* Page by page what Load_Elf puts into memory.                            *)
Loaded(m, root, f) ==
  FoldLeft(LAMBDA n, s : LoadSegment(n, root, f, s), [m EXCEPT !.ok = TRUE], Loads(f))

-----------------------------------------------------------------------------
(* efi_main                                                                *)

NotReading == [file |-> None, step |-> "idle"]

Init ==
  /\ config \in Configs
  /\ pc = "root" /\ line = 1 /\ inSection = FALSE
  /\ read = NotReading /\ open = FALSE /\ pool = {}
  /\ \E free \in Free :
       memory = [free |-> free, in |-> [f \in Frame |-> Blank], last |-> [l \in 1 .. 3 |-> None],
                 ok |-> TRUE, wild |-> FALSE]
  /\ stale \in BOOLEAN
  /\ upper = None /\ lower = None /\ offset = 0
  /\ loaded = <<>> /\ tried = <<>> /\ virtualStart = None

Goto(label) == pc' = label
Return == Goto("returned")

Reading == read.file # None
Idle(label) == pc = label /\ ~Reading

(* A step that needs something from the pool, or from the firmware.        *)
Ask(from, what, to) ==
  /\ Idle(from)
  /\ \/ Return /\ UNCHANGED pool
     \/ Goto(to) /\ pool' = pool \cup what
  /\ UNCHANGED <<boot, line, inSection, read, open, memory, upper, lower, offset, loaded, tried, virtualStart>>

(* The buffer of handles is given back.                                    *)
OpenRoot == Ask("root", {}, "registry")
AllocateRegistry == Ask("registry", {<<"registry">>}, "handles")
ModuleImportHandleInit == Ask("handles", {<<"handles">>}, "upper")

Identity(from, start, to) ==
  /\ Idle(from)
  /\ \E r \in {Create_Identity_Page_Table(memory, start, Frames)} :
       /\ memory' = r.m
       /\ pc' = IF r.m.ok THEN to ELSE "returned"
       /\ upper' = IF from = "upper" THEN r.root ELSE upper
       /\ lower' = IF from = "lower" THEN r.root ELSE lower
  /\ UNCHANGED <<boot, line, inSection, read, open, pool, offset, loaded, tried, virtualStart>>

CreateUpper == Identity("upper", HHDM, "config")
CreateLower == Identity("lower", 0, "exit")

(* ReadFile, one step for each call of the firmware: any of them may fail, *)
(* and then all that is held goes back.                                    *)
Start(file) == read' = [file |-> file, step |-> "open"]

Reads == <<boot, line, inSection, memory, upper, lower, offset, loaded, tried, virtualStart, pc>>

GiveUp(held) ==
  /\ open' = FALSE /\ pool' = pool \ held
  /\ read' = [read EXCEPT !.step = "failed"]

Step(from, to, take) ==
  /\ read.step = from
  /\ read' = [read EXCEPT !.step = to]
  /\ pool' = pool \cup take

Info == <<"info">>
Buffer == <<"buffer", read.file, Len(tried)>>

(* Faulty variant: the file is left open when there is no memory.          *)
AllocateOpen ==
  /\ \/ Step("info", "getinfo", {Info})
     \/ read.step = "info" /\ pool' = pool /\ read' = [read EXCEPT !.step = "failed"]
  /\ UNCHANGED open /\ UNCHANGED Reads

Open ==
  /\ \/ Step("open", "info", {}) /\ open' = TRUE
     \/ read.step = "open" /\ GiveUp({})
  /\ UNCHANGED Reads

AllocateInfo ==
  /\ \/ Step("info", "getinfo", {Info}) /\ UNCHANGED open
     \/ read.step = "info" /\ GiveUp({})
  /\ UNCHANGED Reads

GetInfo ==
  /\ \/ Step("getinfo", "buffer", {}) /\ UNCHANGED open
     \/ read.step = "getinfo" /\ GiveUp({Info})
  /\ UNCHANGED Reads

AllocateBuffer ==
  /\ \/ Step("buffer", "read", {Buffer}) /\ UNCHANGED open
     \/ read.step = "buffer" /\ GiveUp({Info})
  /\ UNCHANGED Reads

(* A file that turns out shorter is reported as success, without a buffer. *)
Read ==
  /\ read.step = "read"
  /\ \/ GiveUp({Info, Buffer})
     \/ /\ open' = FALSE
        /\ \/ pool' = pool \ {Info, Buffer} /\ read' = [read EXCEPT !.step = "short"]
           \/ pool' = pool \ {Info} /\ read' = [read EXCEPT !.step = "done"]
  /\ UNCHANGED Reads

(* Load_Kernel reads kernel.ini.  Without a buffer it parses whatever its  *)
(* pointer, which was never set, points at.                                *)
Load_Kernel ==
  /\ pc = "config"
  /\ \/ read = NotReading /\ Start("kernel.ini") /\ UNCHANGED pc
     \/ /\ read.step \in {"failed", "short", "done"} /\ read' = NotReading
        /\ pc' = [failed |-> "returned", short |-> "wild", done |-> "parse"][read.step]
  /\ UNCHANGED <<boot, line, inSection, open, pool, memory, upper, lower, offset, loaded, tried, virtualStart>>

(* Parse_Config, line by line: a comment, a header, text without an equal  *)
(* sign, or an entry.                                                      *)
Heads(l) == l.kind \in {"modules", "other"}

Section(l) == IF Heads(l) THEN l.kind = "modules" ELSE inSection

Enables(l) == l.kind = "entry" /\ inSection /\ l.yes

Parse_Config ==
  /\ Idle("parse") /\ line <= Len(config)
  /\ \E l \in {config[line]} :
       /\ inSection' = Section(l)
       /\ \/ Enables(l) /\ Start(l.name) /\ tried' = Append(tried, l.name)
          \/ ~Enables(l) /\ UNCHANGED <<read, tried>>
  /\ line' = line + 1
  /\ UNCHANGED <<boot, pc, open, pool, memory, upper, lower, offset, loaded, virtualStart>>

(* What Load_Elf reports is not looked at, nor is a file that is no ELF    *)
(* file.  A table that is given back while it is in use is the end of what *)
(* is modelled.                                                            *)
Load_Elf(f) ==
  /\ offset' = offset + GetElfSpanPages(f)
  /\ \E linked \in {Link_Elf_Module(Delta, f)} : \E m \in {Loaded(memory, upper, linked)} :
       /\ memory' = m
       /\ pc' = IF m.wild /\ stale THEN "wild" ELSE pc
       /\ loaded' = IF m.ok /\ f.exports THEN Append(loaded, [file |-> read.file, base |-> offset]) ELSE loaded

Load_Module ==
  /\ pc = "parse" /\ read.step \in {"failed", "short", "done"}
  /\ read' = NotReading
  /\ \/ read.step = "done" /\ Files[read.file].elf /\ Load_Elf(Files[read.file])
     \/ /\ read.step # "done" \/ ~Files[read.file].elf
        /\ UNCHANGED <<pc, memory, offset, loaded>>
  /\ UNCHANGED <<boot, line, inSection, open, pool, upper, lower, tried, virtualStart>>

Parsed ==
  /\ Idle("parse") /\ line > Len(config) /\ Goto("info")
  /\ UNCHANGED <<boot, line, inSection, read, open, pool, memory, upper, lower, offset, loaded, tried, virtualStart>>

AllocateBootInfo == Ask("info", {<<"BootInfo">>}, "stack")

(* The stack is below the first image.                                     *)
MapStack ==
  /\ Idle("stack")
  /\ \E a \in {AllocatePages(memory, StackPages)} :
     \E m \in {IF a.at = -1 THEN [memory EXCEPT !.ok = FALSE]
               ELSE Map_Memory(a.m, upper, LoadStart, a.at, 0, StackPages)} :
       /\ memory' = m
       /\ pc' = IF m.ok THEN "lower" ELSE "returned"
  /\ UNCHANGED <<boot, line, inSection, read, open, pool, upper, lower, offset, loaded, tried, virtualStart>>

(* ExitBootServices: see BootMemoryMap.                                    *)
Exit ==
  /\ Idle("exit")
  /\ pc' \in {"enable", "returned"}
  /\ UNCHANGED <<boot, line, inSection, read, open, pool, memory, upper, lower, offset, loaded, tried, virtualStart>>

(* Faulty variant: the images are taken to start where the stack does.     *)
StartTooLow == LoadStart + offset
VirtualStart == LoadStart + offset + ImageBase

(* The tables take effect, the imports are bound, the kernel starts.       *)
Begin_Kernel ==
  /\ Idle("enable") /\ Goto("kernel")
  /\ virtualStart' = VirtualStart
  /\ UNCHANGED <<boot, line, inSection, read, open, pool, memory, upper, lower, offset, loaded, tried>>

ReadFile == Open \/ AllocateInfo \/ GetInfo \/ AllocateBuffer \/ Read

Next ==
  \/ OpenRoot \/ AllocateRegistry \/ ModuleImportHandleInit \/ CreateUpper
  \/ Load_Kernel \/ ReadFile \/ Parse_Config \/ Load_Module \/ Parsed
  \/ AllocateBootInfo \/ MapStack \/ CreateLower \/ Exit \/ Begin_Kernel

Spec == Init /\ [][Next]_vars

-----------------------------------------------------------------------------
(* Properties                                                              *)

TypeOK ==
  /\ {Fan, PageWords} \subseteq Nat \ {0} /\ HHDM % Fan ^ 3 = 0
  /\ line \in 1 .. Len(config) + 1 /\ {inSection, open} \subseteq BOOLEAN
  /\ memory.free \subseteq Frame /\ offset \in Nat
  /\ {upper, lower} \subseteq Frame \cup {None}

(* The word that address a, in words, of the upper half leads to.          *)
Fetch(a) ==
  LET f == Walk(memory, upper, a \div PageWords)
  IN  IF f = None THEN None ELSE memory.in[f][(a % PageWords) + 1]

(* What the file says is at its word k, moved by delta.                    *)
Meant(f, k, delta) ==
  IF \E r \in ToSet(f.relas) : r.abs /\ f.sections[r.target].offset + r.offset - f.sections[r.target].addr + 1 = k
  THEN f.data[k] + delta ELSE f.data[k]

(* Parse_Config goes for the modules that kernel.ini enables up to the line*)
(* it is at, in its order.                                                 *)
Enabled(n) ==
  LET In(k) == /\ config[k].kind = "entry" /\ config[k].yes
               /\ \E h \in 1 .. k - 1 : config[h].kind = "modules"
                                        /\ \A j \in h + 1 .. k - 1 : config[j].kind # "other"
  IN  [j \in 1 .. Cardinality({k \in 1 .. n : In(k)}) |->
         config[CHOOSE k \in 1 .. n : In(k) /\ Cardinality({i \in 1 .. k : In(i)}) = j].name]
ConfigObeyed == tried = Enabled(line - 1)

(* The modules gone for are those that kernel.ini enables; every one that  *)
(* was registered is in memory, as the tables have it, where its addresses *)
(* say, with its pointers leading into itself: also after others were      *)
(* loaded or failed to, and the stack was mapped.                          *)
ImagesInPlace ==
  /\ TypeOK /\ ConfigObeyed
  /\ pc # "wild" =>
       \A i \in DOMAIN loaded :
         LET f == Files[loaded[i].file]
             delta == (LoadStart + loaded[i].base) * PageWords
         IN  \A s \in ToSet(Loads(f)) : \A k \in 1 .. s.filesz :
               Fetch(s.vaddr + delta + k - 1) = Meant(f, s.offset + k, delta)

Half == 0 .. (Fan ^ 4 - 1)
Mapped == {p \in Half : p >= LoadStart /\ Walk(memory, upper, p) # None}

(* The frames that hold tables.                                            *)
Tables ==
  LET Next1(S) == {f \in Frame : \E t \in S, i \in 1 .. Fan : memory.in[t][i] = [kind |-> "table", to |-> f]}
      both == {upper, lower}
  IN  both \cup Next1(both) \cup Next1(Next1(both)) \cup Next1(Next1(Next1(both)))

(* When the kernel starts, all of memory is where the direct map and the   *)
(* identity map say; every other page that is mapped is below virtualStart,*)
(* where the kernel begins to give addresses out; no frame is mapped twice *)
(* there, is a table, or is free.                                          *)
SpaceLaidOut ==
  pc = "kernel" =>
    /\ \A f \in Frame : Walk(memory, upper, HHDM + f) = f /\ Walk(memory, lower, f) = f
    /\ \A p \in Mapped : p < virtualStart
    /\ \A p, q \in Mapped : p # q => Walk(memory, upper, p) # Walk(memory, upper, q)
    /\ {Walk(memory, upper, p) : p \in Mapped} \cap (Tables \cup memory.free) = {}
    /\ Tables \cap memory.free = {}
    /\ LoadStart .. (LoadStart + StackPages - 1) \subseteq Mapped

(* Whichever call of the firmware fails, a file is closed and what was     *)
(* allocated to read it given back; a buffer stays only if it was filled.  *)
FilesTidy ==
  /\ open => read.step \notin {"idle", "open", "failed", "short", "done"}
  /\ Info \in pool => read.step \in {"buffer", "getinfo", "read"}
  /\ read.step \in {"failed", "short"} => Buffer \notin pool
=============================================================================
