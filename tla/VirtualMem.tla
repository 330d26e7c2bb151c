------------------------------ MODULE VirtualMem ------------------------------
(***************************************************************************)
(* Virtual memory: kern/virtual_mem_mgmt/page_directory.c, mem_section.c   *)
(* and virtual_mem_mgmt.c, the loader, and what drives them: fork, exec,   *)
(* new_pages, remove_pages, page faults, and the automatic stack growth of *)
(* user/libautostack on top of software exceptions.  A process has one     *)
(* thread, as fork and exec require.                                       *)
(*                                                                         *)
(* mm is the memory: dir[p], the user part of p's page directory; pt, the  *)
(* page tables; live, those allocated on the kernel heap; list[p], p's     *)
(* p_addr_list; num[p], its num_pages; alloc, the size of each frame the   *)
(* frame manager has given out, 0 for a free one; data, what is in them.   *)
(* The physical page at an offset into a frame is <<frame, offset>>.       *)
(* A batch of mappings is one step: no other thread uses the directory.    *)
(***************************************************************************)
EXTENDS Integers, Sequences, FiniteSets

CONSTANTS
  Proc, Init0,        \* the processes; the one that is there at first
  Table, Frame,       \* heap blocks for page tables; frames
  NULL, Dangling,     \* a missing entry; one whose table was freed
  Zero, Old,          \* contents: a cleared page, an arbitrary one
  NumPDE, PTSize,     \* the user's directory entries; the entries of a table
  PAGE_SIZE, Word,    \* bytes in a page; values of a uint32_t
  Sections,           \* of the program that is loaded: [addr, len, rw]
  StackLow,           \* the page of the stack it starts with
  STACK_GROWTH,       \* STACK_GROWTH_THRESHOLD, in pages
  MaxNew,             \* bound: the pages of a new_pages
  Touchable,          \* bound: the pages a process tries to write
  SwexnCalls,         \* bound: the arguments swexn is called with
  Bases               \* bound: the pages new_pages and remove_pages are given

(* What is in a page table: a page of a frame, and flags. *)
Entry == [page : Frame \X Nat, rw : BOOLEAN, start : BOOLEAN, end : BOOLEAN]

ASSUME VirtualMemAssumption ==
  /\ Init0 \in Proc
  /\ IsFiniteSet(Table) /\ IsFiniteSet(Frame)
  /\ NULL \notin Table \cup Entry /\ Dangling \notin Table \cup {NULL}
  /\ NumPDE \in Nat \ {0} /\ PTSize \in Nat \ {0} /\ PAGE_SIZE \in Nat \ {0, 1}
  /\ Word \in Nat /\ Word > NumPDE * PTSize * PAGE_SIZE
  /\ StackLow \in 0 .. NumPDE * PTSize - 1
  /\ MaxNew \in Nat /\ Bases \subseteq Nat
  /\ Sections \in Seq([addr : Nat, len : Nat, rw : BOOLEAN])
  /\ \A i \in DOMAIN Sections : Sections[i].addr > 0 \/ Sections[i].len > 0

VARIABLES
  mm,
  procs,     \* the processes there are
  handler,   \* whether the process has page_fault_handler registered
  bottom,    \* its STACK_BOTTOM
  acc,       \* what it is about to do: write a page, or cause an exception
  at,        \* "run", or "handler" in page_fault_handler
  fate       \* "ok"; "panic" or "undefined" when the kernel is past help

vars == <<mm, procs, handler, bottom, acc, at, fate>>

(* What comes of an instruction: a page fault; one of the exceptions that  *)
(* run a handler if there is one (division, opcode, protection...); one of *)
(* those that kill the thread at once (coprocessor, TSS, machine check).   *)
PageFault(v) == [cause |-> "PAGEFAULT", page |-> v]
Trap == [cause |-> "DIVIDE", page |-> 0]
Fatal == [cause |-> "MACHINE_CHECK", page |-> 0]

NumPages == NumPDE * PTSize
Page == 0 .. NumPages - 1
pde_i(v) == v \div PTSize
pte_i(v) == v % PTSize

Lowest(S) == CHOOSE x \in S : \A y \in S : x <= y

-----------------------------------------------------------------------------
(* page_directory.c *)

EmptyTable == [i \in 0 .. PTSize - 1 |-> NULL]

pd_get_mapping(m, p, v) ==
  LET t == m.dir[p][pde_i(v)]
  IN  IF t \in Table THEN m.pt[t][pte_i(v)] ELSE NULL

Mapped(m, p) == {v \in Page : pd_get_mapping(m, p, v) # NULL}

Writable(m, p, v) == v \in Mapped(m, p) /\ pd_get_mapping(m, p, v).rw

(* memalign for each of the directory entries ds; blocks are all alike. *)
NewTables(m, ds) ==
  CHOOSE g \in [ds -> Table \ m.live] : \A d, e \in ds : g[d] = g[e] => d = e

HeapHas(m, n) == n <= Cardinality(Table \ m.live)

Missing(m, p, vs) == {d \in {pde_i(v) : v \in vs} : m.dir[p][d] = NULL}

(* pd_create_mapping for each page that entry has one for, and             *)
(* pd_commit_mapping.                                                      *)
Commit(m, p, entry) ==
  LET vs == DOMAIN entry
      ds == Missing(m, p, vs)
      g == NewTables(m, ds)
      dir == [d \in 0 .. NumPDE - 1 |-> IF d \in ds THEN g[d] ELSE m.dir[p][d]]
      fresh == {g[d] : d \in ds}
  IN  [m EXCEPT
         !.dir[p] = dir,
         !.live = @ \cup fresh,
         !.pt = [t \in Table |-> [i \in 0 .. PTSize - 1 |->
            IF \E v \in vs : dir[pde_i(v)] = t /\ pte_i(v) = i
              THEN entry[CHOOSE v \in vs : dir[pde_i(v)] = t /\ pte_i(v) = i]
              ELSE IF t \in fresh THEN NULL ELSE @[t][i]]]]

(* pd_remove_mapping for each page of vs. *)
pd_remove_mapping(m, p, vs) == Commit(m, p, [v \in vs |-> NULL])

(* The heap runs out at one of the tables: pd_abort_mapping frees those    *)
(* the batch has made, but their entries stay in the directory.            *)
Abort(m, p, vs) ==
  LET ds == Missing(m, p, vs)
      made == {d \in ds : Cardinality({e \in ds : e < d}) < Cardinality(Table \ m.live)}
  IN  [m EXCEPT !.dir[p] = [d \in 0 .. NumPDE - 1 |-> IF d \in made THEN Dangling ELSE @[d]]]

(* What is in a frame nobody has. *)
Garbage == [o \in Page |-> Old]

(* fm_alloc and pd_alloc_frame. *)
GiveFrame(m, p, f, n) ==
  [m EXCEPT !.alloc[f] = n, !.list[p] = <<[f |-> f, n |-> n]>> \o @, !.num[p] = @ + n]

FreeFrames(m) == {f \in Frame : m.alloc[f] = 0}
NextFrame(m) == CHOOSE f \in FreeFrames(m) : TRUE

(* fm_dealloc and pd_dealloc_frame. *)
TakeFrame(m, p, f) ==
  LET k == CHOOSE i \in DOMAIN m.list[p] : m.list[p][i].f = f
  IN  [m EXCEPT !.num[p] = @ - m.list[p][k].n,
                !.list[p] = SubSeq(@, 1, k - 1) \o SubSeq(@, k + 1, Len(@)),
                !.alloc[f] = 0, !.data[f] = Garbage]

Listed(m, p, f) == \E i \in DOMAIN m.list[p] : m.list[p][i].f = f

Fill(m, f, n, val) ==
  [m EXCEPT !.data[f] = [o \in DOMAIN @ |-> IF o < n THEN val ELSE @[o]]]

-----------------------------------------------------------------------------
(* mem_section.c: addresses are modulo Word, and an empty section ends     *)
(* before it starts.                                                       *)
High(s) == (s.addr + s.len - 1) % Word

(* The lowest address of a section and the highest. *)
ms_get_bounding_addr(secs) ==
  LET used == {i \in DOMAIN secs : secs[i].len > 0}
  IN  [low |-> Lowest({secs[i].addr : i \in used}),
       high |-> CHOOSE h \in {High(secs[i]) : i \in used} : \A i \in used : High(secs[i]) <= h]

Bounds(s, a) == s.addr <= a /\ a <= High(s)

(* The sections with an end of page v in them: the first one is taken. *)
ms_get_bounding_section(secs, v) ==
  {i \in DOMAIN secs : \/ Bounds(secs[i], v * PAGE_SIZE)
                       \/ Bounds(secs[i], v * PAGE_SIZE + PAGE_SIZE - 1)}

-----------------------------------------------------------------------------
(* virtual_mem_mgmt.c *)

Pte(f, o, rw, start, end) == [page |-> <<f, o>>, rw |-> rw, start |-> start, end |-> end]

PAGE_ALIGN_DOWN(a) == PAGE_SIZE * (a \div PAGE_SIZE)
PAGE_ALIGN_UP(a) == PAGE_SIZE * ((a + PAGE_SIZE - 1) \div PAGE_SIZE)

(* The pages that are mapped: all but the last one when the sections end   *)
(* on the first byte of it, which PAGE_ALIGN_UP leaves where it is.        *)
Bounded(secs) ==
  LET b == ms_get_bounding_addr(secs)
  IN  {v \in Page : /\ PAGE_ALIGN_DOWN(b.low) <= v * PAGE_SIZE
                    /\ v * PAGE_SIZE <= PAGE_ALIGN_UP(b.high) - 1}

(* A page between sections is read-only.  The memset that follows clears a *)
(* quarter of the memory at most: the pages hold anything.                 *)
vmm_map_sections(m, p, secs) ==
  LET vs == Bounded(secs)
      n == Cardinality(vs)
      f == NextFrame(m)
      Rw(v) == LET b == ms_get_bounding_section(secs, v)
               IN  b # {} /\ secs[Lowest(b)].rw
      entry == [v \in vs |-> Pte(f, v - Lowest(vs), Rw(v), FALSE, FALSE)]
  IN  Fill(Commit(GiveFrame(m, p, f, n), p, entry), f, n, Old)

load_elf_sections(m, p) == vmm_map_sections(m, p, Sections)

StackSections == <<[addr |-> StackLow * PAGE_SIZE, len |-> PAGE_SIZE, rw |-> TRUE]>>

load_user_stack(m, p) == vmm_map_sections(m, p, StackSections)

(* The pages of both. *)
Image == Bounded(Sections) \cup {StackLow}

(* How the Makefile links a program: from USER_MEM_START, the first page   *)
(* of the user's, on; the stack is apart.  The kernel does not check it.   *)
Linked ==
  /\ \E i \in DOMAIN Sections : Sections[i].len > 0
  /\ 0 \in Bounded(Sections) /\ StackLow \notin Bounded(Sections)

(* Frames and tables for them, in a user space that is empty. *)
LoadFits(m, p) ==
  /\ Cardinality(FreeFrames(m)) >= 2
  /\ HeapHas(m, Cardinality(Missing(m, p, Image)))

pcb_load_prog(m, p) == load_user_stack(load_elf_sections(m, p), p)

(* The frames go back to the frame manager, all of them. *)
pd_dealloc_all_frames(m, p) ==
  LET mine == {m.list[p][i].f : i \in DOMAIN m.list[p]}
  IN  [m EXCEPT !.alloc = [f \in Frame |-> IF f \in mine THEN 0 ELSE @[f]],
                !.data = [f \in Frame |-> IF f \in mine THEN Garbage ELSE @[f]],
                !.list[p] = <<>>, !.num[p] = 0]

(* Mutant: the page tables are not freed. *)
ClearLeaky(m, p) == [m EXCEPT !.dir[p] = [d \in DOMAIN @ |-> NULL]]

pd_clear_user_space(m, p) ==
  LET tables == {m.dir[p][d] : d \in DOMAIN m.dir[p]}
  IN  [m EXCEPT !.live = @ \ tables,
                !.pt = [t \in Table |-> IF t \in tables THEN EmptyTable ELSE @[t]],
                !.dir[p] = [d \in DOMAIN @ |-> NULL]]

vmm_clear_user_space(m, p) == pd_clear_user_space(pd_dealloc_all_frames(m, p), p)

(* The pages of new_pages, and what they are refused for. *)
Region(base, n) == base .. base + n - 1

NewPagesAllowed(m, p, base, n) ==
  /\ base + n <= NumPages
  /\ Region(base, n) \cap Mapped(m, p) = {}
  /\ FreeFrames(m) # {}

(* The first page is flagged as the start, the last as the end. *)
vmm_new_user_page(m, p, base, n) ==
  LET vs == Region(base, n)
      f == NextFrame(m)
      entry == [v \in vs |-> Pte(f, v - base, TRUE, v = base, v = base + n - 1)]
  IN  IF HeapHas(m, Cardinality(Missing(m, p, vs)))
        THEN Fill(Commit(GiveFrame(m, p, f, n), p, entry), f, n, Zero)
        ELSE Abort(m, p, vs)

(* From the start flag to the first end flag. *)
Flagged(m, p, base) ==
  LET ends == {v \in Mapped(m, p) : v >= base /\ pd_get_mapping(m, p, v).end}
  IN  Region(base, Lowest(ends) - base + 1)

(* A page that is not the first of its frame is not in the list: after a   *)
(* fork the whole image is one frame, and remove_pages fails.              *)
RemoveAllowed(m, p, base) ==
  /\ base \in Mapped(m, p)
  /\ LET e == pd_get_mapping(m, p, base)
     IN  e.start /\ e.page[2] = 0 /\ Listed(m, p, e.page[1])

(* Mutant: the frame stays in the page directory's list. *)
RemoveListed(m, p, base) ==
  LET f == pd_get_mapping(m, p, base).page[1]
  IN  [pd_remove_mapping(m, p, Flagged(m, p, base)) EXCEPT
         !.alloc[f] = 0, !.data[f] = Garbage]

vmm_remove_user_page(m, p, base) ==
  TakeFrame(pd_remove_mapping(m, p, Flagged(m, p, base)), p,
            pd_get_mapping(m, p, base).page[1])

(* Where the page that is the n-th to be copied is. *)
Nth(m, p, n) ==
  CHOOSE v \in Mapped(m, p) : Cardinality({w \in Mapped(m, p) : w < v}) = n

(* The child's entry for v: the parent's flags, the next page of f. *)
pt_copy(m, p, f, v) ==
  [pd_get_mapping(m, p, v) EXCEPT
     !.page = <<f, Cardinality({w \in Mapped(m, p) : w < v})>>]

(* What is copied to page n of the child's frame. *)
p_copy(m, p, n) ==
  LET page == pd_get_mapping(m, p, Nth(m, p, n)).page IN m.data[page[1]][page[2]]

(* Mutant: the child's tables map the parent's pages. *)
CopyTablesOnly(m, p, q, f) ==
  Commit(m, q, [v \in Mapped(m, p) |-> pd_get_mapping(m, p, v)])

(* The present pages, in the order of their addresses, go to consecutive   *)
(* pages of the frame f.                                                   *)
pd_deep_copy(m, p, q, f) ==
  LET n == Cardinality(Mapped(m, p))
      entry == [v \in Mapped(m, p) |-> pt_copy(m, p, f, v)]
  IN  [Commit(m, q, entry) EXCEPT
         !.data[f] = [o \in DOMAIN @ |-> IF o < n THEN p_copy(m, p, o) ELSE @[o]]]

(* One frame, as large as num_pages. *)
vmm_deep_copy(m, p, q) ==
  LET f == NextFrame(m) IN pd_deep_copy(GiveFrame(m, q, f, m.num[p]), p, q, f)

-----------------------------------------------------------------------------
Blank ==
  [dir |-> [p \in Proc |-> [d \in 0 .. NumPDE - 1 |-> NULL]],
   pt |-> [t \in Table |-> EmptyTable], live |-> {},
   list |-> [p \in Proc |-> <<>>], num |-> [p \in Proc |-> 0],
   alloc |-> [f \in Frame |-> 0],
   data |-> [f \in Frame |-> Garbage]]

(* There is memory for the first program. *)
ASSUME LoadAssumption == LoadFits(Blank, Init0)

Init ==
  /\ mm = pcb_load_prog(Blank, Init0)
  /\ procs = {Init0}
  /\ handler = [p \in Proc |-> FALSE]
  /\ bottom = [p \in Proc |-> StackLow]
  /\ acc = [p \in Proc |-> NULL] /\ at = [p \in Proc |-> "run"]
  /\ fate = "ok"

(* A process with a freed table in its directory is past what the code     *)
(* defines.                                                                *)
Torn(p) == \E d \in 0 .. NumPDE - 1 : mm.dir[p][d] = Dangling

Runs(p) == fate = "ok" /\ p \in procs /\ ~Torn(p)

Idle(p) == Runs(p) /\ acc[p] = NULL

(* An address is of the kernel's, of the user's, or NULL, which is below   *)
(* USER_MEM_START, too.                                                    *)
check_esp_safety(esp) == esp = "user"
check_eip_safety(eip) == eip = "user"

check_eflags_safety(eflags) ==
  CASE eflags \intersect {"RESV1", "RESV2", "RESV3"} # {"RESV1"} -> "RESV"
    [] "IF" \notin eflags -> "IF"
    [] "IOPL" \in eflags -> "IOPL"
    [] OTHER -> "SAFE"

check_ureg_safety(u) ==
  /\ u.segments = "user"
  /\ check_eip_safety(u.eip) /\ check_esp_safety(u.esp)
  /\ check_eflags_safety(u.eflags) = "SAFE"

(* The registers saved at an exception of a user's instruction. *)
ureg_from_stack ==
  [segments |-> "user", eip |-> "user", esp |-> "user", eflags |-> {"RESV1", "IF"}]

(* Whether a handler is registered after swexn, if there was one or not:   *)
(* NULLs take it away, what is refused leaves the old one.                 *)
swexn(old, esp3, eip, newureg) ==
  LET install == esp3 # NULL /\ eip # NULL
      refused == \/ install /\ ~(check_esp_safety(esp3) /\ check_eip_safety(eip))
                 \/ newureg # NULL /\ ~check_ureg_safety(newureg)
  IN  IF refused THEN old ELSE install

(* fork; the child's tcb has no handler. *)
syscall_fork(p, q) ==
  /\ Idle(p) /\ q \notin procs
  /\ FreeFrames(mm) # {}
  /\ HeapHas(mm, Cardinality({d \in 0 .. NumPDE - 1 : mm.dir[p][d] # NULL}))
  /\ mm' = vmm_deep_copy(mm, p, q)
  /\ procs' = procs \cup {q}
  /\ handler' = [handler EXCEPT ![q] = FALSE]
  /\ bottom' = [bottom EXCEPT ![q] = bottom[p]]
  /\ UNCHANGED <<acc, at, fate>>

(* The heap runs out in pd_deep_copy.  The entries are restored from a     *)
(* backup that has none of those that were not present: what is there may  *)
(* look like a table, and is freed with the child.                         *)
ForkFails(p) ==
  /\ Idle(p) /\ procs # Proc
  /\ FreeFrames(mm) # {}
  /\ LET ds == {d \in 0 .. NumPDE - 1 : mm.dir[p][d] # NULL}
         k == Cardinality(Table \ mm.live)
     IN  /\ k < Cardinality(ds)
         /\ \E d \in ds :
              /\ Cardinality({e \in ds : e < d}) = k
              /\ \E e \in 0 .. d - 1 : e \notin ds
  /\ fate' = "undefined"
  /\ UNCHANGED <<mm, procs, handler, bottom, acc, at>>

(* exec; tcb_reload removes the handler. *)
syscall_exec(p) ==
  /\ Idle(p)
  /\ LET m == vmm_clear_user_space(mm, p)
     IN  IF LoadFits(m, p)
           THEN mm' = pcb_load_prog(m, p) /\ UNCHANGED fate
           ELSE fate' = "panic" /\ UNCHANGED mm
  /\ handler' = [handler EXCEPT ![p] = FALSE]
  /\ bottom' = [bottom EXCEPT ![p] = StackLow]
  /\ UNCHANGED <<procs, acc, at>>

syscall_new_pages(p, base, n) ==
  /\ Idle(p)
  /\ NewPagesAllowed(mm, p, base, n)
  /\ mm' = vmm_new_user_page(mm, p, base, n)
  /\ UNCHANGED <<procs, handler, bottom, acc, at, fate>>

syscall_remove_pages(p, base) ==
  /\ Idle(p)
  /\ RemoveAllowed(mm, p, base)
  /\ mm' = vmm_remove_user_page(mm, p, base)
  /\ UNCHANGED <<procs, handler, bottom, acc, at, fate>>

(* swexn with any arguments: from outside the handler, new registers are   *)
(* a jump.                                                                 *)
syscall_swexn(p, esp3, eip, newureg) ==
  /\ Idle(p)
  /\ handler' = [handler EXCEPT ![p] = swexn(@, esp3, eip, newureg)]
  /\ UNCHANGED <<mm, procs, bottom, acc, at, fate>>

(* By the program's startup code. *)
install_autostack(p) == syscall_swexn(p, "user", "user", NULL)

(* thr_vanish and the reaper: pcb_destroy_s. *)
Destroy(p) ==
  /\ mm' = vmm_clear_user_space(mm, p)
  /\ procs' = procs \ {p}
  /\ handler' = [handler EXCEPT ![p] = FALSE]
  /\ bottom' = [bottom EXCEPT ![p] = StackLow]
  /\ acc' = [acc EXCEPT ![p] = NULL] /\ at' = [at EXCEPT ![p] = "run"]
  /\ UNCHANGED fate

-----------------------------------------------------------------------------
(* Instructions and exceptions. *)

Begin(p, x) ==
  /\ Idle(p)
  /\ acc' = [acc EXCEPT ![p] = x]
  /\ UNCHANGED <<mm, procs, handler, bottom, at, fate>>

Trying(p) == Runs(p) /\ acc[p] # NULL /\ at[p] = "run"

Write(p) ==
  /\ Trying(p)
  /\ \E v \in Page :
       /\ acc[p] = PageFault(v) /\ Writable(mm, p, v)
       /\ LET page == pd_get_mapping(mm, p, v).page
          IN  mm' = [mm EXCEPT !.data[page[1]][page[2]] = p]
  /\ acc' = [acc EXCEPT ![p] = NULL]
  /\ UNCHANGED <<procs, handler, bottom, at, fate>>

Faults(p) ==
  /\ Trying(p)
  /\ \A v \in Page : acc[p] = PageFault(v) => ~Writable(mm, p, v)

(* swexn_execute: the handler is deregistered, and runs. *)
swexn_execute(p) ==
  /\ Faults(p) /\ acc[p] # Fatal /\ handler[p]
  /\ handler' = [handler EXCEPT ![p] = FALSE]
  /\ at' = [at EXCEPT ![p] = "handler"]
  /\ UNCHANGED <<mm, procs, bottom, acc, fate>>

(* No handler: the thread is killed. *)
page_fault_c_handler(p) ==
  /\ Faults(p) /\ acc[p] \notin {Trap, Fatal} /\ ~handler[p]
  /\ Destroy(p)

(* So it is by the other exceptions; all their functions are alike. *)
gp_fault_c_handler(p) ==
  /\ Faults(p) /\ acc[p] = Trap /\ ~handler[p]
  /\ Destroy(p)

(* Without a look at the handler. *)
invalid_tss_c_handler(p) ==
  /\ Faults(p) /\ acc[p] = Fatal
  /\ Destroy(p)

(* An address the stack could reach: one more page of it.                  *)
StackAddress(p) ==
  \E v \in Page : acc[p] = PageFault(v) /\ v > bottom[p] - STACK_GROWTH

(* Mutant: the handler registers itself when it has not grown the stack. *)
page_fault_handler_again(p) ==
  /\ Runs(p) /\ at[p] = "handler"
  /\ UNCHANGED <<mm, bottom>>
  /\ handler' = [handler EXCEPT ![p] = TRUE]
  /\ at' = [at EXCEPT ![p] = "run"]
  /\ UNCHANGED <<procs, acc, fate>>

(* The autostack handler: grow and register again, or restore without      *)
(* registering, after which the exception comes again and kills.           *)
page_fault_handler(p) ==
  /\ Runs(p) /\ at[p] = "handler"
  /\ LET low == bottom[p] - 1
         try == StackAddress(p) /\ low \in Page /\ NewPagesAllowed(mm, p, low, 1)
         grown == vmm_new_user_page(mm, p, low, 1)
         ok == try /\ low \in Mapped(grown, p)
     IN  /\ mm' = IF try THEN grown ELSE mm
         /\ bottom' = [bottom EXCEPT ![p] = IF ok THEN low ELSE @]
         /\ handler' = [handler EXCEPT ![p] =
              IF ok THEN swexn(@, "user", "user", ureg_from_stack)
                    ELSE swexn(@, NULL, NULL, ureg_from_stack)]
  /\ at' = [at EXCEPT ![p] = "run"]
  /\ UNCHANGED <<procs, acc, fate>>

Resolve(p) ==
  \/ Write(p) \/ swexn_execute(p) \/ page_fault_handler(p)
  \/ page_fault_c_handler(p) \/ gp_fault_c_handler(p) \/ invalid_tss_c_handler(p)

Exit(p) == Idle(p) /\ p # Init0 /\ Destroy(p)

Next ==
  \E p \in Proc :
    \/ Resolve(p) \/ install_autostack(p) \/ syscall_exec(p) \/ Exit(p) \/ ForkFails(p)
    \/ \E q \in Proc : syscall_fork(p, q)
    \/ \E c \in SwexnCalls : syscall_swexn(p, c.esp3, c.eip, c.newureg)
    \/ \E b \in Bases, n \in 1 .. MaxNew : syscall_new_pages(p, b, n)
    \/ \E b \in Bases : syscall_remove_pages(p, b)
    \/ \E x \in {Trap, Fatal} \cup {PageFault(v) : v \in Touchable} : Begin(p, x)

(* A process is given the CPU again and again. *)
Spec == Init /\ [][Next]_vars /\ \A p \in Proc : WF_vars(Resolve(p))

-----------------------------------------------------------------------------
(* Page tables are neither leaked nor shared: each one that is allocated   *)
(* is in one directory, once, and a directory has no other, but for what   *)
(* pd_abort_mapping frees and leaves.                                      *)
TablesOwned ==
  LET places == {x \in Proc \X (0 .. NumPDE - 1) : mm.dir[x[1]][x[2]] \in Table}
  IN  /\ mm.live = {mm.dir[x[1]][x[2]] : x \in places}
      /\ Cardinality(mm.live) = Cardinality(places)

(* The frames that are given out are those in the lists of the processes,  *)
(* each in one; a process maps pages of its own frames, each of them once, *)
(* and as many as num_pages says, so that the frame a fork asks for is     *)
(* as large as what pt_copy writes to it.                                  *)
FramesOwned ==
  /\ \A f \in Frame :
       LET owners == {x \in Proc \X (1 .. Cardinality(Frame)) :
                        x[2] \in DOMAIN mm.list[x[1]] /\ mm.list[x[1]][x[2]].f = f}
       IN  Cardinality(owners) = IF mm.alloc[f] > 0 THEN 1 ELSE 0
  /\ \A p \in Proc :
       LET pages == {pd_get_mapping(mm, p, v).page : v \in Mapped(mm, p)}
       IN  /\ Cardinality(pages) = Cardinality(Mapped(mm, p))
           /\ Cardinality(pages) = mm.num[p]
           /\ \A x \in pages : \E i \in DOMAIN mm.list[p] :
                mm.list[p][i].f = x[1] /\ x[2] < mm.list[p][i].n

(* The section s can be written, and has bytes on page v. *)
WritableOn(s, v) ==
  /\ s.rw /\ s.len > 0
  /\ s.addr \div PAGE_SIZE <= v /\ v <= High(s) \div PAGE_SIZE

(* The pages a writable section, or the stack, lies in. *)
WritableData ==
  {StackLow} \cup {v \in Page : \E i \in DOMAIN Sections : WritableOn(Sections[i], v)}

(* What vmm_map_sections requires of the sections and does not check: on a *)
(* page that holds writable data an end is in a section, and only in       *)
(* writable ones; and the last section does not end on the first byte of a *)
(* page.                                                                   *)
Separate ==
  /\ ms_get_bounding_addr(Sections).high % PAGE_SIZE # 0
  /\ \A i \in DOMAIN Sections, v \in Page :
       WritableOn(Sections[i], v) =>
         LET b == ms_get_bounding_section(Sections, v)
         IN  b # {} /\ \A j \in b : Sections[j].rw

(* Two directories, shared frames and copied tables or not: each process   *)
(* has a memory of its own, a child starts with a copy of its parent's,    *)
(* new pages are clear, remove_pages takes what new_pages gave, and the    *)
(* writable sections of a program can be written.                          *)
Spaces == INSTANCE AddressSpaces
            WITH Image <- Image, Data <- WritableData,
                 space <- [p \in Proc |-> [v \in Mapped(mm, p) |->
                   LET e == pd_get_mapping(mm, p, v)
                   IN  [val |-> mm.data[e.page[1]][e.page[2]], rw |-> e.rw]]]
ImplementsSpaces == Spaces!Spec

(* An access or an exception comes to an end: the page is written, perhaps *)
(* after the stack has grown to it page by page, or the process is killed. *)
(* page_fault_handler cannot be entered for the same access for ever.      *)
AccessResolved ==
  \A p \in Proc : acc[p] # NULL ~> (acc[p] = NULL \/ fate # "ok" \/ Torn(p))

=============================================================================
