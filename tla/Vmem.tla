-------------------------------- MODULE Vmem --------------------------------
(***************************************************************************)
(* The page tables of the hypervisor: src/vmem.c and src/vmem.h, and the   *)
(* changes of satp in src/guestprivilege.c.                                *)
(*                                                                         *)
(* The machine table maps the guest's physical memory (GM addresses) to    *)
(* the host's, lazily.  While GU runs with paging the host's satp points   *)
(* to a shadow table instead, filled on page faults with what the guest's  *)
(* own tables and the machine table say together.  Both kinds of tables    *)
(* are pages of the allocator's pool, except for the machine root.         *)
(*                                                                         *)
(* Physical addresses are page numbers, a table has N entries (512), and a *)
(* virtual page is its three indices, va[2], va[1] and va[0]; va[2] is N   *)
(* or more for the addresses whose upper bits are set.  Handling a fault   *)
(* is a sequence of steps, one for every table that is read or changed.    *)
(* The hypervisor itself runs untranslated, with interrupts disabled.      *)
(***************************************************************************)
EXTENDS Naturals, Sequences, FiniteSets

CONSTANTS Pool,             \* the pages of the allocator
          MachineRoot,      \* machine_pagetable_roots[0]
          NULL,
          N,                \* entries of a table
          Half,             \* upper half of the indices: sign-extended
          RamL3,            \* first entry of the top level that is RAM
          Offset,           \* GUEST_MEMORY_OFFSET
          HostMemory,       \* the pages of the host that are memory
          Garbage,          \* contents of a page that was never used
          GuestTables,      \* pages the guest keeps its tables in
          GuestPtes,        \* what it may write to the entries of each
          GuestRoots,       \* what it may write to satp.PPN
          Uninitialized,    \* what a read through a wild pointer may give
          Virt,             \* the virtual pages considered
          Accesses          \* the memory accesses of the guest

Slot == 0 .. N - 1
RamStart == RamL3 * N * N                     \* 0x80000000

Kind == {"R", "W", "X"}
Perm == {"V", "U"} \union Kind

\* UnpackedPagetableEntry; addr is the page of a table or of memory.
Entry == [perm : SUBSET Perm, addr : Nat \union Pool]
GuestEntry == [perm : SUBSET Perm, addr : Nat]
EmptyEntry == [perm |-> {}, addr |-> 0]
EmptyTable == [i \in Slot |-> EmptyEntry]
TableEntry(t) == [perm |-> {"V"}, addr |-> t]

Valid(e) == "V" \in e.perm
IsLeaf(e) == Valid(e) /\ e.perm \intersect Kind # {}
IsTable(e) == Valid(e) /\ e.perm \intersect Kind = {}

VirtPage == [0 .. 2 -> Nat]
Top(va) == IF va[2] < N THEN va[2] ELSE va[2] - N
Canonical(va) == va[2] < Half \/ va[2] >= N + Half

\* An access of an instruction at the pages instr to the pages data; either
\* may cross the end of a page.  The parsers of vmem.c know the integer loads
\* and stores; atomic and floating point instructions they do not know.
Access == [kind : {"R", "W"}, known : BOOLEAN,
           instr : Seq(Virt), data : Seq(Virt)]

\* The pool is larger than all the tables of the machine can be, and what the
\* guest can write its tables to is memory.
ASSUME VmemAssumption ==
    /\ N \in Nat \ {0}
    /\ Half \in 1 .. N
    /\ RamL3 \in Slot \ {0}
    /\ Offset \in Nat
    /\ HostMemory \subseteq Nat
    /\ IsFiniteSet(Pool) /\ Cardinality(Pool) > N
    /\ MachineRoot \notin Pool
    /\ NULL \notin Pool \union {MachineRoot}
    /\ Garbage \in [Slot -> Entry]
    /\ GuestTables \subseteq Nat
    /\ \A t \in GuestTables : t + Offset \in HostMemory
    /\ GuestPtes \in [GuestTables -> [Slot -> SUBSET GuestEntry]]
    /\ GuestRoots \subseteq Nat
    /\ Uninitialized \subseteq GuestEntry
    /\ Virt \subseteq {va \in VirtPage : /\ va[2] < 2 * N
                                         /\ va[1] \in Slot
                                         /\ va[0] \in Slot}
    /\ \A a \in Accesses : /\ a \in Access
                           /\ a.instr # << >> /\ a.data # << >>

VARIABLES pt,                \* the contents of the table pages
          free,              \* the pages of the pool that are not in use
          shadow_page_table, \* root of the shadow table, or NULL
          shadow_pt_active,
          satp_ppn,          \* the guest's satp.PPN
          gmem,              \* the guest's own tables, in its memory
          tlb,               \* what the hart may have cached for each page
          phase,             \* where the hart is
          fault,             \* the access being handled
          entry,             \* entry_guest, then fault_gm_addr
          level,             \* index of the next lookup: 2, 1, 0
          table,             \* parent of update_shadow_pt
          panic,             \* why panic() was called
          sfence             \* the guest has just executed sfence.vma

table_vars == <<pt, free, tlb>>
guest_vars == <<shadow_page_table, shadow_pt_active, satp_ppn, gmem>>
walk_vars == <<fault, entry, level, table>>
vars == <<table_vars, guest_vars, phase, walk_vars, panic, sfence>>

Handler == {"fetch", "walk", "map", "shadow"}

PanicReason == {"none", "Failed to allocate a page", "Unmapped page",
                "Multi-page instruction", "Extract address",
                "Propagate the page fault to GM", "below RAM",
                "beyond Sv39", "unknown page fault",
                "Hypervisor-caused exception"}

NoFault == [kind |-> "none", known |-> TRUE, instr |-> << >>, pages |-> << >>]
Fault == [kind : Kind, known : BOOLEAN, instr : Seq(Virt), pages : Seq(Virt)]
         \union {NoFault}

-----------------------------------------------------------------------------
(* The walk of a page table, as the hart and resolve_guestmem_slice do it: *)
(* the entry for va with the address of its page.  Tables are a function   *)
(* from pages; a page that is not in its domain holds zeros.               *)
Descend(tables, t, i) ==
    IF t \in DOMAIN tables THEN tables[t][i] ELSE EmptyEntry

Walk(tables, root, va) ==
    LET e2 == Descend(tables, root, Top(va))
        e1 == Descend(tables, e2.addr, va[1])
        e0 == Descend(tables, e1.addr, va[0])
    IN  CASE IsLeaf(e2) -> [e2 EXCEPT !.addr = @ + va[1] * N + va[0]]
          [] IsTable(e2) /\ IsLeaf(e1) -> [e1 EXCEPT !.addr = @ + va[0]]
          [] IsTable(e2) /\ IsTable(e1) /\ IsLeaf(e0) -> e0
          [] OTHER -> EmptyEntry

\* What the host's satp points to.
ActiveRoot == IF shadow_pt_active THEN shadow_page_table ELSE MachineRoot

\* The guest runs again: the hart walks the table satp points to, and may
\* still have what it cached before, of which a fence leaves nothing.
Fenced == [va \in Virt |-> {}]
Refill(cached, tables, root) ==
    [va \in Virt |-> cached[va] \union {Walk(tables, root, va)}]

Grants(e, kind) == {"V", "U", kind} \subseteq e.perm

\* The access succeeds, is a page fault, or is an access fault: the table
\* grants it, but the page of the host is not memory.
Allowed(va, kind) ==
    Canonical(va) /\ \E e \in tlb[va] : Grants(e, kind) /\ e.addr \in HostMemory
Denied(va, kind) ==
    \/ ~Canonical(va)
    \/ \E e \in tlb[va] : ~Grants(e, kind)
NoMemory(va, kind) ==
    Canonical(va) /\ \E e \in tlb[va] : Grants(e, kind) /\ e.addr \notin HostMemory

Pages(s) == {s[i] : i \in DOMAIN s}

-----------------------------------------------------------------------------
Init == /\ pt = [p \in Pool \union {MachineRoot} |->
                    IF p = MachineRoot THEN EmptyTable ELSE Garbage]
        /\ free = Pool
        /\ shadow_page_table = NULL
        /\ shadow_pt_active = FALSE
        /\ satp_ppn \in GuestRoots
        /\ gmem = [t \in GuestTables |-> EmptyTable]
        /\ tlb = Refill(Fenced, pt, MachineRoot)
        /\ phase = "guest"
        /\ fault = NoFault
        /\ entry = EmptyEntry
        /\ level = 2
        /\ table = NULL
        /\ panic = "none"
        /\ sfence = FALSE

\* panic() does not return.
Panic(reason) == /\ phase' = "halted"
                 /\ panic' = reason
                 /\ sfence' = FALSE
                 /\ UNCHANGED <<table_vars, guest_vars, walk_vars>>

\* The fault has been handled, and the guest goes on with satp at root.
Return(cached, tables, root) ==
    /\ phase' = "guest"
    /\ fault' = NoFault
    /\ entry' = EmptyEntry
    /\ level' = 2
    /\ table' = NULL
    /\ tlb' = Refill(cached, tables, root)
    /\ sfence' = FALSE
    /\ UNCHANGED panic

-----------------------------------------------------------------------------
(* The guest changes its page tables, through a page it can write to.      *)
GuestWrite ==
    /\ phase = "guest"
    /\ \E t \in GuestTables : \E i \in Slot : \E e \in GuestPtes[t][i] :
          /\ \E va \in Virt : /\ Canonical(va)
                              /\ \E c \in tlb[va] : /\ Grants(c, "W")
                                                    /\ c.addr = t + Offset
          /\ gmem' = [gmem EXCEPT ![t][i] = e]
    /\ sfence' = FALSE
    /\ UNCHANGED <<table_vars, shadow_page_table, shadow_pt_active, satp_ppn,
                   phase, walk_vars, panic>>

(* A write of satp by the guest: nothing else changes.                     *)
SetSatp ==
    /\ phase = "guest"
    /\ satp_ppn' \in GuestRoots
    /\ sfence' = FALSE
    /\ UNCHANGED <<table_vars, shadow_page_table, shadow_pt_active, gmem,
                   phase, walk_vars, panic>>

\* Variant with a mistake: the page keeps its old contents.
NewTable_NotCleared(p) == pt[p]

\* allocate_pagepable clears the page it gets.
NewTable(p) == EmptyTable

\* Variant with a mistake: the root is used before it is allocated.
guest_mret_NoRoot ==
    /\ phase = "guest"
    /\ ~shadow_pt_active
    /\ shadow_pt_active' = TRUE
    /\ tlb' = Refill(Fenced, pt, shadow_page_table)
    /\ sfence' = FALSE
    /\ UNCHANGED <<pt, free, shadow_page_table, satp_ppn, gmem, phase,
                   walk_vars, panic>>

(* guest_mret to a GU with paging.  The root is allocated on the first     *)
(* use, and is not compared with NULL.                                     *)
guest_mret ==
    /\ phase = "guest"
    /\ ~shadow_pt_active
    /\ shadow_pt_active' = TRUE
    /\ \E p \in IF shadow_page_table # NULL THEN {shadow_page_table}
                ELSE IF free = {} THEN {NULL} ELSE free :
          /\ shadow_page_table' = p
          /\ free' = free \ {p}
          /\ pt' = IF p = shadow_page_table \/ p = NULL
                   THEN pt
                   ELSE [pt EXCEPT ![p] = NewTable(p)]
    /\ tlb' = Refill(Fenced, pt', shadow_page_table')
    /\ sfence' = FALSE
    /\ UNCHANGED <<satp_ppn, gmem, phase, walk_vars, panic>>

(* guest_exception: back to GM and to the machine table.                   *)
guest_exception ==
    /\ phase = "guest"
    /\ shadow_pt_active
    /\ shadow_pt_active' = FALSE
    /\ tlb' = Refill(Fenced, pt, MachineRoot)
    /\ sfence' = FALSE
    /\ UNCHANGED <<pt, free, shadow_page_table, satp_ppn, gmem, phase,
                   walk_vars, panic>>

\* The tables the entries of the tables S point to.
Children(S) ==
    {q \in Pool : \E p \in S, i \in Slot : /\ IsTable(pt[p][i])
                                           /\ pt[p][i].addr = q}

\* Variant with a mistake: clear_pagetable does not recurse.
clear_pagetable_Flat(root) ==
    LET below == Children({root})
    IN  /\ pt' = [p \in DOMAIN pt |-> IF p \in below \union {root}
                                      THEN EmptyTable ELSE pt[p]]
        /\ free' = free \union below

(* The recursion of clear_pagetable and deallocate_pagepable, over the two *)
(* levels there are below a shadow root.                                   *)
clear_pagetable(root) ==
    LET mid == Children({root})
        below == mid \union Children(mid)
    IN  /\ pt' = [p \in DOMAIN pt |-> IF p \in below \union {root}
                                      THEN EmptyTable ELSE pt[p]]
        /\ free' = free \union below

\* Variant with a mistake: nothing is fenced.
flush_shadow_pagetable_NotFenced ==
    /\ phase = "guest"
    /\ IF shadow_page_table = NULL
       THEN UNCHANGED table_vars
       ELSE /\ clear_pagetable(shadow_page_table)
            /\ tlb' = Refill(tlb, pt', ActiveRoot)
    /\ sfence' = TRUE
    /\ UNCHANGED <<guest_vars, phase, walk_vars, panic>>

\* Variant with a mistake: only the hart is told of the fence.
flush_shadow_pagetable_OnlyFence ==
    /\ phase = "guest"
    /\ tlb' = Refill(Fenced, pt, ActiveRoot)
    /\ sfence' = TRUE
    /\ UNCHANGED <<pt, free, guest_vars, phase, walk_vars, panic>>

(* sfence.vma of the guest: flush_shadow_pagetable.                        *)
flush_shadow_pagetable ==
    /\ phase = "guest"
    /\ IF shadow_page_table = NULL
       THEN UNCHANGED table_vars
       ELSE /\ clear_pagetable(shadow_page_table)
            /\ tlb' = Refill(Fenced, pt', ActiveRoot)
    /\ sfence' = TRUE
    /\ UNCHANGED <<guest_vars, phase, walk_vars, panic>>

-----------------------------------------------------------------------------
\* The page of fault_addr, the first one of the access.
fault_addr == Head(fault.pages)
PageNumber(va) == (va[2] * N + va[1]) * N + va[0]

\* Translation of the address starts at the guest's root table, or is over.
Translate(va) ==
    /\ phase' = IF shadow_pt_active THEN "walk" ELSE "map"
    /\ entry' = IF shadow_pt_active
                THEN TableEntry(satp_ppn)
                ELSE [perm |-> {}, addr |-> PageNumber(va)]

(* The guest's instruction cannot be fetched: fault_addr is mepc.          *)
InstructionPageFault ==
    /\ phase = "guest"
    /\ \E a \in Accesses :
          /\ \E va \in Pages(a.instr) : Denied(va, "X")
          /\ fault' = [kind |-> "X", known |-> TRUE,
                       instr |-> a.instr, pages |-> a.instr]
          /\ Translate(Head(a.instr))
    /\ sfence' = FALSE
    /\ UNCHANGED <<table_vars, guest_vars, level, table, panic>>

(* A load or a store faults at one of its pages; an access fault is handled *)
(* like a page fault.                                                      *)
DataPageFault ==
    /\ phase = "guest"
    /\ \E a \in Accesses :
          /\ \A va \in Pages(a.instr) : Allowed(va, "X")
          /\ \E va \in Pages(a.data) : Denied(va, a.kind) \/ NoMemory(va, a.kind)
          /\ fault' = [kind |-> a.kind, known |-> a.known,
                       instr |-> a.instr, pages |-> a.data]
    /\ phase' = "fetch"
    /\ sfence' = FALSE
    /\ UNCHANGED <<table_vars, guest_vars, entry, level, table, panic>>

\* The slice that resolve_guestmem_slice finds ends with the page that maps
\* the instruction: 4 KiB in the shadow table, a region in the machine table.
InOneSlice(s) ==
    Len(s) = 1 \/ /\ ~shadow_pt_active
                  /\ \A va \in Pages(s) : PageNumber(va) \div N
                                           = PageNumber(Head(s)) \div N

\* Why the address of the access cannot be found, if it cannot: the
\* instruction is not mapped, not in one slice, or the parser panics on it.
FetchError ==
    LET mapped == {"V", "U"} \subseteq
                     Walk(pt, ActiveRoot, Head(fault.instr)).perm
        whole == mapped /\ InOneSlice(fault.instr)
    IN  CASE ~mapped -> "Unmapped page"
          [] mapped /\ ~whole -> "Multi-page instruction"
          [] whole /\ ~fault.known -> "Extract address"
          [] whole /\ fault.known -> "none"

(* The instruction is read and parsed, for the address it accesses.        *)
Fetch ==
    /\ phase = "fetch"
    /\ \/ /\ FetchError = "none"
          /\ Translate(fault_addr)
          /\ sfence' = FALSE
          /\ UNCHANGED <<table_vars, guest_vars, fault, level, table, panic>>
       \/ /\ FetchError # "none"
          /\ Panic(FetchError)

-----------------------------------------------------------------------------
Lvl3(g) == (g \div N) \div N
Lvl2(g) == (g \div N) % N
TooLow(g) == g < RamStart
TooHigh(g) == ~TooLow(g) /\ Lvl3(g) >= N
InRam(g) == ~TooLow(g) /\ ~TooHigh(g)

\* There is memory of the host behind the page of GM.
Present(g) == g + Offset \in HostMemory

\* Entry of the machine table for the region of g.
MachineEntry(tables, g) ==
    Descend(tables, tables[MachineRoot][Lvl3(g)].addr, Lvl2(g))
Mapped(g) == Valid(pt[MachineRoot][Lvl3(g)]) /\ Valid(MachineEntry(pt, g))
HostPage(tables, g) == MachineEntry(tables, g).addr + (g % N)

RegionEntry(g) == [perm |-> Perm,
                   addr |-> (Lvl3(g) * N + Lvl2(g)) * N + Offset]

\* A new table is needed, and there is no page for it.
Exhausted(e) == ~Valid(e) /\ free = {}

(* ensure_guest_machine_mapped for a g in RAM, when it does not panic.     *)
ensure_guest_machine_mapped(g) ==
    LET top == pt[MachineRoot][Lvl3(g)]
    IN  IF Mapped(g)
        THEN UNCHANGED <<pt, free>>
        ELSE \E child \in IF Valid(top) THEN {top.addr} ELSE free :
               LET old == IF Valid(top) THEN pt[child] ELSE NewTable(child)
               IN  /\ pt' = [pt EXCEPT
                               ![MachineRoot][Lvl3(g)] = TableEntry(child),
                               ![child] = [old EXCEPT ![Lvl2(g)] = RegionEntry(g)]]
                   /\ free' = free \ {child}

\* A new region is followed by a fence.
EnsureFence(g) == IF Mapped(g) THEN tlb ELSE Fenced

-----------------------------------------------------------------------------
(* try_resolve_gu_to_gm: one round of its loop.  entry is the entry of the *)
(* guest's tables found last, level the index that selects the next one.   *)
Vpn(va, i) == IF i = 2 THEN Top(va) ELSE va[i]

\* gu_addr & (pgsize - 1), for an entry found with index level + 1.
PageOffset(va) == IF level = 1 THEN va[1] * N + va[0] ELSE va[0]

\* Variant with a mistake: the walk does not count the levels.
CanDescend_Always == IsTable(entry)

\* Variant with a mistake: one more level is missing.
CanDescend_Early == IsTable(entry) /\ level > 1

CanDescend == IsTable(entry) /\ level > 0

WalkFound ==
    /\ phase = "walk"
    /\ IsLeaf(entry) /\ "U" \in entry.perm
    /\ entry' = [entry EXCEPT !.addr = @ + PageOffset(fault_addr)]
    /\ phase' = "map"
    /\ sfence' = FALSE
    /\ UNCHANGED <<table_vars, guest_vars, fault, level, table, panic>>

\* Unmapped, not for GU, or no leaf where one has to be.
WalkRefused ==
    /\ phase = "walk"
    /\ ~CanDescend
    /\ ~(IsLeaf(entry) /\ "U" \in entry.perm)
    /\ Panic("Propagate the page fault to GM")

\* Variant with a mistake: the index of the next level stays.
NextLevel_Same == level

NextLevel == level - 1

\* The table is read, if it is in memory.
WalkDown ==
    /\ phase = "walk"
    /\ CanDescend
    /\ InRam(entry.addr)
    /\ ~Exhausted(pt[MachineRoot][Lvl3(entry.addr)])
    /\ ensure_guest_machine_mapped(entry.addr)
    /\ tlb' = EnsureFence(entry.addr)
    /\ \/ /\ Present(entry.addr)
          /\ entry' = Descend(gmem, entry.addr, Vpn(fault_addr, level))
          /\ level' = NextLevel
          /\ UNCHANGED <<phase, panic>>
       \/ /\ ~Present(entry.addr)
          /\ phase' = "halted"
          /\ panic' = "Hypervisor-caused exception"
          /\ UNCHANGED <<entry, level>>
    /\ sfence' = FALSE
    /\ UNCHANGED <<guest_vars, fault, table>>

\* The table is outside the RAM: next_ptr is used without a value.
WalkWild ==
    /\ phase = "walk"
    /\ CanDescend
    /\ ~InRam(entry.addr)
    /\ \/ /\ entry' \in Uninitialized
          /\ level' = NextLevel
          /\ sfence' = FALSE
          /\ UNCHANGED <<table_vars, guest_vars, phase, fault, table, panic>>
       \/ Panic("Hypervisor-caused exception")

\* ensure_guest_machine_mapped finds no page for a table.
EnsurePanics ==
    /\ \/ phase = "walk" /\ CanDescend
       \/ phase = "map"
    /\ InRam(entry.addr)
    /\ Exhausted(pt[MachineRoot][Lvl3(entry.addr)])
    /\ Panic("Failed to allocate a page")

-----------------------------------------------------------------------------
(* handle_page_fault, with the GM address of the access in entry.  Below   *)
(* the RAM are the devices; virtual_mmdev_load or virtual_mmdev_store may  *)
(* refuse the address or the width.                                        *)
EmulateDevice ==
    /\ phase = "map"
    /\ TooLow(entry.addr)
    /\ \/ fault.kind # "X" /\ Return(tlb, pt, ActiveRoot)
                           /\ UNCHANGED <<pt, free, guest_vars>>
       \/ Panic("below RAM")

MapTooHigh ==
    /\ phase = "map"
    /\ TooHigh(entry.addr)
    /\ Panic("beyond Sv39")

\* GM: the machine table is the one in use.
MapMachine ==
    /\ phase = "map"
    /\ InRam(entry.addr)
    /\ ~Exhausted(pt[MachineRoot][Lvl3(entry.addr)])
    /\ ~shadow_pt_active
    /\ \/ /\ Mapped(entry.addr)
          /\ Panic("unknown page fault")
       \/ /\ ~Mapped(entry.addr)
          /\ ensure_guest_machine_mapped(entry.addr)
          /\ Return(EnsureFence(entry.addr), pt', MachineRoot)
          /\ UNCHANGED guest_vars

\* Variant with a mistake: the shadow table is left alone if the machine table
\* has the region already.
MapUser_OnlyNewRegion ==
    /\ phase = "map"
    /\ InRam(entry.addr)
    /\ ~Exhausted(pt[MachineRoot][Lvl3(entry.addr)])
    /\ shadow_pt_active
    /\ Mapped(entry.addr)
    /\ Panic("unknown page fault")

\* GU: update_shadow_pt is called with the address in the host's memory.
MapUser ==
    /\ phase = "map"
    /\ InRam(entry.addr)
    /\ ~Exhausted(pt[MachineRoot][Lvl3(entry.addr)])
    /\ shadow_pt_active
    /\ ensure_guest_machine_mapped(entry.addr)
    /\ tlb' = EnsureFence(entry.addr)
    /\ entry' = [entry EXCEPT !.addr = HostPage(pt', entry.addr)]
    /\ phase' = "shadow"
    /\ level' = 2
    /\ table' = shadow_page_table
    /\ sfence' = FALSE
    /\ UNCHANGED <<guest_vars, fault, panic>>

-----------------------------------------------------------------------------
(* update_shadow_pt: one round of its loop for each of the upper levels,   *)
(* and the leaf.                                                           *)
ShadowDown ==
    /\ phase = "shadow"
    /\ level > 0
    /\ fault_addr[2] < N
    /\ LET slot == pt[table][fault_addr[level]]
       IN  \E child \in IF Valid(slot) THEN {slot.addr} ELSE free :
             /\ pt' = IF Valid(slot)
                      THEN pt
                      ELSE [pt EXCEPT
                              ![table][fault_addr[level]] = TableEntry(child),
                              ![child] = NewTable(child)]
             /\ free' = free \ {child}
             /\ table' = child
    /\ level' = level - 1
    /\ sfence' = FALSE
    /\ UNCHANGED <<tlb, guest_vars, phase, fault, entry, panic>>

ShadowPanics ==
    /\ phase = "shadow"
    /\ level > 0
    /\ \/ fault_addr[2] >= N /\ Panic("beyond Sv39")
       \/ /\ fault_addr[2] < N
          /\ Exhausted(pt[table][fault_addr[level]])
          /\ Panic("Failed to allocate a page")

\* Variant with a mistake: only reading is allowed.
LeafPerm_ReadOnly(perm) == perm \union {"R"}

\* The permissions of the leaf grow with every kind of access.
LeafPerm(perm) == perm \union {fault.kind, "R"}

\* They start again if the entry was for another page.
OldPerm(old) == IF old.addr = entry.addr THEN old.perm ELSE {"V", "U"}

ShadowLeaf ==
    /\ phase = "shadow"
    /\ level = 0
    /\ LET perm == OldPerm(pt[table][fault_addr[0]])
       IN  \/ /\ fault.kind \in perm
              /\ Panic("unknown page fault")
           \/ /\ fault.kind \notin perm
              /\ pt' = [pt EXCEPT ![table][fault_addr[0]] =
                                      [perm |-> LeafPerm(perm),
                                       addr |-> entry.addr]]
              /\ Return(Fenced, pt', shadow_page_table)
              /\ UNCHANGED <<free, guest_vars>>

\* The loop a panic ends in.
halt_thread == phase = "halted" /\ UNCHANGED vars

-----------------------------------------------------------------------------
Handle == \/ Fetch
          \/ WalkFound \/ WalkRefused \/ WalkDown \/ WalkWild \/ EnsurePanics
          \/ EmulateDevice \/ MapTooHigh \/ MapMachine \/ MapUser
          \/ ShadowDown \/ ShadowPanics \/ ShadowLeaf

Next == \/ GuestWrite \/ SetSatp
        \/ guest_mret \/ guest_exception \/ flush_shadow_pagetable
        \/ InstructionPageFault \/ DataPageFault
        \/ Handle
        \/ halt_thread

Spec == Init /\ [][Next]_vars

\* The hart goes on executing the hypervisor's code.
FairSpec == Spec /\ WF_vars(Handle)

-----------------------------------------------------------------------------
ShadowRoots == {shadow_page_table} \ {NULL}
ShadowMid == Children(ShadowRoots)
ShadowLow == Children(ShadowMid)
MachineMid == Children({MachineRoot})
Used == ShadowRoots \union ShadowMid \union ShadowLow
        \union {MachineRoot} \union MachineMid

\* What the guest's own tables say of a page, as the architecture has it.
GuestWalk(va) == IF Canonical(va) THEN Walk(gmem, satp_ppn, va) ELSE EmptyEntry

\* The translations that the shadow table holds, and those that the guest's
\* tables give now.
Cached ==
    {<<va, Walk(pt, shadow_page_table, va).addr>> :
        va \in {v \in Virt : /\ Canonical(v)
                             /\ Valid(Walk(pt, shadow_page_table, v))}}
Current ==
    {<<va, GuestWalk(va).addr + Offset>> :
        va \in {v \in Virt : {"V", "U"} \subseteq GuestWalk(v).perm}}

\* The guest is entitled to the access: its tables allow it, and the page is
\* in the RAM of the guest and exists.
Permitted(va, kind) ==
    LET g == IF shadow_pt_active THEN GuestWalk(va).addr ELSE PageNumber(va)
    IN  /\ IF shadow_pt_active THEN Grants(GuestWalk(va), kind) ELSE Canonical(va)
        /\ InRam(g) /\ Present(g)

\* The tables that translation of va reads are in the guest's RAM, and go down
\* to the last level.
TablesInRam(va) ==
    LET e2 == Descend(gmem, satp_ppn, Top(va))
    IN  InRam(satp_ppn) /\ (IsTable(e2) => InRam(e2.addr))
SmallPage(va) ==
    LET e2 == Descend(gmem, satp_ppn, Top(va))
    IN  IsTable(e2) /\ IsTable(Descend(gmem, e2.addr, va[1]))

\* What vmem.c has no code for: instructions that the parsers do not know,
\* instructions and accesses across the end of a page; addresses of GU in the
\* upper half, small pages of GU, and tables of the guest outside its RAM.
Unsupported ==
    \/ ~fault.known
    \/ Len(fault.instr) > 1
    \/ Len(fault.pages) > 1
    \/ /\ shadow_pt_active
       /\ \/ fault_addr[2] >= N
          \/ SmallPage(fault_addr)
          \/ ~TablesInRam(fault_addr)

\* Guests that keep their tables in their RAM, and guests that keep to what
\* vmem.c supports: the tables go down one level below the root, the addresses
\* have no upper bits, and its integer loads and stores do not cross the end of
\* a page, nor do the instructions.
TablesKept ==
    /\ \A r \in GuestRoots : InRam(r)
    /\ \A t \in GuestTables, i \in Slot : \A e \in GuestPtes[t][i] :
          IsTable(e) => InRam(e.addr)
LargePageGuest ==
    /\ TablesKept
    /\ \A t \in GuestTables, i \in Slot : \A e \in GuestPtes[t][i] :
          IsTable(e) /\ e.addr \in GuestTables =>
             \A j \in Slot : \A d \in GuestPtes[e.addr][j] : ~IsTable(d)
    /\ \A va \in Virt : va[2] < N
    /\ \A a \in Accesses : a.known /\ Len(a.instr) = 1 /\ Len(a.data) = 1

-----------------------------------------------------------------------------
(* The types of the variables (the tables, GuestThreadContext and the      *)
(* local variables of handle_page_fault and the functions it calls).       *)
TypeOK == /\ pt \in [Pool \union {MachineRoot} -> [Slot -> Entry]]
          /\ free \subseteq Pool
          /\ shadow_page_table \in Pool \union {NULL}
          /\ shadow_pt_active \in BOOLEAN
          /\ satp_ppn \in GuestRoots
          /\ gmem \in [GuestTables -> [Slot -> GuestEntry]]
          /\ tlb \in [Virt -> SUBSET Entry]
          /\ phase \in Handler \union {"guest", "halted"}
          /\ fault \in Fault
          /\ entry \in GuestEntry
          /\ level \in 0 .. 2
          /\ table \in Pool \union {NULL}
          /\ panic \in PanicReason
          /\ sfence \in BOOLEAN

(* Every page taken from the allocator by allocate_pagepable is a table of *)
(* exactly one of the two trees, at one place of it, and every other one   *)
(* is free: no flush, fault or mret loses a page, frees one that is still  *)
(* pointed to, or leaves a pointer to a page that was never a table.       *)
TablesOwned ==
    /\ free = Pool \ Used
    /\ \A p \in Used, i \in Slot : IsTable(pt[p][i]) =>
          /\ pt[p][i].addr \in Pool \ ShadowRoots
          /\ p \notin ShadowLow \union MachineMid
    /\ \A p, q \in Used : \A i, j \in Slot :
          /\ IsTable(pt[p][i]) /\ IsTable(pt[q][j])
          /\ pt[p][i].addr = pt[q][j].addr
          => p = q /\ i = j

(* Whatever the guest writes into its tables, the tables of the hypervisor *)
(* map no page below the start of the guest's memory in the host, where    *)
(* the hypervisor itself, its page tables and the devices are.             *)
GuestMemoryOnly ==
    \A p \in Pool \ free : \A i \in Slot :
        IsLeaf(pt[p][i]) => pt[p][i].addr >= RamStart + Offset

(* The hart never works with a translation that the table in satp does not *)
(* give, nor without one it gives: each change of an entry and of satp is  *)
(* followed by a fence before the guest runs.                              *)
TlbCoherent ==
    \A va \in Virt : tlb[va] \subseteq {Walk(pt, ActiveRoot, va)}

(* guest_mret never activates a NULL shadow table.                         *)
RootAllocated == shadow_pt_active => shadow_page_table # NULL

(* handle_page_fault gives up only for an access that the guest is not     *)
(* entitled to, or without a page for a table: a fault in the RAM of GM,   *)
(* or at a page of GU that the guest's tables allow, is served.            *)
PermittedServed ==
    panic \notin {"none", "Failed to allocate a page"} =>
        \E va \in Pages(fault.pages) : ~Permitted(va, fault.kind)

(* The same for any guest, with the cases that vmem.c has no code for:     *)
(* outside them each fault that the guest is entitled to have served is    *)
(* served, whatever its tables hold and held before.                       *)
ServedIfSupported ==
    panic \notin {"none", "Failed to allocate a page"} =>
        Unsupported \/ ~Permitted(fault_addr, fault.kind)

(* A fault that was handled by a change of the tables does not come again: *)
(* the hart is granted the access when the instruction is executed again.  *)
FaultRepairs ==
    [][/\ phase \in {"map", "shadow"}
       /\ phase' = "guest"
       /\ entry.addr >= RamStart
       /\ Canonical(fault_addr)
       => \A e \in tlb'[fault_addr] : Grants(e, fault.kind)]_vars

(* The shadow table is a TLB of the guest: it holds translations that the  *)
(* guest's tables have given since the last sfence.vma, and none after it. *)
Tlb == INSTANCE GuestTlb WITH cached <- Cached, current <- Current,
                              fenced <- sfence
ShadowIsTlb == Tlb!Spec

(* Every fault ends: the guest runs again or the hypervisor has panicked.  *)
FaultsEnd == phase \in Handler ~> phase \in {"guest", "halted"}

(* A handled fault lets GU access a page in a way it could not before only *)
(* if the guest's tables allow that access.                                *)
NewlyGranted ==
    {x \in Virt \X Kind : /\ \A e \in tlb[x[1]] : ~Grants(e, x[2])
                          /\ \A e \in tlb'[x[1]] : Grants(e, x[2])}
GrantsOnlyPermitted ==
    [][phase = "shadow" /\ phase' = "guest"
         => \A x \in NewlyGranted : Grants(GuestWalk(x[1]), x[2])]_vars
=============================================================================
