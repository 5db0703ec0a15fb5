# A verification of the minimal RISC-V hypervisor

The hypervisor runs one guest kernel in the user mode of one hart. The guest
has two virtual levels, GM (guest machine mode) and GU (guest user mode); what
its kernel does with privileged instructions, CSRs, device registers and the
timer is trapped and emulated. Paths below are relative to the repository's
`src/` directory.

## Inventory

| Part | State | Operations | Must be correct about |
| --- | --- | --- | --- |
| `guestprivilege.c`, `contexts.[ch]` | `GuestThreadContext`; host `mepc`, `satp` | `guest_mret`, `guest_exception`, `guest_defer_exception`, `guest_check_deferred` | level, `satp`, MDT and the deferred exception agree; user code continues where it was |
| `virtcsr.c` | the CSRs of the guest | `get_virtual_csr`, `set_virtual_csr` | no CSR write brings the guest into an inconsistent level |
| `timer.c`, `timer.h` | `clint0`, `interrupt_target`, deadline and adjustment of the guest | suspend, resume, reschedule, interrupt | the guest's clock, deadlines neither missed nor early, 64-bit wrap-around |
| `virtmmdev.c` | none of its own | load and store of clint, uart and plic registers | what the guest sees of its clock and deadline |
| `exchandlers.c`, `hypervisor.c`, `hypenterleave.S` | which trap is being handled, saved registers | boot, entry, exit, one handler per trap, panic | the order of suspend, handler, resume, reschedule; `mepc` |
| `vmem.c`, `vmem.h` | machine page table, shadow page table | page fault handling, flush, walks | isolation, no stale or wrong entries, no leaked tables |
| `pagealloc.c`, `sync.h` | free list, `next_unallocated_idx`, lock | `allocate_page`, `deallocate_page` | no page handed out twice, none lost |
| `instructions.h` | none | decoding | register, address, width and sign of an emulated access |
| `print.c`, `uart.h`, `panic.c`, `stacktrace.c` | none that steers control | output | - |
| `csr.h`, `csrs.cc`, `registers.cc`, `base_types.h`, `lto_required.c` | none | wrappers, tables | - |

How they interact: a trap enters `_exc_entry`, which saves the registers and
calls `exception()`; that stops the guest's clock, dispatches on `mcause`, lets
the guest's clock run on and sets the host's comparator; `enter_guest` restores
the registers. The handlers call `guestprivilege.c`, `virtcsr.c` and `vmem.c`;
`vmem.c` calls `virtmmdev.c` for addresses below the RAM; a timer interrupt
reaches `guest_defer_exception` through `timer.c`. Interrupts are disabled in
the hypervisor, so handlers are not interrupted, but `mtime` runs on between any
two of their steps. The hard parts are what a timer interrupt between two guest
instructions meets, which order the steps at the end of a handler have, the
clock that is corrected by an estimate, one comparator for two purposes, and two
page tables whose entries, and whose copies in the hart's TLB, have to follow
tables that the guest rewrites as it likes. The allocator has a lock for harts
that may share it.

`PROJECT.json` lists the hazards at their lines, with the properties that cover
them.

## Modules

| Module | Models |
| --- | --- |
| `GuestPrivilege` | `guestprivilege.c` as operators on a thread record: the fields of `GuestThreadContext` that steer control, the host CSRs those functions use, and whether and why `panic()` was called |
| `VirtCsr` | `virtcsr.c`, and `csrrw`/`csrrs` of `exchandlers.c` with their end (advance `mepc`, check deferred) |
| `Timer` | `timer.c` and `timer_compare`; times are words modulo `Word` (2^64) |
| `VirtMmdev` | `virtmmdev.c`: which register is accessible in which width, and the clint's registers |
| `Hypervisor` | composes the four: `boot_main`, a trap as the sequence of phases *trapped, handle, resume, resched, return*, one action per handler, `halt_thread`; time (`Tick`) and the guest (`GuestRun`, `Trap`, `TimerTrap`) as environment |
| `MCHypervisor` | the sets of traps for the runs |
| `HypervisorProofs` | types, levels, `satp`, deferred exceptions, continuation |
| `HypervisorTimerProofs` | the guest's clock and the comparator; a raised timer exception is not lost |
| `PageAlloc` | `pagealloc.c` and `sync.h`; taking and releasing the lock and each statement of the critical section is a step of a hart (the accesses of `AllocPop` and of `AllocBump` are one step each, under the lock) |
| `PagePool` | what the allocator promises: the abstract specification |
| `PageAllocProofs` | the allocator's invariant and the refinement |
| `Vmem` | page faults and page tables of `vmem.c`, with the changes of `satp` in `guestprivilege.c`; the guest's own tables, its accesses and the hart's TLB as environment |
| `GuestTlb` | what a guest may expect of address translation: the abstract specification of the shadow table |
| `MCVmem` | the guests (tables they write, accesses they make) for the runs |
| `MCVmemGuest` | the guest of large pages, with what it is assumed to be |
| `VmemTreeProofs` | the two trees of tables as an invariant, and what each change does to it; indices and walks |
| `VmemProofs` | the theorems about tables, isolation, TLB and repaired faults |
| `VmemTlbProofs` | `Vmem` implements `GuestTlb` |
| `VmemServedProofs` | which faults are served |
| `Decode` | `instructions.h`, the parsing of loads and stores in `vmem.c`, the dispatch on illegal instructions in `exchandlers.c` |
| `RiscvIsa` | the reference for `Decode`: encodings, widths and results of the instructions as the ISA defines them |
| `MCDecode` | the instructions for the runs |
| `DecodeProofs` | every instruction is decoded as the ISA encodes it |

State and code, `Hypervisor`. `thr` is the guest thread; `thr.mepc`, `thr.mtval`, `thr.satp`
are the host's CSRs, `thr.guest_mepc`, `thr.guest_mtval`, ... the guest's.
`thr.satp` names the table satp points to. `mtime`, `mtimecmp`, `mtie` are the
clint's registers and the enable bit, `timer_*` the fields of the same name.
`mtime_reg` is the last value the guest read from its `mtime`. `mapped` says
that the fetch of the guest's entry has faulted and been resolved: the machine
page table is empty at boot, so nothing else can happen first, and it is that
trap that arms the timer for the first time.

State and code, `Vmem`. `pt` holds the contents of the pages that are tables,
`free` the pages of the allocator's pool that are not handed out (`PagePool`).
Physical addresses are page numbers; a table has `N` entries (512) and a virtual
page is its three indices, the upper one being `N` or more for an address whose
upper bits are set. `gmem` is the part of the guest's memory in which it keeps
its own tables; memory outside `GuestTables` reads as zero. `HostMemory` is the
memory of the host: behind a region that the hypervisor maps there may be none,
and an access there is an access fault (`NoMemory`) although the table grants it,
which the code handles as a page fault. An instruction is `known` if the parsers
of `vmem.c` know it; atomic and floating point accesses are not, and
`parse_source_address` and `parse_destination_address` panic on them
(`FetchError`). `tlb[va]` is the set
of entries the hart may use for a page: what it has walked, plus what it cached
before, of which a fence leaves nothing. A fault is handled in the phases
*fetch* (the instruction is read through `resolve_guestmem_slice`), *walk*
(`try_resolve_gu_to_gm`), *map* (`ensure_guest_machine_mapped`, or the device)
and *shadow* (`update_shadow_pt`), with one step for every table that is read or
changed; `entry` is `entry_guest` and then `fault_gm_addr`, `level` the index of
the next lookup, `table` the `parent` of `update_shadow_pt`. `guest_mret`,
`guest_exception` and `flush_shadow_pagetable` are the other operations that
change tables or `satp`. A page that was never cleared holds `Garbage`, a table
full of mappings; the link in a freed page is an even number and so an invalid
entry. A read through the uninitialized `next_ptr` gives any entry of
`Uninitialized` or an exception; reading a guest table where there is no memory
is an exception of the hypervisor itself, which panics.

State and code, `Decode`. An instruction in memory is a function from bit
numbers to bits, of which `Bits` and `ExtendSign` (`EXTRACT_BITS`,
`EXTEND_SIGN`) take numbers; an address is a base register with an offset; a
register is eight bytes. `Parse` is the call of `parse_source_address`,
`parse_destination_address` or the dispatch on the illegal instruction,
`EmulateLoad` what follows it for a load from a device.

What is abstracted. A program counter is one of `NPc` values, 0 being the reset
value; advancing `mepc` by the size of the instruction is `NextPc`. CSRs and
bits that are only stored and read back have no value. A CSR write takes every
value, an or of two unknown words any result that has no fixed bits. Which
instruction trapped, and whether a page fault is resolved, emulated or fatal, is
the guest's choice in `Hypervisor`: `Ops` and the disjuncts of the handlers
(`Decode` and `Vmem` have what decides it). All panics of
`handle_guest_exception` that depend on the instruction or the address alone are
`HandleFatal`. `wfi` on the host ends when the timer interrupt is pending, as in
qemu, the machine the repository is tested on. In `Vmem` the bits A and D of an
entry are set by the hart, as in qemu, so that they cause no faults; large pages of
the guest are aligned; an instruction access fault (cause 1) never reaches
`vmem.c` and is part of `HandleFatal`. The level of the guest is only whether the shadow table is
active: GU without paging runs on the machine table as GM does. The handler of
an illegal instruction also reads the instruction through
`resolve_guestmem_slice`; it changes nothing and is not repeated there. The
result `PFHR_SUCCESS` of an emulated access (`vmem.h:106`) and of a changed table
are two actions.

Variants named after a definition with a suffix (`guest_exception_KeepsSatp`,
...) are the definition with a mistake in it; nothing uses them. They are there
to see that the property they are about detects it.

## Runs

| Run | Checks | Bounds |
| --- | --- | --- |
| `privilege` (`MCPrivilege.cfg`) | `MdtInGM`, `SatpMatchesLevel`, `NoDeliverablePending`, `DeferredNeverPanics`, `TableFollowsLevel`, `ContinuationKept`, `TimerKept` | all traps, all CSR values, 3 program counters, time standing still |
| `timer` (`MCTimer.cfg`) | `TypeOK`, `ComparatorCovers`, `GuestClockMonotone`, `TimerNotEarly` | `mtime` up to 16, period 3, one tick of overhead before and after the handler, `additional_cycles` 2, words modulo 64 |
| `timer_liveness` (`MCTimerLiveness.cfg`) | `TrapsEnd`, `TimerRaised` | `mtime` up to 5, period 2, no overheads, deadlines within that time, after it and in the upper half of the word |
| `mtime_reads` (`MCMtimeReads.cfg`) | `MtimeReadsMonotone`, violated | as `timer` |
| `page_alloc` (`MCPageAlloc.cfg`) | `TypeOK`, `MutualExclusion`, `FreeListSound`, `Refinement`, `LockReleased` | 2 harts, 3 pages |
| `vmem` (`MCVmem.cfg`) | `TypeOK`, `TablesOwned`, `GuestMemoryOnly`, `TlbCoherent`, `RootAllocated`, `ServedIfSupported` | tables of 4 entries, a pool of 5 pages that runs out, 12 pages of memory of which the guest's tables are two, a guest that does anything |
| `vmem_guest` (`MCVmemGuest.cfg`) | `PermittedServed`, `FaultRepairs`, `ShadowIsTlb` | a pool of 7 pages, a guest that uses integer loads and stores, large pages in its RAM and the lower half of its addresses |
| `vmem_liveness` (`MCVmemLiveness.cfg`) | `FaultsEnd` | a pool of 5, a guest whose root table may be its own child |
| `small_pages` (`MCSmallPages.cfg`) | `PermittedServed`, violated | as `vmem_guest`, with a table of the last level |
| `permissions` (`MCPermissions.cfg`) | `GrantsOnlyPermitted`, violated | the guest of `vmem_guest` |
| `decode` (`MCDecode.cfg`) | `AccessDecoded`, `SystemDecoded`, `LoadExtends` | every integer load and store and system instruction that is emulated, and system instructions that are not |
| `stack_loads` (`MCStackLoads.cfg`) | `StackLoadExtends`, violated | as `decode` |

Why the bounds are enough. In `privilege` the traps are unbounded in number and
the state space is finite without a bound; a deadline that is always due lets a
timer interrupt for the guest come between any two instructions, which is all
that the levels depend on of the timer. Three program counters tell an
instruction, its successor and another one apart. In `timer` the time is long
enough for several traps, sleeps and interrupts in a row; the deadlines 3 and 6
are before and after a period, 30 and 63 are near a half and near the whole of
the word, so that the wrap-around of `deadline + adjustment` and of the signed
comparison happens. `ComparatorCovers` and `TimerNotEarly` say nothing of
deadlines beyond half of the word (`NearDeadline`): for those the code gives no
guarantee (a deadline of 2^64-1, the usual way to switch a timer off, wraps
around and is raised at once when the adjustment is not 0; one between half and
the whole of the word is put into the comparator in place of the period,
`timer.c:42`). `TrapsEnd` says so for a `wfi`: its sleep ends if the guest's
deadline, where one is set, is near, and if the period fits below `MaxTime`; with
a far deadline the host sleeps on, which the run does (`Sleep`) and the property
excepts. In `page_alloc` the
pool is exhausted, refilled and the list grows to its full length while the
owners overwrite the links.

In `vmem` four entries per table leave a lower and an upper half of the address
space, entries below, in and beyond the RAM, and two pages that share a table and
two that do not. The guest's tables are at pages 16 and 17; it writes pointers to
tables inside, below and above the RAM and to the same table, pointers to tables where there is no memory, leaves for device
pages, for pages beyond the RAM and for pages that GU may not use, accesses
pages across a boundary and pages without memory, and has an instruction that
the parsers do not know. Five pages of pool are the least that are more than a
table has entries, as `VmemAssumption` wants it, and are not enough for all the
tables this guest causes, so that each allocation can fail. In `vmem_guest` seven
pages are enough for every table, so that a panic for want of memory cannot hide
another one; it enters tables, changes them with and without `sfence.vma` and
switches between two roots. The pages of the pool are interchangeable
(`Symmetry`), which is used in the runs without liveness. In `decode` a decoder
takes each bit of an instruction to one place, so immediates and register numbers
with one bit, no bit and all bits set (all offsets for compressed instructions)
meet every place of every field; the bytes behind a compressed instruction are
all zeros or all ones, which would show in a decoder that looks at them; the
bytes that are loaded lie on either side of the sign bit, independently for each
width.

Deadlock is checked everywhere but in `Decode`, where the emulation of one
instruction ends. `Tick` leaves room for the exit of the handler
below `MaxTime`, so that the bound ends no behaviour in the middle of a trap; a
host that sleeps in `wfi` until after `MaxTime` stays in `Sleep`, a step that
changes nothing. A panicked hypervisor loops in `halt_thread`.

Fairness. `Hypervisor`: weak fairness of the hypervisor's own steps (the hart
goes on executing, interrupts are disabled), weak fairness of `Tick` (mtime is a
counter), and strong fairness of `TimerTrap`: the guest can trap at any moment
for a reason of its own, but a pending interrupt is taken when the hart next
runs user code, where machine interrupts are always enabled. `PageAlloc`: weak
fairness of each hart's steps. That a waiting hart gets the lock is not claimed,
`atomic_flag_test_and_set` in a loop does not promise it; that the lock is
released is. `Vmem`: weak fairness of the handler's steps (`Handle`), for the same
reason as in `Hypervisor`; nothing is assumed of the guest.

### What `mtime_reads` shows

A load of `clint.mtime` is served inside a trap, from `mtime -
timer_adjustment`. The time of that trap is not in the adjustment yet and is
taken out of the guest's clock only afterwards. If the first of two loads spends
longer in the hypervisor before the read than the second, the second value can
be smaller. The guest's clock itself does not go back (`GuestClockMonotone`,
proved); reading `timer_suspended_at` instead of `mtime` would make the reads
follow it.

### What `small_pages`, `permissions` and `stack_loads` show

`small_pages`: `try_resolve_gu_to_gm` gives up when the entry of the second level
is a table, because `component_offset` has become `PGSHIFT` before the entry of
the last level is read (`vmem.c:378`; `resolve_guestmem_slice` tests
`component_offset + 9`, `vmem.c:754`). A fault of GU at a 4 KiB page that the
guest's tables allow ends in a panic.

`permissions`: the walk of the guest's tables does not look at R, W and X
(`vmem.c:354`), and `update_shadow_pt` adds the permission of the access that
faulted (`vmem.c:443`): a store to a page that the guest's kernel has mapped
read-only makes it writable. `GuestTlb` is therefore about addresses and not
about permissions.

`stack_loads`: `c.lwsp` is not marked as a signed load (`vmem.c:151`), though
`c.lw` is. No register that a device lets be read in 32 bits has bit 31 set
today.

There are four more cases in which the code does not serve what
the architecture would, and the hazards in `PROJECT.json` say so: an atomic or
floating point access to a page that is not mapped yet panics in the parsers
(`vmem.c:83`, `vmem.c:229`); a GU address in
the upper half of Sv39 is refused, since `vpn[2]` is taken without a mask
(`vmem.c:415`); an access across the end of a page is treated as one to its first
page (`vmem.c:497`, with a TODO), and panics if that page is mapped; and a guest
table outside the RAM is read through an uninitialized pointer (`vmem.c:397`).
The guest of `vmem` does all four, and the tables of the hypervisor stay sound;
the guest of `vmem_guest` does none of them. `Unsupported` lists these cases,
with small pages of GU and instructions across the end of a page.
`ServedIfSupported` says that the list is complete: outside it, a panic other
than for want of pages for tables means that the guest was not entitled to the
access. It is entitled (`Permitted`) to what its tables allow in the part of its
RAM behind which the host has memory: an access to memory that does not exist is
an access fault on any machine, and here a panic (`exchandlers.c:184`, `:207`).

## Proofs

Checked by TLAPS for every value of the constants that satisfies the
assumptions:

- `NPcAssumption`: there are at least two program counters;
- `TimerAssumption`: the period and `additional_cycles` fit into a word;
- `HypervisorAssumption`: deadlines are words; `AdditionalCycles <= EntryTicks +
  ExitTicks`, which is what the comment on `additional_cycles` in `timer.c`
  claims, taken in ticks of `mtime`: the comment counts cycles, the code adds the
  number to ticks as it is (`timer.c:93`, `:97`). Whether 50 is such a lower
  estimate on a given machine is assumed by `GuestClockMonotone` and
  `TimerNotEarly` and checked by nothing here; and `mtime` stays in the lower half of its range;
- `PageAllocAssumption`: the size of the pool is a natural number, and harts are
  not called `"pool"` or `"client"`;
- `VmemAssumption`: the pool has more pages than a table has entries
  (`MAX_ALLOCATEABLE_PAGES` against 512), the RAM does not start at address 0,
  the machine root is not a page of the pool, the tables of the guest that it
  writes are in memory that exists, and the values the environment
  chooses are entries and pages;
- `DecodeAssumption`: the instructions are those of the ISA (`AllInstructions`),
  what follows them are bits, and registers hold bytes.

`HypervisorProofs`. The theorem `Invariants` carries the conjunction that is
inductive (`ClockTypeOK` and `ThreadInv`): types; `MdtInGM`; the relation of `satp`, `shadow_pt_active`, level
and shadow table; no deliverable exception outside the halted state; and the
panics that are possible in each state. `DeferredNeverPanics` alone is not
inductive: a delivery is safe because MDT clear implies GU, which is `MdtInGM`,
and that in turn needs that CSR writes never clear MDT and that a `mret` which
clears it has moved to GU before `guest_check_deferred` is called. For each
operator of `GuestPrivilege` a lemma says what it does to a thread that
satisfies the conjunction; the proof of a step cites the lemma of the handler.
`ContinuationKept` follows from the same invariant, action by action, and so does
`TableFollowsLevel`: `SatpMatchesLevel` says of a state only that `satp` and
`shadow_pt_active` agree and that GM is not on the shadow table, which a `mret`
that forgets the switch would satisfy; that an entry into GU with Sv39 ends on the
shadow table is a property of the step. Every operator but `guest_mret` leaves GU
on the table it is on (`Stays`); an `mret` that is followed at once by a deferred
exception ends in GM.

`HypervisorTimerProofs`. The clock is not monotone in the variables of the
code, since the adjustment is made late; `GuestClock` is the value the guest
will see at least, defined by phase. The inductive invariant `ClockInv` bounds
the adjustment and the moment of suspension by `mtime` so that no subtraction or
addition of `timer_resume_virtual` wraps (`ResumeExact`), which makes the
`uint64_t` arithmetic that of the integers; from that `GuestClock` never
decreases. `DeadlineInv` relates comparator, target and deadline between two
calls of `timer_reschedule`: `RescheduleExact` shows that the signed comparison
orders near deadlines as the integers do. `ComparatorCovers` and `TimerNotEarly`
follow.

That a raised exception is kept is proved in the same module. `TimerKept` needs
that the exception that is deferred is the timer's, or the second one that
`guest_defer_exception` drops would be a different one: the invariant says that
nothing else is ever deferred, and for each operation of `GuestPrivilege` a
lemma says that it keeps a deferred exception or enters the guest's handler for
it.

`PageAllocProofs`. `AllocInv` adds to types, mutual exclusion and the free list
what each hart knows at its program counter (an `entry` that is still the top of
the list, a `page` it owns and that is linked to the top, a result it owns) and
that pages from `next_unallocated_idx` on have never left the pool. The list is
a function on `1 .. n` from the bottom, so that a push extends and a pop
restricts it and the pages of the clients lie outside it. That its length is at
most `MaxPages` is a lemma on injections. The refinement maps the pages in use
to those whose owner is not the pool; each call has one step that changes it.

`VmemTreeProofs` and `VmemProofs`. `TablesOwned` speaks of pages reached from the
roots and is not inductive: it does not say what kind of entries the tables of
each level hold, without which a new leaf could lie in a table that is also
followed as one. `Tree` does: `Sorted` (each page is free or on one level of one
tree), `Contents` (upper levels hold tables of the next one, the lowest ones
leaves into the guest's memory, all with U), `Parents` and `OneParent` (each
table is linked, once). Lemmas show that clearing the shadow tree, linking a new
table and writing a leaf keep it; for the flush, that what two levels of
recursion free are exactly the tables below the root. `VInv` adds the types,
where `update_shadow_pt` is in the tree, and `TlbCoherent`, which is kept because
linking an empty table changes no walk and each other change is followed by a
fence. `RootAllocated` is a pigeonhole argument: before the first shadow root only
children of the machine root are allocated, at most one per entry, so that a pool
larger than a table has one left. `GuestMemoryOnly` follows from `Contents`:
whatever the guest's tables say, the address that reaches `update_shadow_pt` comes
out of the machine table. `FaultRepairs` follows from the walk through the entry
just written.

`VmemTlbProofs`. `ShadowIsTlb` is proved for guests that keep their tables in
their RAM (`TablesKept`: every root and every pointer to a table that they write
is a page of RAM); without it the theorem is false (see above). Each step maps to
`Change`, `Use`, `Fence` or a stutter. Needed for it: every leaf of the machine
table maps a region to the one `GUEST_MEMORY_OFFSET` above it, for every kind of
access (`MachineExact`), and what the walk of the guest's tables has found so far
is what the architecture's walk finds, if the tables it meets are in the RAM
(`GuestWalkInv`), which holds since the guest does not run in between;
`OneParent` shows that writing a leaf changes the translation of the faulting
page alone. The invariant itself (`TlbInv`) holds of every guest.

`VmemServedProofs`. `ServedIfSupported` is proved for every guest, without a
hypothesis, and `PermittedServed` from it for the guests described by
`LargePageGuest`, which the run `vmem_guest` satisfies (`MCVmemGuest` has it as
an assumption, so that TLC evaluates it). A panic is looked at where it happens:
the two *unknown page fault* cases are those in which the handler finds that the
table already allows the access, so the invariant has to say that it does not
(`Faulted`: from the moment of the fault until the handler returns, the table in
use denies the access, or there is no memory behind the page, in which case the
guest is not entitled to it). It holds at the fault because the hart denies nothing
that the table allows (`TlbCoherent`), and stays because neither a region that is
added to the machine table during the walk nor an empty table linked into the
shadow tree changes a walk of the table in use. The other panics are compared
with the architecture's walk of the guest's tables through `WalkKnown`:
`try_resolve_gu_to_gm` refuses an entry only if that walk has no user page there
or goes to the last level, or to a table without memory (`AbsentGivesUp`).
`Fetchable` says that the instruction that faulted on its data can be read, so
that reading it fails only where the parsers do not know it (`FetchErrors`).

`DecodeProofs`. The run `decode` takes instructions with few bits set; the
theorems are about all of `AllInstructions`, 12-bit immediates and all registers
included, any two bytes behind a compressed instruction, and any bytes in the
register and on the bus. A word is a function from bit numbers to bits, so the
proof is about single bits and needs no induction. `Append` and `Kept`: fields
laid one behind the other stay apart, from which the lemmas on the eight formats
(`IFormat`, `SFormat`, ...) say which bit of which operand lies where. `Sum`: a
number below 4096 is the sum of its bits, so that a field taken out by
`EXTRACT_BITS` is the operand that was put in (`Read3`, `Read5`, `Read7`) or a
known part of the scattered offset; `TwosExtended`, `PrimeFieldParts` and
`StackFieldParts` put the offset together again, where it matters that an offset
of a compressed instruction is a multiple of its width (`ZeroBits`). `Decodes`
has the result for every instruction, which the inductive invariant `Inv` ties to
the steps. `c.lwsp` is left out of `LoadExtends` and is the subject of the run
`stack_loads`.

Only model-checked: the liveness properties (`TrapsEnd`, `TimerRaised`,
`LockReleased`, `FaultsEnd`), since fairness and ENABLED are beyond the prover.

## Not modelled

- `advance_iter_guestmem` and `ended_iter_guestmem`, which have no caller, and
  the parameter `required_perm` of `resolve_guestmem_slice`, which it ignores.
- Saved general purpose registers, the exception stacks, and exceptions in the
  hypervisor itself other than those of the walk of the guest's tables
  (`handle_hypervisor_exception` only panics).
- More than one guest or hart in `Hypervisor`: `MAX_GUESTS`, `MAX_VIRT_HARTS`
  and `MAX_PHYS_HARTS` are 1; guest switching panics with a TODO.
- Output, the report of `panic()`, the debug stack trace, tables of CSR and
  register names, runtime support.

## Plan

1. Done: guest levels, CSRs, timer, devices, the trap sequence; allocator with
   its abstract specification; their proofs.
2. Done: page tables and page faults with the abstract TLB; ownership of the
   table pages, isolation, TLB coherence, the refinement and the service of faults
   proved.
3. Done: decoding against the encodings of the ISA, proved for all instructions.
4. Left: an abstract machine with two levels and an interrupt, which the
   hypervisor implements seen from the guest, with the progress of a guest past a
   `wfi`, the withdrawal of a timer exception by a write of `mtimecmp` and the
   `mtval` of an interrupt: the three hazards without a property are about what
   the guest's machine promises there, and the repository does not say it.
