----------------------------- MODULE PageAlloc -----------------------------
(***************************************************************************)
(* The page allocator: src/pagealloc.c and its lock, src/sync.h.  Free     *)
(* pages that have been used before form a list through their first word;  *)
(* the others are those from next_unallocated_idx on.  Taking the lock,    *)
(* releasing it and each statement of the critical section are steps, so   *)
(* that the harts' calls interleave as far as the lock lets them; the      *)
(* accesses of one statement, and of the two branches of allocate_page     *)
(* (AllocPop, AllocBump), are one step, which nobody can tell apart while  *)
(* the lock is held.                                                       *)
(*                                                                         *)
(* Callers own the pages they have been given and may write anything to    *)
(* them.  They pass only pages they own to deallocate_page ("TODO check    *)
(* bounds and alignment" in the source), or NULL, which it ignores.        *)
(***************************************************************************)
EXTENDS Integers

CONSTANTS Harts,            \* the host's harts
          MaxPages          \* MAX_ALLOCATEABLE_PAGES

ASSUME PageAllocAssumption == /\ MaxPages \in Nat
                              /\ {"pool", "client"} \intersect Harts = {}

Page == 0 .. MaxPages - 1
NULL == -1
PagePtr == Page \union {NULL}

VARIABLES allocator_lock,         \* the flag of the SpinLock
          free_list_top,
          next_unallocated_idx,
          first_word,             \* of each page; next of a FreeListEntry
          pc,                     \* where each hart is
          entry,                  \* local variable of allocate_page
          result,                 \* local variable of allocate_page
          page,                   \* argument of deallocate_page
          owner                   \* the pool, the clients, or the hart whose
                                  \* call is about to pass the page on

shared == <<allocator_lock, free_list_top, next_unallocated_idx, first_word>>
local == <<entry, result, page>>
vars == <<shared, pc, local, owner>>

Location == {"idle",
             "alloc_acquire", "alloc_test", "alloc_pop", "alloc_bump",
             "alloc_release",
             "free_acquire", "free_link", "free_push", "free_release"}

\* page_pool is not initialized.
Init == /\ allocator_lock = FALSE
        /\ free_list_top = NULL
        /\ next_unallocated_idx = 0
        /\ first_word \in [Page -> PagePtr]
        /\ pc = [h \in Harts |-> "idle"]
        /\ entry = [h \in Harts |-> NULL]
        /\ result = [h \in Harts |-> NULL]
        /\ page = [h \in Harts |-> NULL]
        /\ owner = [p \in Page |-> "pool"]

At(h, location) == pc[h] = location
GoTo(h, location) == pc' = [pc EXCEPT ![h] = location]
Give(p, new) == owner' = [owner EXCEPT ![p] = new]

-----------------------------------------------------------------------------
\* Variant with a mistake: the flag is not tested.
spin_lock_acquire_NoTest ==
    /\ allocator_lock' = TRUE
    /\ UNCHANGED <<free_list_top, next_unallocated_idx, first_word>>

\* The last round of the busy wait; the ones before it change nothing.
spin_lock_acquire ==
    /\ ~allocator_lock
    /\ allocator_lock' = TRUE
    /\ UNCHANGED <<free_list_top, next_unallocated_idx, first_word>>

\* Variant with a mistake: the lock is kept.
spin_lock_release_Missing == UNCHANGED shared

spin_lock_release ==
    /\ allocator_lock' = FALSE
    /\ UNCHANGED <<free_list_top, next_unallocated_idx, first_word>>

-----------------------------------------------------------------------------
\* allocate_page
AllocCall(h) ==
    /\ At(h, "idle")
    /\ GoTo(h, "alloc_acquire")
    /\ UNCHANGED <<shared, local, owner>>

AllocAcquire(h) ==
    /\ At(h, "alloc_acquire")
    /\ spin_lock_acquire
    /\ GoTo(h, "alloc_test")
    /\ UNCHANGED <<local, owner>>

\* if ((entry = free_list_top))
AllocTest(h) ==
    /\ At(h, "alloc_test")
    /\ entry' = [entry EXCEPT ![h] = free_list_top]
    /\ GoTo(h, IF free_list_top # NULL THEN "alloc_pop" ELSE "alloc_bump")
    /\ UNCHANGED <<shared, result, page, owner>>

AllocPop(h) ==
    /\ At(h, "alloc_pop")
    /\ free_list_top' = first_word[entry[h]]
    /\ result' = [result EXCEPT ![h] = entry[h]]
    /\ Give(entry[h], h)
    /\ GoTo(h, "alloc_release")
    /\ UNCHANGED <<allocator_lock, next_unallocated_idx, first_word, entry,
                   page>>

\* Variants with a mistake: the limit is not checked, and the last page is not
\* handed out.
AllocBump_NoLimit(h) ==
    /\ At(h, "alloc_bump")
    /\ result' = [result EXCEPT ![h] = next_unallocated_idx]
    /\ next_unallocated_idx' = next_unallocated_idx + 1
    /\ UNCHANGED owner
    /\ GoTo(h, "alloc_release")
    /\ UNCHANGED <<allocator_lock, free_list_top, first_word, entry, page>>

AllocBump_OffByOne(h) ==
    /\ At(h, "alloc_bump")
    /\ IF next_unallocated_idx < MaxPages - 1
       THEN /\ result' = [result EXCEPT ![h] = next_unallocated_idx]
            /\ next_unallocated_idx' = next_unallocated_idx + 1
            /\ Give(next_unallocated_idx, h)
       ELSE /\ result' = [result EXCEPT ![h] = NULL]
            /\ UNCHANGED <<next_unallocated_idx, owner>>
    /\ GoTo(h, "alloc_release")
    /\ UNCHANGED <<allocator_lock, free_list_top, first_word, entry, page>>

AllocBump(h) ==
    /\ At(h, "alloc_bump")
    /\ IF next_unallocated_idx < MaxPages
       THEN /\ result' = [result EXCEPT ![h] = next_unallocated_idx]
            /\ next_unallocated_idx' = next_unallocated_idx + 1
            /\ Give(next_unallocated_idx, h)
       ELSE /\ result' = [result EXCEPT ![h] = NULL]
            /\ UNCHANGED <<next_unallocated_idx, owner>>
    /\ GoTo(h, "alloc_release")
    /\ UNCHANGED <<allocator_lock, free_list_top, first_word, entry, page>>

\* The lock is released, the page belongs to the caller, and the local
\* variables die.
AllocRelease(h) ==
    /\ At(h, "alloc_release")
    /\ spin_lock_release
    /\ IF result[h] = NULL THEN UNCHANGED owner ELSE Give(result[h], "client")
    /\ entry' = [entry EXCEPT ![h] = NULL]
    /\ GoTo(h, "idle")
    /\ UNCHANGED <<result, page>>

-----------------------------------------------------------------------------
\* deallocate_page
FreeCall(h, p) ==
    /\ At(h, "idle")
    /\ owner[p] = "client"
    /\ Give(p, h)
    /\ page' = [page EXCEPT ![h] = p]
    /\ GoTo(h, "free_acquire")
    /\ UNCHANGED <<shared, entry, result>>

FreeAcquire(h) ==
    /\ At(h, "free_acquire")
    /\ spin_lock_acquire
    /\ GoTo(h, "free_link")
    /\ UNCHANGED <<local, owner>>

\* Variant with a mistake: the page is not linked to the list.
FreeLink_Missing(h) ==
    /\ At(h, "free_link")
    /\ GoTo(h, "free_push")
    /\ UNCHANGED <<shared, local, owner>>

FreeLink(h) ==
    /\ At(h, "free_link")
    /\ first_word' = [first_word EXCEPT ![page[h]] = free_list_top]
    /\ GoTo(h, "free_push")
    /\ UNCHANGED <<allocator_lock, free_list_top, next_unallocated_idx, local,
                   owner>>

FreePush(h) ==
    /\ At(h, "free_push")
    /\ free_list_top' = page[h]
    /\ Give(page[h], "pool")
    /\ GoTo(h, "free_release")
    /\ UNCHANGED <<allocator_lock, next_unallocated_idx, first_word, local>>

FreeRelease(h) ==
    /\ At(h, "free_release")
    /\ spin_lock_release
    /\ page' = [page EXCEPT ![h] = NULL]
    /\ GoTo(h, "idle")
    /\ UNCHANGED <<entry, result, owner>>

\* The owner of a page writes its first word.
ClientWrite(p) ==
    /\ owner[p] = "client"
    /\ \E word \in PagePtr : first_word' = [first_word EXCEPT ![p] = word]
    /\ UNCHANGED <<allocator_lock, free_list_top, next_unallocated_idx, pc,
                   local, owner>>

-----------------------------------------------------------------------------
\* The steps of the allocator's own code.
Step(h) == \/ AllocAcquire(h) \/ AllocTest(h) \/ AllocPop(h) \/ AllocBump(h)
           \/ AllocRelease(h)
           \/ FreeAcquire(h) \/ FreeLink(h) \/ FreePush(h) \/ FreeRelease(h)

Next == \/ \E h \in Harts : AllocCall(h) \/ Step(h)
        \/ \E h \in Harts, p \in Page : FreeCall(h, p)
        \/ \E p \in Page : ClientWrite(p)

Spec == Init /\ [][Next]_vars

\* A hart that executes the allocator's code goes on executing it.
FairSpec == Spec /\ \A h \in Harts : WF_vars(Step(h))

-----------------------------------------------------------------------------
Critical == Location \ {"idle", "alloc_acquire", "free_acquire"}

\* The free list, bottom first, as a function on 1 .. n.
IsFreeList(list, n) ==
    /\ \A i, j \in 1 .. n : list[i] = list[j] => i = j
    /\ \A i \in 1 .. n : /\ list[i] < next_unallocated_idx
                         /\ owner[list[i]] = "pool"
                         /\ first_word[list[i]] =
                              IF i = 1 THEN NULL ELSE list[i - 1]
    /\ free_list_top = IF n = 0 THEN NULL ELSE list[n]
    /\ \A p \in Page : p < next_unallocated_idx /\ owner[p] = "pool"
                         => \E i \in 1 .. n : list[i] = p

(* The types of the variables of pagealloc.c.                              *)
TypeOK == /\ allocator_lock \in BOOLEAN
          /\ free_list_top \in PagePtr
          /\ next_unallocated_idx \in 0 .. MaxPages
          /\ first_word \in [Page -> PagePtr]
          /\ pc \in [Harts -> Location]
          /\ entry \in [Harts -> PagePtr]
          /\ result \in [Harts -> PagePtr]
          /\ page \in [Harts -> PagePtr]
          /\ owner \in [Page -> Harts \union {"pool", "client"}]

(* allocator_lock keeps the harts apart: at most one is between acquire and *)
(* release, and then the flag is set.                                      *)
MutualExclusion ==
    /\ \A h \in Harts : pc[h] \in Critical => allocator_lock
    /\ \A g, h \in Harts : pc[g] \in Critical /\ pc[h] \in Critical => g = h

(* The chain from free_list_top is finite, without repetition, ends in      *)
(* NULL, and holds exactly the pages that were deallocated and are in use  *)
(* by nobody: nothing is leaked, nothing is listed twice, and what clients *)
(* write to their pages never reaches the list.                            *)
FreeListSound ==
    \E n \in 0 .. MaxPages : \E list \in [1 .. n -> Page] : IsFreeList(list, n)

(* The allocator implements the promise of PagePool.                        *)
Pool == INSTANCE PagePool WITH used <- {p \in Page : owner[p] # "pool"}
Refinement == Pool!Spec

(* The lock never stays taken: every critical section ends.                 *)
LockReleased == allocator_lock ~> ~allocator_lock
=============================================================================
