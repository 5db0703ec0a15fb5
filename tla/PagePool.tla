------------------------------ MODULE PagePool ------------------------------
(***************************************************************************)
(* What the page allocator promises to its callers (src/pagealloc.h): a    *)
(* page that is handed out is in use by nobody else, and only a pool with  *)
(* every page in use answers NULL.                                         *)
(***************************************************************************)
EXTENDS Integers

CONSTANTS Harts,            \* the callers
          MaxPages          \* MAX_ALLOCATEABLE_PAGES

Page == 0 .. MaxPages - 1
NULL == -1

VARIABLES used,             \* the pages in use
          result            \* the last answer to each caller

pool_vars == <<used, result>>

Init == used = {} /\ result = [h \in Harts |-> NULL]

Allocate(h) ==
    \E p \in Page \ used : /\ used' = used \union {p}
                           /\ result' = [result EXCEPT ![h] = p]

Exhausted(h) ==
    /\ used = Page
    /\ result' = [result EXCEPT ![h] = NULL]
    /\ UNCHANGED used

Deallocate ==
    \E p \in used : used' = used \ {p} /\ UNCHANGED result

Next == Deallocate \/ \E h \in Harts : Allocate(h) \/ Exhausted(h)

Spec == Init /\ [][Next]_pool_vars
=============================================================================
